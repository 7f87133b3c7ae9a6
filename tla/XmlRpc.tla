------------------------------- MODULE XmlRpc -------------------------------
(***************************************************************************)
(* One XmlRpcClient and the server it talks to, both from src/xmlrpcpp.    *)
(*                                                                         *)
(* The client keeps its connection from call to call.  execute sets up the *)
(* connection, writes the request and reads the answer as the socket lets  *)
(* it, and gives up after its timeout, if it has one: the calls to fldigi  *)
(* have, those to the log program wait for ever.  The server is one        *)
(* thread: it accepts connections, reads, executes and answers, a round of *)
(* select at a time.  It may stop at any moment and be started again.      *)
(*                                                                         *)
(* A request is two pieces, its header and its body; an answer is three,   *)
(* for a header may arrive in parts.  Each piece names its call.           *)
(***************************************************************************)
EXTENDS Naturals, Sequences, SequencesExt

CONSTANTS MaxCalls,   \* bound: calls of execute
          MaxCrashes  \* bound: times the server stops

ASSUME BoundsAssumption == MaxCalls \in Nat /\ MaxCrashes \in Nat

Calls     == 1..MaxCalls
Conns     == 1..(2 * MaxCalls)   \* a call opens at most two connections
Listening == 0                   \* the server's listening socket, among its sources
RequestLen == 2
AnswerLen  == 3

VARIABLES
    connectionState, eof, sendAttempts, bytesWritten,
    fd,         \* the client's connection, 0 for none
    received,   \* _header and _response: the pieces read so far
    monitored,  \* the connection is a source of the client's dispatcher
    executing,  \* a call is under way
    endTime,    \* _endTime: it was given a timeout, and does not wait for ever
    call,       \* the calls begun
    result,     \* what each ended call returned: <<>> for false, else the call it answers
    excused,    \* history: the calls during which something happened that may fail them
    halved,     \* history: the calls written in part on a connection closed by the server
    opened,     \* the connections opened so far
    toServer, toClient,   \* the pieces on their way
    ended,      \* how the server's end of a connection ended: "no", "fin" or "rst"
    running, backlog,     \* the server; the connections it has not accepted
    sources,    \* its connections, in the order they were accepted
    ready,      \* the sources select has reported, those still to be handled
    request, response,    \* per connection: the pieces read, the pieces still to be written
    executed,   \* history: the calls executed, and how often the server had stopped then
    crashes

client  == <<connectionState, eof, sendAttempts, bytesWritten, fd, received, monitored,
             executing, endTime, call, result, halved>>
server  == <<running, sources, ready, request, response, executed, crashes>>
vars    == <<client, server, excused, opened, toServer, toClient, ended, backlog>>

-----------------------------------------------------------------------------
(* The client.                                                             *)

Excuse == excused' = excused \cup {call}

\* The dispatcher's loop runs in execute only, and has events for the client while its
\* connection is a source.
Working == executing /\ monitored

\* setupConnection once the socket is open: the request is written from its start.
Prepared ==
    /\ connectionState' = "WRITE_REQUEST" /\ bytesWritten' = 0
    /\ monitored' = TRUE

\* doConnect: the system accepts the connection for a running server; otherwise the
\* socket reports the refusal when it is written to.
Connected ==
    /\ opened' = opened + 1 /\ fd' = opened'
    /\ backlog' = IF running THEN Append(backlog, fd') ELSE backlog
    /\ ended' = IF running THEN ended ELSE [ended EXCEPT ![fd'] = "rst"]
    /\ Prepared

\* doConnect fails at once: no descriptor left, host name not found.
NotConnected ==
    /\ connectionState' = "NO_CONNECTION" /\ fd' = 0
    /\ monitored' = FALSE
    /\ UNCHANGED <<bytesWritten, opened, backlog, ended>>

\* Variant of MustClose: an unfinished call leaves its connection to the next.
MustCloseAtEof == eof

\* An error in the last call, or the server has closed the connection.
MustClose == connectionState \notin {"NO_CONNECTION", "IDLE"} \/ eof

\* execute, up to the dispatcher's loop: setupConnection and generateRequest.
Execute ==
    /\ ~executing /\ call < MaxCalls
    /\ executing' = TRUE /\ call' = call + 1 /\ endTime' \in BOOLEAN
    /\ sendAttempts' = 0 /\ eof' = FALSE
    /\ IF MustClose \/ connectionState = "NO_CONNECTION"
       THEN \/ Connected    /\ excused' = IF running THEN excused ELSE excused \cup {call'}
            \/ NotConnected /\ excused' = excused \cup {call'}
       ELSE Prepared /\ UNCHANGED <<fd, opened, backlog, ended, excused>>
    /\ UNCHANGED <<received, result, halved, server, toServer, toClient>>

\* Variant of Cleared: what was read of an earlier answer stays.
NotCleared == received

\* The whole request is written: _header and _response start empty.
Cleared == <<>>

\* writeRequest: as much as the socket takes.  The first write on a connection the
\* server has closed succeeds, and is answered with a reset: if that was the whole request,
\* readHeader will find no answer and try again; if it was a part, the next write fails.
WriteRequest(n) ==
    /\ Working /\ connectionState = "WRITE_REQUEST" /\ ended[fd] # "rst"
    /\ bytesWritten' = bytesWritten + n /\ bytesWritten' <= RequestLen
    /\ IF bytesWritten' = RequestLen
       THEN received' = Cleared /\ connectionState' = "READ_HEADER" /\ UNCHANGED halved
       ELSE /\ UNCHANGED <<received, connectionState>>
            /\ halved' = IF ended[fd] = "fin" THEN halved \cup {call} ELSE halved
    /\ toServer' = [toServer EXCEPT ![fd] = @ \o [k \in 1..n |-> call]]
    /\ ended' = [ended EXCEPT ![fd] = IF @ = "fin" THEN "rst" ELSE @]
    /\ UNCHANGED <<eof, sendAttempts, fd, monitored, executing, endTime, call, result, server,
                   excused, opened, toClient, backlog>>

WriteFails ==
    /\ Working /\ connectionState = "WRITE_REQUEST" /\ ended[fd] = "rst"
    /\ monitored' = FALSE
    /\ UNCHANGED <<connectionState, eof, sendAttempts, bytesWritten, fd, received, executing,
                   endTime, call, result, halved, server, excused, opened, toServer, toClient,
                   ended, backlog>>

\* select reports the connection readable: nbRead reads all there is, up to the end.
Readable == ended[fd] # "no" \/ toClient[fd] # <<>>
Reading  == Working /\ connectionState \in {"READ_HEADER", "READ_RESPONSE"} /\ Readable
Got      == received \o toClient[fd]

\* The server closed the connection before it answered anything.
NoAnswer == connectionState = "READ_HEADER" /\ Got = <<>>

\* Variant of KeepsReading: only the end of the connection ends the answer.
KeepsReadingToEof(state) == ended[fd] = "no"

\* readHeader and readResponse return true, to be called again: the answer is not complete.
KeepsReading(state) == state # "IDLE" /\ ended[fd] = "no"

\* readHeader and readResponse with something to read.
ReadAnswer ==
    /\ Reading /\ ~NoAnswer
    /\ received' = Got /\ toClient' = [toClient EXCEPT ![fd] = <<>>]
    /\ eof' = (ended[fd] = "fin")
    /\ connectionState' = CASE Len(Got) = AnswerLen /\ ended[fd] # "rst" -> "IDLE"
                            [] Len(Got) > 1 -> "READ_RESPONSE"
                            [] OTHER        -> "READ_HEADER"
    /\ monitored' = KeepsReading(connectionState')
    /\ UNCHANGED <<sendAttempts, bytesWritten, fd, executing, endTime, call, result, halved, server,
                   excused, opened, toServer, ended, backlog>>

\* Variant of MayRetry: no retry.
MayNotRetry == FALSE

\* Variant of MayRetry: as often as it takes.
MayRetryTwice == sendAttempts < 2

\* readHeader: "we try one more time", for the connection is kept open.
MayRetry == sendAttempts = 0

Retry ==
    /\ Reading /\ NoAnswer /\ MayRetry
    /\ sendAttempts' = sendAttempts + 1 /\ eof' = FALSE
    /\ \/ Connected /\ IF running THEN UNCHANGED excused ELSE Excuse
       \/ NotConnected /\ Excuse
    /\ UNCHANGED <<received, executing, endTime, call, result, halved, server, toServer, toClient>>

GiveUp ==
    /\ Reading /\ NoAnswer /\ ~MayRetry
    /\ monitored' = FALSE
    /\ sendAttempts' = sendAttempts + 1 /\ eof' = (ended[fd] = "fin")
    /\ UNCHANGED <<connectionState, bytesWritten, fd, received, executing, endTime, call, result,
                   halved, server, excused, opened, toServer, toClient, ended, backlog>>

\* The dispatcher's loop ends at its end time, if there is one, with everything left as it is.
TimedOut ==
    /\ endTime /\ Working
    /\ executing' = FALSE /\ result' = Append(result, <<>>)
    /\ Excuse
    /\ UNCHANGED <<connectionState, eof, sendAttempts, bytesWritten, fd, received, monitored,
                   endTime, call, halved, server, opened, toServer, toClient, ended, backlog>>

\* It ends when nothing is monitored: execute returns true if the answer is complete.
Return ==
    /\ executing /\ ~monitored
    /\ executing' = FALSE
    /\ result' = Append(result, IF connectionState = "IDLE" THEN <<Last(received)>> ELSE <<>>)
    /\ UNCHANGED <<connectionState, eof, sendAttempts, bytesWritten, fd, received, monitored,
                   endTime, call, halved, server, excused, opened, toServer, toClient, ended,
                   backlog>>

-----------------------------------------------------------------------------
(* The server.                                                             *)

\* The client has one socket: it has closed every connection but that.
ClosedByClient(c) == c # fd

HasEvent(c) == IF c = Listening THEN backlog # <<>>
               ELSE response[c] # <<>> \/ toServer[c] # <<>> \/ ClosedByClient(c)

\* select fills its sets of descriptors.
Select ==
    /\ running /\ ready = {}
    /\ ready' = {c \in {Listening} \cup Range(sources) : HasEvent(c)}
    /\ ready' # {}
    /\ UNCHANGED <<client, excused, opened, toServer, toClient, ended, backlog, running,
                   sources, request, response, executed, crashes>>

\* The events are taken in the order of the list of sources, the listening socket first.
Turn(i) == /\ sources[i] \in ready
           /\ \A j \in {Listening} \cup {sources[k] : k \in 1..(i - 1)} : j \notin ready

\* acceptConnection: one connection a round.
Accept ==
    /\ Listening \in ready
    /\ sources' = Append(sources, Head(backlog))
    /\ backlog' = Tail(backlog)
    /\ ready' = ready \ {Listening}
    /\ UNCHANGED <<client, excused, opened, toServer, toClient, ended, running, request,
                   response, executed, crashes>>

\* handleEvent returns 0: the connection is removed, closed and deleted.
Dropped(i) ==
    /\ sources' = RemoveAt(sources, i)
    /\ ended' = [ended EXCEPT ![sources[i]] = "fin"]
    /\ UNCHANGED <<request, response, toClient>>

\* Variant of AfterAnswer: the request stays.
AfterAnswerKept(req) == req

\* writeResponse: a request that is answered is forgotten.
AfterAnswer(req) == <<>>

\* writeResponse: n pieces of the answer "ans" to the request "req" are taken.
Writes(c, req, ans, n) ==
    /\ n <= Len(ans)
    /\ response' = [response EXCEPT ![c] = SubSeq(ans, n + 1, Len(ans))]
    /\ request' = [request EXCEPT ![c] = IF n = Len(ans) THEN AfterAnswer(req) ELSE req]
    /\ toClient' = IF ClosedByClient(c) THEN toClient
                   ELSE [toClient EXCEPT ![c] = @ \o SubSeq(ans, 1, n)]
    /\ UNCHANGED <<sources, ended>>

\* handleEvent of a connection: it reads all there is; a complete request is executed
\* and answered even when its client has gone, an incomplete one ends with it.
HandleEvent(i, n) ==
    LET c   == sources[i]
        req == request[c] \o toServer[c]
    IN  /\ Turn(i)
        /\ ready' = ready \ {c}
        /\ IF response[c] # <<>>
           THEN /\ \/ Writes(c, request[c], response[c], n)
                   \/ ClosedByClient(c) /\ n = 0 /\ Dropped(i)
                /\ UNCHANGED <<toServer, executed>>
           ELSE /\ toServer' = [toServer EXCEPT ![c] = <<>>]
                /\ IF Len(req) = RequestLen
                   THEN /\ executed' = Append(executed, [call |-> Last(req), life |-> crashes])
                        /\ Writes(c, req, [k \in 1..AnswerLen |-> Last(req)], n)
                   ELSE /\ n = 0 /\ UNCHANGED executed
                        /\ IF ClosedByClient(c) THEN Dropped(i)
                           ELSE /\ request' = [request EXCEPT ![c] = req]
                                /\ UNCHANGED <<sources, ended, response, toClient>>
        /\ UNCHANGED <<client, excused, opened, backlog, running, crashes>>

\* The program ends.  The system closes its sockets; one with unread data is reset.
Crash ==
    /\ running /\ crashes < MaxCrashes
    /\ running' = FALSE /\ crashes' = crashes + 1
    /\ ended' = [c \in Conns |->
                   IF c \notin Range(sources \o backlog) THEN ended[c]
                   ELSE IF toServer[c] = <<>> THEN "fin" ELSE "rst"]
    /\ sources' = <<>> /\ ready' = {} /\ backlog' = <<>>
    /\ toServer' = [c \in Conns |-> <<>>]
    /\ request' = [c \in Conns |-> <<>>] /\ response' = [c \in Conns |-> <<>>]
    /\ IF executing THEN Excuse ELSE UNCHANGED excused
    /\ UNCHANGED <<client, opened, toClient, executed>>

Restart ==
    /\ ~running /\ running' = TRUE
    /\ UNCHANGED <<client, excused, opened, toServer, toClient, ended, backlog, sources,
                   ready, request, response, executed, crashes>>

-----------------------------------------------------------------------------
Init ==
    /\ connectionState = "NO_CONNECTION" /\ eof = FALSE
    /\ sendAttempts = 0 /\ bytesWritten = 0 /\ fd = 0
    /\ received = <<>> /\ monitored = FALSE
    /\ executing = FALSE /\ endTime = FALSE /\ call = 0 /\ result = <<>>
    /\ excused = {} /\ halved = {}
    /\ opened = 0 /\ backlog = <<>>
    /\ toServer = [c \in Conns |-> <<>>] /\ toClient = [c \in Conns |-> <<>>]
    /\ ended = [c \in Conns |-> "no"]
    /\ running \in BOOLEAN
    /\ sources = <<>> /\ ready = {}
    /\ request = [c \in Conns |-> <<>>] /\ response = [c \in Conns |-> <<>>]
    /\ executed = <<>> /\ crashes = 0

Client == \/ Execute \/ WriteFails \/ ReadAnswer \/ Retry \/ GiveUp \/ TimedOut \/ Return
          \/ \E n \in 1..RequestLen : WriteRequest(n)

Server == \/ Select \/ Accept \/ Crash \/ Restart
          \/ \E i \in DOMAIN sources, n \in 0..AnswerLen : HandleEvent(i, n)

Next == Client \/ Server

\* The dispatcher's loop attends to the client's connection; the server, while it runs, to its
\* own, and the socket takes at last what it is to write ("least" pieces of it).
Attends == WriteFails \/ ReadAnswer \/ Retry \/ GiveUp \/ \E n \in 1..RequestLen : WriteRequest(n)
Event(least) == \E i \in DOMAIN sources, n \in least..AnswerLen : HandleEvent(i, n)

\* A call without a timeout, which lasts until its connection ends it.
Endless == executing /\ ~endTime

\* Time passes, so that the dispatcher's loop ends where it has an end time: of the server
\* nothing is asked then.  During a call without a timeout client and server are attended to.
FairSpec == /\ Init /\ [][Next]_vars
            /\ WF_vars(TimedOut \/ Return)
            /\ WF_vars(Endless /\ Attends)
            /\ WF_vars(Endless /\ Select) /\ WF_vars(Endless /\ Accept)
            /\ WF_vars(Endless /\ Event(0)) /\ SF_vars(Endless /\ Event(1))

-----------------------------------------------------------------------------
(* Properties.                                                             *)

Pieces == Seq(Calls)

\* connectionState, the pieces and the connections keep their ranges: at most two connections a
\* call, at most the pieces of one answer.
TypeOK ==
    /\ connectionState \in {"NO_CONNECTION", "WRITE_REQUEST", "READ_HEADER",
                            "READ_RESPONSE", "IDLE"}
    /\ {eof, monitored, executing, endTime, running} \subseteq BOOLEAN
    /\ sendAttempts \in 0..2 /\ bytesWritten \in 0..RequestLen
    /\ fd \in Conns \cup {0} /\ opened \in 0..(2 * MaxCalls)
    /\ received \in Pieces /\ Len(received) <= AnswerLen
    /\ call \in 0..MaxCalls /\ excused \subseteq Calls /\ halved \subseteq Calls
    /\ result \in Seq({<<>>} \cup {<<n>> : n \in Calls})
    /\ toServer \in [Conns -> Pieces] /\ toClient \in [Conns -> Pieces]
    /\ request \in [Conns -> Pieces] /\ response \in [Conns -> Pieces]
    /\ ended \in [Conns -> {"no", "fin", "rst"}]
    /\ {backlog, sources} \subseteq Seq(Conns) /\ ready \subseteq Conns \cup {Listening}
    /\ executed \in Seq([call : Calls, life : 0..MaxCrashes])
    /\ crashes \in 0..MaxCrashes

\* An answer that comes late, in parts or after a retry is never taken for the answer to
\* a later call.
AnswersItsOwnCall == \A n \in DOMAIN result : result[n] \in {<<>>, <<n>>}

\* The retry repeats a request only if the server has stopped since it executed it.
OncePerLife == \A j, k \in DOMAIN executed : executed[j] = executed[k] => j = k

\* A call fails for what happens during the call: what earlier calls, and a server restarted
\* in between, have left of the connection is repaired, with one exception.  A request that the
\* socket takes in parts, on a connection the server had closed, fails and is not repeated.
FailsForACause ==
    \A n \in DOMAIN result : result[n] = <<>> => n \in excused \/ n \in halved

\* execute returns: with a timeout whatever the server does, and without one as long as the
\* server attends to its connections or stops, whatever stops before have left of the connection.
CallsReturn == executing ~> ~executing

\* What each ended call returned, and the calls the server has executed.
Returned == [n \in DOMAIN result |-> result[n] # <<>>]
Done     == [k \in DOMAIN executed |-> executed[k].call]

\* The calls seen from outside: in order, at most twice, done if they return true.
Abstract == INSTANCE RemoteCall WITH begun <- call, returned <- Returned, done <- Done

RemoteCallSpec == Abstract!Spec
=============================================================================
