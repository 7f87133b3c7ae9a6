---------------------------- MODULE XmlRpcProofs ----------------------------
(***************************************************************************)
(* The XML-RPC client and its server, for any number of calls and crashes. *)
(*                                                                         *)
(* What makes an answer the call's own is a count.  A connection that is   *)
(* kept for the next call has carried a whole request and a whole answer,  *)
(* so nothing of it is left anywhere on its way; every other connection is *)
(* closed, and the pieces on the client's connection are all of the one    *)
(* call (IInv).                                                            *)
(*                                                                         *)
(* On that rest, one on the other: what the server executes in one life    *)
(* (LifeInv), why a call fails (CauseInv), and the order and number of the *)
(* executions, with which the two implement RemoteCall (OrderedInv).       *)
(***************************************************************************)
EXTENDS XmlRpc, SequenceTheorems, TLAPS

\* A call opens a connection when it begins and one when it retries, and gives up after
\* the second attempt; every call that has ended has its result.
CountInv ==
    /\ opened <= 2 * call
    /\ executing => call >= 1 /\ (sendAttempts = 0 => opened < 2 * call)
    /\ monitored => sendAttempts < 2
    /\ Len(result) = IF executing THEN call - 1 ELSE call

\* No piece is on its way or kept on connection c.
Quiet(c) == /\ toServer[c] = <<>> /\ request[c] = <<>>
            /\ response[c] = <<>> /\ toClient[c] = <<>>

\* The client's connection is the last one opened; the next one is unused.
ConnInv ==
    /\ fd \in {0, opened}
    /\ fd = 0 <=> connectionState = "NO_CONNECTION"
    /\ monitored => fd # 0
    /\ sources \in Seq(1..opened) /\ backlog \in Seq(1..opened)
    /\ \A c \in Conns : c > opened => Quiet(c)
    /\ Listening \in ready => backlog # <<>>

\* The request of the client is on its way, or was lost, and nothing is answered.
Asked ==
    /\ response[fd] = <<>> /\ toClient[fd] = <<>>
    /\ connectionState # "WRITE_REQUEST" => received = <<>>
    /\ Len(toServer[fd]) + Len(request[fd]) <= bytesWritten

\* The server has executed the request: the pieces of one answer, and none of a request
\* that could be executed again.
Answered ==
    /\ connectionState # "WRITE_REQUEST"
    /\ toServer[fd] = <<>> /\ (response[fd] = <<>> => request[fd] = <<>>)
    /\ Len(received) + Len(toClient[fd]) + Len(response[fd]) <= AnswerLen

\* The pieces on the client's connection.
TalkInv ==
    fd # 0 =>
      /\ toServer[fd] \in Seq({call}) /\ request[fd] \in Seq({call})
      /\ response[fd] \in Seq({call}) /\ toClient[fd] \in Seq({call})
      /\ Asked \/ Answered
      /\ connectionState # "WRITE_REQUEST" => received \in Seq({call})
      /\ (connectionState = "WRITE_REQUEST") = (bytesWritten < RequestLen)
      /\ connectionState = "IDLE" => Quiet(fd) /\ Len(received) = AnswerLen

IInv == TypeOK /\ CountInv /\ ConnInv /\ TalkInv /\ AnswersItsOwnCall

-----------------------------------------------------------------------------
(* Sequences of pieces.                                                    *)

\* The n pieces of one call.
LEMMA Copies ==
    ASSUME NEW k, NEW n \in Nat
    PROVE  /\ [j \in 1..n |-> k] \in Seq({k})
           /\ Len([j \in 1..n |-> k]) = n
<1> DEFINE s == [j \in 1..n |-> k]
<1>1. s \in [1..n -> {k}]
  OBVIOUS
<1>2. s \in Seq({k})
  BY <1>1, SeqDef
<1>3. DOMAIN s = 1..n
  OBVIOUS
<1>4. DOMAIN s = 1..Len(s) /\ Len(s) \in Nat
  BY <1>2, LenProperties
<1> HIDE DEF s
<1>5. Len(s) = n
  <2>1. n \in 1..n \/ n = 0
    OBVIOUS
  <2>2. Len(s) \in 1..Len(s) \/ Len(s) = 0
    BY <1>4
  <2>3. QED
    BY <2>1, <2>2, <1>3, <1>4
<1>6. QED
  BY <1>2, <1>5 DEF s

\* The call of a piece that is there.
LEMMA LastPiece ==
    ASSUME NEW k, NEW s \in Seq({k}), s # <<>>
    PROVE  Last(s) = k
BY DEF Last

\* Pieces taken from the front, and what is left of an answer.
LEMMA Split ==
    ASSUME NEW S, NEW s \in Seq(S), NEW n \in 0..Len(s)
    PROVE  /\ SubSeq(s, 1, n) \in Seq(S) /\ Len(SubSeq(s, 1, n)) = n
           /\ SubSeq(s, n + 1, Len(s)) \in Seq(S)
           /\ Len(SubSeq(s, n + 1, Len(s))) = Len(s) - n
OBVIOUS

\* The lengths of what has come, of what is on its way and of what is to be sent.
LEMMA Lengths ==
    ASSUME NEW k, NEW r \in Seq({k}), NEW c \in Seq({k}), NEW p \in Seq({k}), NEW m \in Nat
    PROVE  /\ r \o c \in Seq({k}) /\ Len(r \o c) = Len(r) + Len(c)
           /\ Len(r) + Len(c) + Len(p) <= m =>
                /\ Len(r \o c) + Len(<<>>) + Len(p) <= m
                /\ Len(r \o c) <= m
                /\ Len(r \o c) = m => p = <<>>
<1>1. r \o c \in Seq({k}) /\ Len(r \o c) = Len(r) + Len(c)
  BY ConcatProperties
<1>2. Len(r) \in Nat /\ Len(c) \in Nat /\ Len(p) \in Nat /\ Len(<<>>) = 0
  OBVIOUS
<1>3. Len(p) = 0 => p = <<>>
  OBVIOUS
<1>4. QED
  BY <1>1, <1>2, <1>3

\* A list without one of its entries.
LEMMA Removed ==
    ASSUME NEW S, NEW s \in Seq(S), NEW i \in DOMAIN s
    PROVE  /\ RemoveAt(s, i) \in Seq(S)
           /\ Len(RemoveAt(s, i)) = Len(s) - 1
           /\ \A j \in 1..(Len(s) - 1) : RemoveAt(s, i)[j] = IF j < i THEN s[j] ELSE s[j + 1]
<1> DEFINE a == SubSeq(s, 1, i - 1)
           b == SubSeq(s, i + 1, Len(s))
<1>1. i \in 1..Len(s) /\ Len(s) \in Nat
  OBVIOUS
<1>2. a \in Seq(S) /\ Len(a) = i - 1 /\ \A j \in 1..(i - 1) : a[j] = s[j]
  BY <1>1
<1>3. b \in Seq(S) /\ Len(b) = Len(s) - i /\ \A j \in 1..(Len(s) - i) : b[j] = s[i + j]
  BY <1>1
<1> HIDE DEF a, b
<1>4. /\ a \o b \in Seq(S) /\ Len(a \o b) = Len(s) - 1
      /\ \A j \in 1..(Len(s) - 1) : (a \o b)[j] = IF j <= i - 1 THEN a[j] ELSE b[j - (i - 1)]
  <2>1. /\ a \o b \in Seq(S) /\ Len(a \o b) = Len(a) + Len(b)
        /\ \A j \in 1..(Len(a) + Len(b)) :
             (a \o b)[j] = IF j <= Len(a) THEN a[j] ELSE b[j - Len(a)]
    BY <1>2, <1>3, ConcatProperties
  <2>2. Len(a) + Len(b) = Len(s) - 1
    BY <1>1, <1>2, <1>3
  <2>3. QED
    BY <1>2, <2>1, <2>2
<1>5. ASSUME NEW j \in 1..(Len(s) - 1)
      PROVE  (a \o b)[j] = IF j < i THEN s[j] ELSE s[j + 1]
  <2>1. CASE j < i
    BY <1>1, <1>2, <1>4, <2>1
  <2>2. CASE ~(j < i)
    <3>1. j - (i - 1) \in 1..(Len(s) - i) /\ i + (j - (i - 1)) = j + 1
      BY <1>1, <2>2
    <3>2. b[j - (i - 1)] = s[j + 1]
      BY <1>3, <3>1
    <3>3. ~(j <= i - 1)
      BY <1>1, <2>2
    <3>4. (a \o b)[j] = b[j - (i - 1)]
      BY <1>4, <3>3, Zenon
    <3>5. QED
      BY <2>2, <3>2, <3>4, Zenon
  <2>3. QED
    BY <2>1, <2>2
<1>6. RemoveAt(s, i) = a \o b
  BY DEF RemoveAt, a, b
<1>7. QED
  BY <1>4, <1>5, <1>6

-----------------------------------------------------------------------------
(* The client.                                                             *)

\* At first nothing is connected and nothing on its way.
LEMMA InitHolds == Init => IInv
<1> SUFFICES ASSUME Init PROVE IInv
  OBVIOUS
<1> USE BoundsAssumption DEF Init
<1>1. TypeOK
  <2>1. {eof, monitored, executing, endTime, running} \subseteq BOOLEAN
    BY Zenon
  <2>2. /\ toServer \in [Conns -> Pieces] /\ toClient \in [Conns -> Pieces]
        /\ request \in [Conns -> Pieces] /\ response \in [Conns -> Pieces]
        /\ ended \in [Conns -> {"no", "fin", "rst"}]
    BY DEF Pieces
  <2>3. {backlog, sources} \subseteq Seq(Conns) /\ ready \subseteq Conns \cup {Listening}
    OBVIOUS
  <2>4. QED
    BY <2>1, <2>2, <2>3 DEF TypeOK, Pieces, RequestLen, AnswerLen, Calls
<1>2. CountInv
  BY DEF CountInv
<1>3. ConnInv
  BY DEF ConnInv, Quiet, Listening
<1>4. TalkInv /\ AnswersItsOwnCall
  BY DEF TalkInv, AnswersItsOwnCall
<1>5. QED
  BY <1>1, <1>2, <1>3, <1>4 DEF IInv

\* The dispatcher loses a client that cannot write, and nothing moves.
LEMMA WriteFailsKeeps == IInv /\ WriteFails => IInv'
<1> SUFFICES ASSUME IInv, WriteFails PROVE IInv'
  OBVIOUS
<1> USE BoundsAssumption DEF WriteFails, server, Working, IInv
<1>1. TypeOK'
  BY DEF TypeOK, Pieces
<1>2. CountInv'
  BY DEF CountInv
<1>3. ConnInv'
  BY DEF ConnInv, Quiet
<1>4. TalkInv' /\ AnswersItsOwnCall'
  BY DEF TalkInv, AnswersItsOwnCall, Asked, Answered, Quiet
<1>5. QED
  BY <1>1, <1>2, <1>3, <1>4

\* The same for one that has retried.
LEMMA GiveUpKeeps == IInv /\ GiveUp => IInv'
<1> SUFFICES ASSUME IInv, GiveUp PROVE IInv'
  OBVIOUS
<1> USE BoundsAssumption DEF GiveUp, server, Working, IInv, Reading, MayRetry
<1>1. TypeOK'
  <2>1. sendAttempts' \in 0..2
    BY DEF TypeOK, CountInv
  <2>2. {eof, monitored, executing, endTime, running}' \subseteq BOOLEAN
    BY Zenon DEF TypeOK
  <2>3. QED
    BY <2>1, <2>2 DEF TypeOK, Pieces
<1>2. CountInv'
  BY DEF CountInv, TypeOK
<1>3. ConnInv'
  BY DEF ConnInv, Quiet
<1>4. TalkInv' /\ AnswersItsOwnCall'
  BY DEF TalkInv, AnswersItsOwnCall, Asked, Answered, Quiet
<1>5. QED
  BY <1>1, <1>2, <1>3, <1>4

\* select only looks: the listening socket is ready if a connection waits.
LEMMA SelectKeeps == IInv /\ Select => IInv'
<1> SUFFICES ASSUME IInv, Select PROVE IInv'
  OBVIOUS
<1> USE BoundsAssumption DEF Select, client, IInv
<1>1. TypeOK'
  <2>1. Range(sources) \subseteq Conns
    BY DEF TypeOK, Range
  <2>2. ready' \subseteq Conns \cup {Listening}
    BY <2>1
  <2>3. QED
    BY <2>2 DEF TypeOK, Pieces
<1>2. CountInv'
  BY DEF CountInv
<1>3. ConnInv'
  BY DEF ConnInv, Quiet, HasEvent
<1>4. TalkInv' /\ AnswersItsOwnCall'
  BY DEF TalkInv, AnswersItsOwnCall, Asked, Answered, Quiet
<1>5. QED
  BY <1>1, <1>2, <1>3, <1>4

\* A server that starts has nothing of the one before.
LEMMA RestartKeeps == IInv /\ Restart => IInv'
<1> SUFFICES ASSUME IInv, Restart PROVE IInv'
  OBVIOUS
<1> USE BoundsAssumption DEF Restart, client, IInv
<1>1. TypeOK'
  BY DEF TypeOK, Pieces
<1>2. CountInv'
  BY DEF CountInv
<1>3. ConnInv'
  BY DEF ConnInv, Quiet
<1>4. TalkInv' /\ AnswersItsOwnCall'
  BY DEF TalkInv, AnswersItsOwnCall, Asked, Answered, Quiet
<1>5. QED
  BY <1>1, <1>2, <1>3, <1>4

\* A call that ends adds its result, false or its own answer.
LEMMA ResultKeeps ==
    ASSUME TypeOK, CountInv, AnswersItsOwnCall, executing,
           NEW r \in {<<>>, <<call>>}, result' = Append(result, r)
    PROVE  /\ call \in Calls /\ Len(result') = call
           /\ result' \in Seq({<<>>} \cup {<<n>> : n \in Calls})
           /\ AnswersItsOwnCall'
<1> DEFINE R == {<<>>} \cup {<<n>> : n \in Calls}
<1>1. call \in Calls /\ Len(result) = call - 1
  BY BoundsAssumption DEF TypeOK, CountInv, Calls
<1>2. r \in R
  <2>1. <<call>> \in R
    BY <1>1
  <2>2. QED
    BY <2>1
<1>3. result \in Seq(R)
  BY DEF TypeOK
<1> HIDE DEF R
<1>4. /\ result' \in Seq(R) /\ Len(result') = call /\ result'[call] = r
      /\ \A n \in 1..(call - 1) : result'[n] = result[n]
  BY <1>1, <1>2, <1>3, AppendProperties DEF Calls
<1>5. AnswersItsOwnCall'
  <2> SUFFICES ASSUME NEW n \in DOMAIN result' PROVE result'[n] \in {<<>>, <<n>>}
    BY DEF AnswersItsOwnCall
  <2>1. n \in 1..call
    BY <1>4
  <2>2. CASE n = call
    BY <1>4, <2>2
  <2>3. CASE n # call
    <3>1. n \in 1..(call - 1) /\ n \in DOMAIN result
      BY <1>1, <1>3, <2>1, <2>3 DEF Calls
    <3>2. QED
      BY <1>4, <3>1 DEF AnswersItsOwnCall
  <2>4. QED
    BY <2>2, <2>3
<1>6. QED
  BY <1>1, <1>4, <1>5 DEF R

\* A call that ends at its time leaves everything as it is.
LEMMA TimedOutKeeps == IInv /\ TimedOut => IInv'
<1> SUFFICES ASSUME IInv, TimedOut PROVE IInv'
  OBVIOUS
<1> USE BoundsAssumption DEF TimedOut, server, Working, IInv
<1>1. /\ call \in Calls /\ Len(result') = call
      /\ result' \in Seq({<<>>} \cup {<<n>> : n \in Calls})
      /\ AnswersItsOwnCall'
  BY ResultKeeps
<1>2. TypeOK'
  <2>1. excused' \subseteq Calls /\ halved' \subseteq Calls
    BY <1>1 DEF TypeOK, Excuse
  <2>2. {eof, monitored, executing, endTime, running}' \subseteq BOOLEAN
    BY Zenon DEF TypeOK
  <2>3. QED
    BY <1>1, <2>1, <2>2 DEF TypeOK, Pieces
<1>3. CountInv'
  BY <1>1 DEF CountInv, TypeOK
<1>4. ConnInv'
  BY DEF ConnInv, Quiet
<1>5. TalkInv'
  BY DEF TalkInv, Asked, Answered, Quiet
<1>6. QED
  BY <1>1, <1>2, <1>3, <1>4, <1>5

\* A call that returns true does so with a whole answer, which is its own.
LEMMA ReturnKeeps == IInv /\ Return => IInv'
<1> SUFFICES ASSUME IInv, Return PROVE IInv'
  OBVIOUS
<1> USE BoundsAssumption DEF Return, server, IInv
<1>2. ASSUME connectionState = "IDLE" PROVE Last(received) = call
  <2>1. received \in Seq({call}) /\ Len(received) = AnswerLen
    BY <1>2 DEF TalkInv, ConnInv
  <2>2. received # <<>>
    BY <2>1 DEF AnswerLen
  <2>3. QED
    BY <2>1, <2>2, LastPiece
<1>3. PICK r : result' = Append(result, r) /\ r \in {<<>>, <<call>>}
  BY <1>2
<1>4. /\ call \in Calls /\ Len(result') = call
      /\ result' \in Seq({<<>>} \cup {<<n>> : n \in Calls})
      /\ AnswersItsOwnCall'
  BY <1>3, ResultKeeps
<1>1. TypeOK'
  <2>1. {eof, monitored, executing, endTime, running}' \subseteq BOOLEAN
    BY Zenon DEF TypeOK
  <2>2. QED
    BY <1>4, <2>1 DEF TypeOK, Pieces
<1>5. CountInv'
  BY <1>4 DEF CountInv, TypeOK
<1>6. ConnInv'
  BY DEF ConnInv, Quiet
<1>7. TalkInv'
  BY DEF TalkInv, Asked, Answered, Quiet
<1>8. QED
  BY <1>1, <1>4, <1>5, <1>6, <1>7

\* What the server had read and had to write is lost.
LEMMA CrashKeeps == IInv /\ Crash => IInv'
<1> SUFFICES ASSUME IInv, Crash PROVE IInv'
  OBVIOUS
<1> USE BoundsAssumption DEF Crash, client, IInv
<1>1. TypeOK'
  <2>1. ended' \in [Conns -> {"no", "fin", "rst"}]
    BY DEF TypeOK
  <2>2. excused' \subseteq Calls
    <3>1. executing => call \in Calls
      BY DEF TypeOK, CountInv, Calls
    <3>2. QED
      BY <3>1 DEF TypeOK, Excuse
  <2>3. /\ toServer' \in [Conns -> Pieces] /\ request' \in [Conns -> Pieces]
        /\ response' \in [Conns -> Pieces]
    BY DEF Pieces
  <2>4. {eof, monitored, executing, endTime, running}' \subseteq BOOLEAN
    BY Zenon DEF TypeOK
  <2>5. {backlog, sources}' \subseteq Seq(Conns) /\ ready' \subseteq Conns \cup {Listening}
    OBVIOUS
  <2>6. QED
    BY <2>1, <2>2, <2>3, <2>4, <2>5 DEF TypeOK, Pieces
<1>2. CountInv'
  BY DEF CountInv
<1>3. ConnInv'
  BY DEF ConnInv, Quiet
<1>4. TalkInv'
  <2> SUFFICES ASSUME fd # 0 PROVE TalkInv'
    BY DEF TalkInv
  <2>1. fd \in Conns
    BY DEF TypeOK
  <2>2. toServer'[fd] = <<>> /\ request'[fd] = <<>> /\ response'[fd] = <<>>
    BY <2>1
  <2>3. Asked' \/ Answered'
    BY <2>1, <2>2 DEF TalkInv, Asked, Answered, TypeOK, AnswerLen, Pieces
  <2>4. QED
    BY <2>1, <2>2, <2>3 DEF TalkInv, Quiet
<1>5. AnswersItsOwnCall'
  BY DEF AnswersItsOwnCall
<1>6. QED
  BY <1>1, <1>2, <1>3, <1>4, <1>5

\* A new connection is unused, and the list of those to be accepted stays one.
LEMMA ConnectedKeeps ==
    ASSUME TypeOK, ConnInv, opened < 2 * MaxCalls, Connected, received' = received,
           UNCHANGED <<server, toServer, toClient>>
    PROVE  /\ fd' \in Conns /\ opened' \in 0..(2 * MaxCalls)
           /\ backlog' \in Seq(Conns) /\ ended' \in [Conns -> {"no", "fin", "rst"}]
           /\ ConnInv' /\ TalkInv' /\ Quiet(fd)'
<1> USE BoundsAssumption DEF Connected, Prepared, server
<1>1. /\ opened \in Nat /\ opened' = opened + 1 /\ fd' = opened + 1
      /\ opened' \in Conns /\ fd' > opened
  BY DEF TypeOK, Conns
<1>2. backlog' \in Seq(1..opened')
  <2>1. backlog \in Seq(1..opened')
    BY <1>1, SeqMonotonic, 1..opened \subseteq 1..opened' DEF ConnInv
  <2>2. fd' \in 1..opened'
    BY <1>1
  <2>3. CASE running
    <3>1. backlog' = Append(backlog, fd')
      BY <2>3
    <3>2. \A x \in 1..opened' : Append(backlog, x) \in Seq(1..opened')
      BY <2>1, AppendProperties
    <3>3. QED
      BY <2>2, <3>1, <3>2, Zenon
  <2>4. CASE ~running
    BY <2>1, <2>4
  <2>5. QED
    BY <2>3, <2>4
<1>3. backlog' \in Seq(Conns)
  BY <1>1, <1>2, SeqMonotonic, 1..opened' \subseteq Conns DEF Conns
<1>4. ended' \in [Conns -> {"no", "fin", "rst"}]
  BY <1>1 DEF TypeOK
<1>5. Quiet(fd)'
  BY <1>1 DEF ConnInv, Quiet
<1>6. ConnInv'
  <2>1. sources' \in Seq(1..opened')
    BY <1>1, SeqMonotonic, 1..opened \subseteq 1..opened' DEF ConnInv
  <2>2. \A c \in Conns : c > opened' => Quiet(c)'
    BY <1>1 DEF ConnInv, Quiet, Conns
  <2>3. Listening \in ready' => backlog' # <<>>
    <3>1. CASE running
      <4>1. backlog' = Append(backlog, fd')
        BY <3>1
      <4>2. \A x \in Conns : Append(backlog, x) # <<>>
        <5>1. backlog \in Seq(Conns)
          BY DEF TypeOK
        <5>2. QED
          BY <5>1, AppendProperties
      <4>3. QED
        BY <1>1, <4>1, <4>2, Zenon
    <3>2. CASE ~running
      BY <3>2 DEF ConnInv
    <3>3. QED
      BY <3>1, <3>2
  <2>4. fd' # 0 /\ connectionState' # "NO_CONNECTION"
    BY <1>1
  <2>5. QED
    BY <1>1, <1>2, <2>1, <2>2, <2>3, <2>4 DEF ConnInv
<1>7. TalkInv'
  BY <1>1, <1>5 DEF TalkInv, Asked, Quiet, RequestLen, TypeOK
<1>8. QED
  BY <1>1, <1>3, <1>4, <1>5, <1>6, <1>7 DEF Conns

\* Without a connection there is nothing to keep.
LEMMA NotConnectedKeeps ==
    ASSUME TypeOK, ConnInv, NotConnected, UNCHANGED <<server, toServer, toClient>>
    PROVE  ConnInv' /\ TalkInv'
BY DEF NotConnected, server, TypeOK, ConnInv, TalkInv, Quiet

\* A connection is kept for a call only when nothing of it is left on its way.
LEMMA ExecuteKeeps == IInv /\ Execute => IInv'
<1> SUFFICES ASSUME IInv, Execute PROVE IInv'
  OBVIOUS
<1> USE BoundsAssumption DEF IInv, Execute
<1>1. /\ call \in Nat /\ call' = call + 1 /\ call' \in Calls /\ opened \in Nat
      /\ opened <= 2 * call /\ opened < 2 * MaxCalls /\ executing' /\ sendAttempts' = 0
  BY DEF TypeOK, CountInv, Calls
<1>2. excused' \subseteq Calls
  BY <1>1 DEF TypeOK
<1>3. {eof, executing, endTime, running}' \subseteq BOOLEAN
  BY Zenon DEF TypeOK, server
<1>4. AnswersItsOwnCall'
  BY DEF AnswersItsOwnCall
<1>5. CASE (MustClose \/ connectionState = "NO_CONNECTION") /\ Connected
  <2>1. /\ fd' \in Conns /\ opened' \in 0..(2 * MaxCalls)
        /\ backlog' \in Seq(Conns) /\ ended' \in [Conns -> {"no", "fin", "rst"}]
        /\ ConnInv' /\ TalkInv'
    BY <1>1, <1>5, ConnectedKeeps
  <2>2. /\ connectionState' = "WRITE_REQUEST" /\ bytesWritten' = 0
        /\ {eof, monitored, executing, endTime, running}' \subseteq BOOLEAN
    BY <1>3, <1>5, Zenon DEF Connected, Prepared
  <2>3. TypeOK'
    BY <1>1, <1>2, <2>1, <2>2, SMTT(30) DEF TypeOK, Pieces, server, RequestLen, Calls
  <2>4. CountInv'
    BY <1>1, <1>5 DEF CountInv, Connected
  <2>5. QED
    BY <1>4, <2>1, <2>3, <2>4
<1>6. CASE (MustClose \/ connectionState = "NO_CONNECTION") /\ NotConnected
  <2>1. ConnInv' /\ TalkInv'
    BY <1>6, NotConnectedKeeps
  <2>2. TypeOK'
    <3>1. {eof, monitored, executing, endTime, running}' \subseteq BOOLEAN
      BY <1>3, <1>6, Zenon DEF NotConnected
    <3>2. QED
      BY <1>1, <1>2, <1>6, <3>1 DEF TypeOK, Pieces, server, Calls, NotConnected
  <2>3. CountInv'
    BY <1>1, <1>6 DEF CountInv, NotConnected
  <2>4. QED
    BY <1>4, <2>1, <2>2, <2>3
<1>7. CASE ~(MustClose \/ connectionState = "NO_CONNECTION")
  <2>1. Prepared /\ UNCHANGED <<fd, opened, backlog, ended, excused>>
    BY <1>7
  <2>2. connectionState = "IDLE" /\ fd # 0 /\ Quiet(fd)
    BY <1>7 DEF MustClose, ConnInv, TalkInv
  <2>3. TypeOK'
    BY <1>1, <1>3, <2>1 DEF TypeOK, Pieces, server, RequestLen, Calls, Prepared
  <2>4. CountInv'
    BY <1>1, <2>1 DEF CountInv, Prepared
  <2>5. ConnInv'
    BY <2>1, <2>2 DEF ConnInv, Quiet, server, Prepared
  <2>6. TalkInv'
    BY <2>1, <2>2 DEF TalkInv, Quiet, server, Prepared, Asked, RequestLen
  <2>7. QED
    BY <1>4, <2>3, <2>4, <2>5, <2>6
<1>8. QED
  BY <1>5, <1>6, <1>7

\* The retry is on a new connection, the second of the call.
LEMMA RetryKeeps == IInv /\ Retry => IInv'
<1> SUFFICES ASSUME IInv, Retry PROVE IInv'
  OBVIOUS
<1> USE BoundsAssumption DEF IInv, Retry
<1>1. /\ executing /\ sendAttempts = 0 /\ sendAttempts' = 1
      /\ call \in Calls /\ opened \in Nat /\ opened < 2 * call /\ opened < 2 * MaxCalls
  BY DEF Reading, Working, MayRetry, TypeOK, CountInv, Calls
<1>2. excused' \subseteq Calls
  BY <1>1 DEF TypeOK, Excuse
<1>3. {eof, executing, endTime, running}' \subseteq BOOLEAN
  BY Zenon DEF TypeOK, server
<1>4. AnswersItsOwnCall'
  BY DEF AnswersItsOwnCall
<1>5. CASE Connected
  <2>1. /\ fd' \in Conns /\ opened' \in 0..(2 * MaxCalls)
        /\ backlog' \in Seq(Conns) /\ ended' \in [Conns -> {"no", "fin", "rst"}]
        /\ ConnInv' /\ TalkInv'
    BY <1>1, <1>5, ConnectedKeeps
  <2>2. /\ connectionState' = "WRITE_REQUEST" /\ bytesWritten' = 0
        /\ {eof, monitored, executing, endTime, running}' \subseteq BOOLEAN
    BY <1>3, <1>5, Zenon DEF Connected, Prepared
  <2>3. TypeOK'
    <3>1. /\ toServer' \in [Conns -> Pieces] /\ toClient' \in [Conns -> Pieces]
          /\ request' \in [Conns -> Pieces] /\ response' \in [Conns -> Pieces]
          /\ executed' \in Seq([call : Calls, life : 0..MaxCrashes])
          /\ {backlog, sources}' \subseteq Seq(Conns) /\ ready' \subseteq Conns \cup {Listening}
      BY <2>1 DEF TypeOK, server
    <3>2. /\ received' \in Pieces /\ Len(received') <= AnswerLen /\ call' \in 0..MaxCalls
          /\ result' \in Seq({<<>>} \cup {<<n>> : n \in Calls}) /\ crashes' \in 0..MaxCrashes
      BY DEF TypeOK, server
    <3>3. QED
      BY <1>1, <1>2, <2>1, <2>2, <3>1, <3>2 DEF TypeOK, RequestLen
  <2>4. CountInv'
    BY <1>1, <1>5 DEF CountInv, Connected, Calls
  <2>5. QED
    BY <1>4, <2>1, <2>3, <2>4
<1>6. CASE NotConnected
  <2>1. ConnInv' /\ TalkInv'
    BY <1>6, NotConnectedKeeps
  <2>2. TypeOK'
    <3>1. {eof, monitored, executing, endTime, running}' \subseteq BOOLEAN
      BY <1>3, <1>6, Zenon DEF NotConnected
    <3>2. QED
      BY <1>1, <1>2, <1>6, <3>1 DEF TypeOK, Pieces, server, Calls, NotConnected
  <2>3. CountInv'
    BY <1>1, <1>6 DEF CountInv, NotConnected
  <2>4. QED
    BY <1>4, <2>1, <2>2, <2>3
<1>7. QED
  BY <1>5, <1>6

\* The pieces written are those of the call, and no more than the request.
LEMMA WriteRequestKeeps ==
    ASSUME IInv, NEW n \in 1..RequestLen, WriteRequest(n)
    PROVE  IInv'
<1> USE BoundsAssumption DEF IInv
<1>1. /\ executing /\ monitored /\ connectionState = "WRITE_REQUEST"
      /\ fd # 0 /\ fd \in Conns /\ call \in Calls /\ executing' /\ monitored' = monitored
      /\ bytesWritten \in Nat /\ n \in Nat
  BY DEF WriteRequest, Working, TypeOK, ConnInv, CountInv, Calls, RequestLen
<1>2. /\ bytesWritten' = bytesWritten + n /\ bytesWritten' <= RequestLen
      /\ received' = received \/ received' = <<>>
      /\ (connectionState' = "READ_HEADER" /\ bytesWritten' = RequestLen /\ received' = <<>>)
         \/ (connectionState' = "WRITE_REQUEST" /\ bytesWritten' < RequestLen)
  BY <1>1 DEF WriteRequest, Cleared, RequestLen
<1>3. /\ UNCHANGED <<eof, sendAttempts, fd, monitored, executing, endTime, call, result, running,
                     sources, ready, request, response, executed, crashes, opened, toClient, backlog>>
      /\ toServer' = [toServer EXCEPT ![fd] = @ \o [k \in 1..n |-> call]]
  BY DEF WriteRequest, server
<1>4. /\ toServer[fd] \in Seq({call}) /\ request[fd] \in Seq({call})
      /\ response[fd] = <<>> /\ toClient[fd] = <<>>
      /\ Len(toServer[fd]) + Len(request[fd]) <= bytesWritten
      /\ Len(toServer[fd]) \in Nat /\ Len(request[fd]) \in Nat
  <2>1. Asked
    BY <1>1 DEF TalkInv, Answered
  <2>2. toServer[fd] \in Seq({call}) /\ request[fd] \in Seq({call})
    BY <1>1 DEF TalkInv
  <2>3. QED
    BY <2>1, <2>2, LenProperties DEF Asked
<1>5. /\ toServer'[fd] \in Seq({call}) /\ Len(toServer'[fd]) = Len(toServer[fd]) + n
      /\ \A c \in Conns \ {fd} : toServer'[c] = toServer[c]
  <2>1. [k \in 1..n |-> call] \in Seq({call}) /\ Len([k \in 1..n |-> call]) = n
    BY <1>1, Copies
  <2>2. toServer'[fd] = toServer[fd] \o [k \in 1..n |-> call]
    BY <1>1, <1>3 DEF TypeOK
  <2>3. \A c \in Conns \ {fd} : toServer'[c] = toServer[c]
    BY <1>3 DEF TypeOK
  <2> HIDE DEF IInv
  <2>4. QED
    BY <1>4, <2>1, <2>2, <2>3, ConcatProperties
<1>6. TypeOK'
  <2>1. toServer' \in [Conns -> Pieces]
    <3>1. toServer'[fd] \in Pieces
      BY <1>1, <1>5, SeqMonotonic, {call} \subseteq Calls DEF Pieces
    <3>2. toServer' = [toServer EXCEPT ![fd] = toServer'[fd]]
      BY <1>1, <1>3 DEF TypeOK
    <3>3. QED
      BY <3>1, <3>2 DEF TypeOK
  <2>2. ended' \in [Conns -> {"no", "fin", "rst"}]
    BY DEF WriteRequest, TypeOK
  <2>3. excused' \subseteq Calls /\ halved' \subseteq Calls
    BY <1>1 DEF WriteRequest, TypeOK
  <2>4. /\ received' \in Pieces /\ Len(received') <= AnswerLen /\ bytesWritten' \in 0..RequestLen
        /\ connectionState' \in {"WRITE_REQUEST", "READ_HEADER"}
    <3>1. received \in Pieces /\ Len(received) <= AnswerLen
      BY DEF TypeOK
    <3>2. <<>> \in Pieces /\ Len(<<>>) <= AnswerLen
      BY DEF Pieces, AnswerLen
    <3>3. received' \in Pieces /\ Len(received') <= AnswerLen
      BY <1>2, <3>1, <3>2
    <3>4. bytesWritten' \in 0..RequestLen
      BY <1>1, <1>2 DEF RequestLen
    <3>5. connectionState' \in {"WRITE_REQUEST", "READ_HEADER"}
      BY <1>2
    <3>6. QED
      BY <3>3, <3>4, <3>5
  <2>5. {eof, monitored, executing, endTime, running}' \subseteq BOOLEAN
    BY <1>3, Zenon DEF TypeOK
  <2>6. QED
    BY <1>3, <2>1, <2>2, <2>3, <2>4, <2>5 DEF TypeOK
<1>7. CountInv'
  BY <1>3 DEF CountInv
<1>8. ConnInv'
  <2>1. \A c \in Conns : c > opened => Quiet(c)'
    <3>1. fd <= opened
      BY <1>1 DEF ConnInv, TypeOK
    <3>2. QED
      BY <3>1, <1>1, <1>3, <1>5 DEF ConnInv, Quiet, TypeOK, Conns
  <2>2. QED
    BY <1>1, <1>2, <1>3, <2>1 DEF ConnInv
<1>9. TalkInv'
  <2>1. /\ fd' = fd /\ call' = call /\ request' = request /\ response' = response
        /\ toClient' = toClient
    BY <1>3
  <2>2. Len(toServer'[fd]) + Len(request[fd]) <= bytesWritten'
    <3> DEFINE t == Len(toServer[fd])
               q == Len(request[fd])
    <3>1. t \in Nat /\ q \in Nat /\ t + q <= bytesWritten /\ Len(toServer'[fd]) = t + n
      BY <1>4, <1>5
    <3> HIDE DEF t, q
    <3>2. t + n + q <= bytesWritten'
      BY <1>1, <1>2, <3>1
    <3>3. QED
      BY <3>1, <3>2 DEF q
  <2>3. connectionState' # "WRITE_REQUEST" => received' = <<>>
    BY <1>2
  <2>4. Asked'
    BY <1>4, <2>1, <2>2, <2>3 DEF Asked
  <2>5. connectionState' # "WRITE_REQUEST" => received' \in Seq({call})
    BY <2>3
  <2>6. (connectionState' = "WRITE_REQUEST") = (bytesWritten' < RequestLen)
    BY <1>2 DEF RequestLen
  <2>7. connectionState' # "IDLE"
    BY <1>2
  <2>8. response[fd] \in Seq({call}) /\ toClient[fd] \in Seq({call})
    BY <1>4
  <2>9. QED
    BY <1>4, <1>5, <2>1, <2>4, <2>5, <2>6, <2>7, <2>8 DEF TalkInv
<1>10. AnswersItsOwnCall'
  BY <1>3 DEF AnswersItsOwnCall
<1>11. QED
  BY <1>6, <1>7, <1>8, <1>9, <1>10

\* The pieces read come off the connection; a whole answer leaves nothing on it.
LEMMA ReadAnswerKeeps == IInv /\ ReadAnswer => IInv'
<1> SUFFICES ASSUME IInv, ReadAnswer PROVE IInv'
  OBVIOUS
<1> USE BoundsAssumption DEF IInv
<1>1. /\ executing /\ monitored /\ connectionState \in {"READ_HEADER", "READ_RESPONSE"}
      /\ fd # 0 /\ fd \in Conns
  BY DEF ReadAnswer, Reading, Working, TypeOK, ConnInv
<1>2. /\ UNCHANGED <<sendAttempts, bytesWritten, fd, executing, endTime, call, result, running,
                     sources, ready, request, response, executed, crashes, excused, halved, opened,
                     toServer, ended, backlog>>
      /\ received' = Got /\ toClient' = [toClient EXCEPT ![fd] = <<>>]
      /\ connectionState' \in {"IDLE", "READ_RESPONSE", "READ_HEADER"}
      /\ connectionState' = "IDLE" => Len(Got) = AnswerLen
  BY DEF ReadAnswer, server
<1>3. /\ received \in Seq({call}) /\ toClient[fd] \in Seq({call})
      /\ response[fd] \in Seq({call}) /\ bytesWritten = RequestLen
  BY <1>1 DEF TalkInv, TypeOK, RequestLen
<1>4. Got \in Seq({call}) /\ Len(Got) = Len(received) + Len(toClient[fd])
  BY <1>3, ConcatProperties DEF Got
<1>5. Len(received) + Len(toClient[fd]) + Len(response[fd]) <= AnswerLen
  <2>1. CASE Asked
    <3>1. received = <<>> /\ toClient[fd] = <<>> /\ response[fd] = <<>>
      BY <1>1, <2>1 DEF Asked
    <3>2. Len(<<>>) + Len(<<>>) + Len(<<>>) <= AnswerLen
      BY DEF AnswerLen
    <3>3. QED
      BY <3>1, <3>2, Zenon
  <2>2. QED
    BY <1>1, <2>1 DEF TalkInv, Answered
<1>13. /\ Len(Got) + Len(<<>>) + Len(response[fd]) <= AnswerLen
       /\ Len(Got) <= AnswerLen
       /\ Len(Got) = AnswerLen => response[fd] = <<>>
  <2>1. AnswerLen \in Nat
    BY DEF AnswerLen
  <2>2. \A c, p \in Seq({call}) :
          Len(received) + Len(c) + Len(p) <= AnswerLen =>
             /\ Len(received \o c) + Len(<<>>) + Len(p) <= AnswerLen
             /\ Len(received \o c) <= AnswerLen
             /\ Len(received \o c) = AnswerLen => p = <<>>
    BY <1>3, <2>1, Lengths
  <2>3. toClient[fd] \in Seq({call}) /\ response[fd] \in Seq({call})
    BY <1>3
  <2>4. QED
    BY <1>5, <2>2, <2>3, Zenon DEF Got
<1>6. toClient'[fd] = <<>> /\ \A c \in Conns \ {fd} : toClient'[c] = toClient[c]
  BY <1>1, <1>2 DEF TypeOK
<1>7. TypeOK'
  <2>1. received' \in Pieces /\ Len(received') <= AnswerLen
    <3>1. call \in Calls
      BY <1>1 DEF TypeOK, CountInv, Calls
    <3>2. received' \in Pieces
      BY <1>2, <1>4, <3>1, SeqMonotonic, {call} \subseteq Calls DEF Pieces
    <3>3. QED
      BY <1>2, <1>13, <3>2
  <2>2. toClient' \in [Conns -> Pieces]
    <3>1. <<>> \in Pieces /\ toClient \in [Conns -> Pieces]
      BY DEF TypeOK, Pieces
    <3>2. QED
      BY <1>2, <3>1
  <2>3. {eof, monitored, executing, endTime, running}' \subseteq BOOLEAN
    <3>1. eof' \in BOOLEAN /\ monitored' \in BOOLEAN
      BY Zenon DEF ReadAnswer, KeepsReading
    <3>2. QED
      BY <1>2, <3>1, Zenon DEF TypeOK
  <2>4. QED
    BY <1>2, <2>1, <2>2, <2>3 DEF TypeOK
<1>8. CountInv'
  BY <1>1, <1>2 DEF CountInv
<1>9. ConnInv'
  BY <1>1, <1>2, <1>6 DEF ConnInv, Quiet
<1>10. TalkInv'
  <2>1. ASSUME connectionState' = "IDLE" PROVE Quiet(fd)' /\ Len(received') = AnswerLen
    <3>1. Len(Got) = AnswerLen /\ response[fd] = <<>>
      BY <1>2, <1>13, <2>1
    <3>3. ~Asked
      <4>1. Asked => Len(received) + Len(toClient[fd]) = 0
        BY <1>1, <1>3 DEF Asked
      <4>2. QED
        BY <1>4, <3>1, <4>1 DEF AnswerLen
    <3>4. Answered
      BY <1>1, <3>3 DEF TalkInv
    <3>5. QED
      BY <1>2, <1>6, <3>1, <3>4 DEF Answered, Quiet
  <2>2. CASE Asked
    <3>1. Got = <<>>
      BY <1>1, <1>3, <1>4, <2>2 DEF Asked
    <3>2. Asked'
      BY <1>1, <1>2, <1>6, <2>2, <3>1 DEF Asked
    <3>3. QED
      BY <1>2, <1>3, <1>4, <1>6, <2>1, <3>2 DEF TalkInv, RequestLen
  <2>3. CASE Answered
    <3>1. Len(received') + Len(toClient'[fd]) + Len(response[fd]) <= AnswerLen
      BY <1>2, <1>6, <1>13
    <3>2. Answered'
      BY <1>2, <2>3, <3>1 DEF Answered
    <3>3. QED
      BY <1>1, <1>2, <1>3, <1>4, <1>6, <2>1, <3>2 DEF TalkInv, RequestLen
  <2>4. QED
    BY <1>1, <2>2, <2>3 DEF TalkInv
<1>11. AnswersItsOwnCall'
  BY <1>2 DEF AnswersItsOwnCall
<1>12. QED
  BY <1>7, <1>8, <1>9, <1>10, <1>11

-----------------------------------------------------------------------------
(* The server.                                                             *)

\* A connection moves from one list of the server to the other.
LEMMA AcceptKeeps == IInv /\ Accept => IInv'
<1> SUFFICES ASSUME IInv, Accept PROVE IInv'
  OBVIOUS
<1> USE BoundsAssumption DEF IInv, Accept, client
<1>1. backlog # <<>> /\ backlog \in Seq(1..opened) /\ sources \in Seq(1..opened)
  BY DEF ConnInv
<1>2. Head(backlog) \in 1..opened /\ Tail(backlog) \in Seq(1..opened)
  BY <1>1, HeadTailProperties
<1>3. sources' \in Seq(1..opened) /\ backlog' \in Seq(1..opened)
  BY <1>1, <1>2, AppendProperties
<1>4. TypeOK'
  <2>1. 1..opened \subseteq Conns
    BY DEF TypeOK, Conns
  <2>2. {backlog, sources}' \subseteq Seq(Conns)
    BY <1>3, <2>1, SeqMonotonic
  <2>3. QED
    BY <2>2 DEF TypeOK, Pieces
<1>5. CountInv'
  BY DEF CountInv
<1>6. ConnInv'
  BY <1>3 DEF ConnInv, Quiet
<1>7. TalkInv' /\ AnswersItsOwnCall'
  BY DEF TalkInv, Asked, Answered, Quiet, AnswersItsOwnCall
<1>8. QED
  BY <1>4, <1>5, <1>6, <1>7

\* writeResponse works on one connection, and moves pieces of the answer.
LEMMA WritesOne ==
    ASSUME TypeOK, NEW c \in Conns, NEW S \in SUBSET Calls, NEW req \in Seq(S), NEW ans \in Seq(S),
           NEW n \in Nat, Writes(c, req, ans, n)
    PROVE  /\ request' \in [Conns -> Pieces] /\ response' \in [Conns -> Pieces]
           /\ toClient' \in [Conns -> Pieces]
           /\ \A d \in Conns \ {c} : /\ request'[d] = request[d] /\ response'[d] = response[d]
                                     /\ toClient'[d] = toClient[d]
           /\ n \in 0..Len(ans)
           /\ response'[c] = SubSeq(ans, n + 1, Len(ans))
           /\ request'[c] = IF n = Len(ans) THEN <<>> ELSE req
           /\ toClient'[c] = IF c = fd THEN toClient[c] \o SubSeq(ans, 1, n) ELSE toClient[c]
           /\ UNCHANGED <<sources, ended>>
<1>1. n \in 0..Len(ans) /\ Len(ans) \in Nat
  BY DEF Writes
<1>2. /\ SubSeq(ans, 1, n) \in Seq(S) /\ SubSeq(ans, n + 1, Len(ans)) \in Seq(S)
  BY <1>1, Split
<1>3. \A s \in Seq(S) : s \in Pieces
  BY SeqMonotonic DEF Pieces
<1>4. (IF n = Len(ans) THEN <<>> ELSE req) \in Pieces
  BY <1>3 DEF Pieces
<1>5. response' = [response EXCEPT ![c] = SubSeq(ans, n + 1, Len(ans))]
  BY DEF Writes
<1>6. request' = [request EXCEPT ![c] = IF n = Len(ans) THEN <<>> ELSE req]
  BY DEF Writes, AfterAnswer
<1>7. toClient' = [toClient EXCEPT ![c] = IF c = fd THEN toClient[c] \o SubSeq(ans, 1, n)
                                          ELSE toClient[c]]
  <2>1. CASE c = fd
    BY <2>1 DEF Writes, ClosedByClient
  <2>2. CASE c # fd
    <3>1. toClient' = toClient
      BY <2>2 DEF Writes, ClosedByClient
    <3>2. QED
      BY <2>2, <3>1 DEF TypeOK
  <2>3. QED
    BY <2>1, <2>2
<1>8. (IF c = fd THEN toClient[c] \o SubSeq(ans, 1, n) ELSE toClient[c]) \in Pieces
  <2>1. toClient[c] \in Pieces /\ SubSeq(ans, 1, n) \in Pieces
    BY <1>2, <1>3 DEF TypeOK
  <2>2. QED
    BY <2>1, ConcatProperties DEF Pieces
<1>9. /\ request \in [Conns -> Pieces] /\ response \in [Conns -> Pieces]
      /\ toClient \in [Conns -> Pieces]
  BY DEF TypeOK
<1>10. UNCHANGED <<sources, ended>>
  BY DEF Writes
<1>11. SubSeq(ans, n + 1, Len(ans)) \in Pieces
  BY <1>2, <1>3
<1>12. QED
  BY <1>1, <1>4, <1>5, <1>6, <1>7, <1>8, <1>9, <1>10, <1>11

\* What the server holds of a request once it has read all there is.
Req(c) == request[c] \o toServer[c]

(* The four things an event may bring a connection of the server to do.    *)

\* More of an answer is written.
Continues(c, n) ==
    /\ response[c] # <<>> /\ Writes(c, request[c], response[c], n)
    /\ UNCHANGED <<toServer, executed>>

\* The connection of a client that has gone is removed.
Drops(i) ==
    /\ sources[i] # fd /\ Dropped(i) /\ UNCHANGED executed
    /\ toServer' = toServer \/ toServer' = [toServer EXCEPT ![sources[i]] = <<>>]

\* The request is complete.
Executes(c, n) ==
    /\ response[c] = <<>> /\ Len(Req(c)) = RequestLen
    /\ toServer' = [toServer EXCEPT ![c] = <<>>]
    /\ executed' = Append(executed, [call |-> Last(Req(c)), life |-> crashes])
    /\ Writes(c, Req(c), [k \in 1..AnswerLen |-> Last(Req(c))], n)

\* The request is not complete.
Reads(c) ==
    /\ c = fd /\ response[c] = <<>> /\ Len(Req(c)) # RequestLen
    /\ toServer' = [toServer EXCEPT ![c] = <<>>]
    /\ request' = [request EXCEPT ![c] = Req(c)]
    /\ UNCHANGED <<executed, sources, ended, response, toClient>>

\* What an event changes besides.
Handles(i) ==
    /\ ready' = ready \ {sources[i]}
    /\ UNCHANGED <<client, excused, opened, backlog, running, crashes>>

\* handleEvent does one of these.
LEMMA HandleCases ==
    ASSUME NEW i \in DOMAIN sources, NEW n \in 0..AnswerLen, HandleEvent(i, n)
    PROVE  /\ Handles(i)
           /\ \/ Continues(sources[i], n) \/ Drops(i)
              \/ Executes(sources[i], n) \/ Reads(sources[i])
<1> DEFINE c == sources[i]
<1>1. Handles(i)
  BY DEF HandleEvent, Handles
<1>2. CASE response[c] # <<>>
  <2>1. UNCHANGED <<toServer, executed>>
    BY <1>2 DEF HandleEvent
  <2>2. Writes(c, request[c], response[c], n) \/ (c # fd /\ Dropped(i))
    BY <1>2 DEF HandleEvent, ClosedByClient
  <2>3. QED
    BY <1>1, <1>2, <2>1, <2>2 DEF Continues, Drops
<1>3. CASE response[c] = <<>>
  <2>1. toServer' = [toServer EXCEPT ![c] = <<>>]
    BY <1>3 DEF HandleEvent
  <2>2. CASE Len(Req(c)) = RequestLen
    <3>1. /\ executed' = Append(executed, [call |-> Last(Req(c)), life |-> crashes])
          /\ Writes(c, Req(c), [k \in 1..AnswerLen |-> Last(Req(c))], n)
      BY <1>3, <2>2 DEF HandleEvent, Req
    <3>2. QED
      BY <1>1, <1>3, <2>1, <2>2, <3>1 DEF Executes
  <2>3. CASE Len(Req(c)) # RequestLen
    <3>1. /\ UNCHANGED executed
          /\ (c # fd /\ Dropped(i))
             \/ (c = fd /\ request' = [request EXCEPT ![c] = Req(c)]
                        /\ UNCHANGED <<sources, ended, response, toClient>>)
      BY <1>3, <2>3 DEF HandleEvent, Req, ClosedByClient
    <3>2. QED
      BY <1>1, <1>3, <2>1, <2>3, <3>1 DEF Drops, Reads
  <2>4. QED
    BY <2>2, <2>3
<1>4. QED
  BY <1>2, <1>3

\* The request of a connection is a sequence of pieces; its last piece names its call.
LEMMA ReqTyped ==
    ASSUME TypeOK, NEW c \in Conns, NEW S \in SUBSET Calls, request[c] \in Seq(S), toServer[c] \in Seq(S)
    PROVE  /\ Req(c) \in Seq(S) /\ Len(Req(c)) = Len(request[c]) + Len(toServer[c])
           /\ Len(Req(c)) = RequestLen => Last(Req(c)) \in S
<1>1. Req(c) \in Seq(S) /\ Len(Req(c)) = Len(request[c]) + Len(toServer[c])
  BY ConcatProperties DEF Req
<1>2. ASSUME Len(Req(c)) = RequestLen PROVE Last(Req(c)) \in S
  <2>1. Len(Req(c)) \in 1..Len(Req(c))
    BY <1>2 DEF RequestLen
  <2>2. \A m \in 1..Len(Req(c)) : Req(c)[m] \in S
    BY <1>1, ElementOfSeq
  <2>3. QED
    BY <2>1, <2>2 DEF Last
<1>3. QED
  BY <1>1, <1>2

\* The answer that is written for a request.
LEMMA AnswerTyped ==
    ASSUME NEW k
    PROVE  /\ [j \in 1..AnswerLen |-> k] \in Seq({k})
           /\ Len([j \in 1..AnswerLen |-> k]) = AnswerLen
BY Copies DEF AnswerLen

\* What is executed for a connection.
LEMMA ExecutesOne ==
    ASSUME TypeOK, NEW c \in Conns, NEW n \in 0..AnswerLen, Executes(c, n),
           NEW S \in SUBSET Calls, request[c] \in Seq(S), toServer[c] \in Seq(S)
    PROVE  \E k \in S :
             /\ Last(Req(c)) = k
             /\ executed' = Append(executed, [call |-> k, life |-> crashes])
             /\ Writes(c, Req(c), [j \in 1..AnswerLen |-> k], n)
             /\ [j \in 1..AnswerLen |-> k] \in Seq(S)
             /\ Len([j \in 1..AnswerLen |-> k]) = AnswerLen
<1>1. Last(Req(c)) \in S
  BY ReqTyped DEF Executes
<1> DEFINE k == Last(Req(c))
<1>2. [j \in 1..AnswerLen |-> k] \in Seq(S) /\ Len([j \in 1..AnswerLen |-> k]) = AnswerLen
  BY <1>1, AnswerTyped, SeqMonotonic, {k} \subseteq S, ZenonT(30)
<1>3. QED
  BY <1>1, <1>2 DEF Executes

\* What an event does to the types, and that it leaves the other connections alone.
LEMMA HandleFrame ==
    ASSUME TypeOK, ConnInv, NEW i \in DOMAIN sources, NEW n \in 0..AnswerLen, HandleEvent(i, n)
    PROVE  /\ TypeOK' /\ sources' \in Seq(1..opened) /\ sources[i] \in 1..opened
           /\ \A d \in Conns \ {sources[i]} :
                /\ toServer'[d] = toServer[d] /\ request'[d] = request[d]
                /\ response'[d] = response[d] /\ toClient'[d] = toClient[d]
<1> DEFINE c == sources[i]
           Frame == \A d \in Conns \ {c} :
                      /\ toServer'[d] = toServer[d] /\ request'[d] = request[d]
                      /\ response'[d] = response[d] /\ toClient'[d] = toClient[d]
           Kept == /\ toServer' \in [Conns -> Pieces] /\ toClient' \in [Conns -> Pieces]
                   /\ request' \in [Conns -> Pieces] /\ response' \in [Conns -> Pieces]
                   /\ ended' \in [Conns -> {"no", "fin", "rst"}]
                   /\ sources' \in Seq(1..opened)
                   /\ executed' \in Seq([call : Calls, life : 0..MaxCrashes])
<1>1. c \in 1..opened /\ 1..opened \subseteq Conns /\ sources \in Seq(1..opened)
  <2>1. opened \in 0..(2 * MaxCalls) /\ 2 * MaxCalls \in Nat
    BY BoundsAssumption DEF TypeOK
  <2>2. sources \in Seq(1..opened) /\ i \in 1..Len(sources)
    BY DEF ConnInv
  <2>3. sources[i] \in 1..opened
    BY <2>2, ElementOfSeq
  <2>4. QED
    BY <2>1, <2>2, <2>3 DEF Conns
<1>2. /\ toServer \in [Conns -> Pieces] /\ toClient \in [Conns -> Pieces]
      /\ request \in [Conns -> Pieces] /\ response \in [Conns -> Pieces]
      /\ ended \in [Conns -> {"no", "fin", "rst"}] /\ <<>> \in Pieces
      /\ executed \in Seq([call : Calls, life : 0..MaxCrashes]) /\ crashes \in 0..MaxCrashes
  <2>1. <<>> \in Pieces
    BY DEF Pieces
  <2>2. QED
    BY <2>1 DEF TypeOK
<1>8. n \in Nat /\ Calls \in SUBSET Calls
  BY DEF AnswerLen
<1>3. c \in Conns /\ request[c] \in Pieces /\ toServer[c] \in Pieces /\ response[c] \in Pieces
  BY <1>1, <1>2
<1>4. Handles(i)
  BY HandleCases
<1>5. Kept /\ Frame
  <2>1. CASE Continues(c, n)
    <3>1. Writes(c, request[c], response[c], n) /\ UNCHANGED <<toServer, executed>>
      BY <2>1 DEF Continues
    <3>2. /\ request' \in [Conns -> Pieces] /\ response' \in [Conns -> Pieces]
          /\ toClient' \in [Conns -> Pieces] /\ UNCHANGED <<sources, ended>>
          /\ \A d \in Conns \ {c} : /\ request'[d] = request[d] /\ response'[d] = response[d]
                                    /\ toClient'[d] = toClient[d]
      BY <1>3, <1>8, <3>1, WritesOne DEF Pieces
    <3>3. QED
      BY <1>1, <1>2, <3>1, <3>2
  <2>2. CASE Drops(i)
    <3>1. sources' \in Seq(1..opened)
      BY <1>1, <2>2, Removed DEF Drops, Dropped
    <3>2. ended' \in [Conns -> {"no", "fin", "rst"}] /\ UNCHANGED <<request, response, toClient, executed>>
      BY <1>2, <2>2 DEF Drops, Dropped
    <3>3. toServer' \in [Conns -> Pieces] /\ \A d \in Conns \ {c} : toServer'[d] = toServer[d]
      BY <1>2, <2>2 DEF Drops
    <3>4. QED
      BY <1>2, <3>1, <3>2, <3>3
  <2>3. CASE Executes(c, n)
    <3>1. PICK k \in Calls :
             /\ executed' = Append(executed, [call |-> k, life |-> crashes])
             /\ Writes(c, Req(c), [j \in 1..AnswerLen |-> k], n)
             /\ [j \in 1..AnswerLen |-> k] \in Seq(Calls)
      BY <1>3, <2>3, ExecutesOne DEF Pieces
    <3>2. Req(c) \in Seq(Calls)
      BY <1>3, ReqTyped DEF Pieces
    <3>3. executed' \in Seq([call : Calls, life : 0..MaxCrashes])
      BY <1>2, <3>1, AppendProperties
    <3>4. toServer' \in [Conns -> Pieces] /\ \A d \in Conns \ {c} : toServer'[d] = toServer[d]
      BY <1>2, <2>3 DEF Executes
    <3>5. /\ request' \in [Conns -> Pieces] /\ response' \in [Conns -> Pieces]
          /\ toClient' \in [Conns -> Pieces] /\ UNCHANGED <<sources, ended>>
          /\ \A d \in Conns \ {c} : /\ request'[d] = request[d] /\ response'[d] = response[d]
                                    /\ toClient'[d] = toClient[d]
      BY <1>3, <1>8, <3>1, <3>2, WritesOne
    <3>6. QED
      BY <1>1, <1>2, <3>3, <3>4, <3>5
  <2>4. CASE Reads(c)
    <3>1. Req(c) \in Pieces
      BY <1>3, ReqTyped DEF Pieces
    <3>2. QED
      BY <1>1, <1>2, <1>3, <2>4, <3>1 DEF Reads
  <2>5. QED
    BY <2>1, <2>2, <2>3, <2>4, HandleCases
<1>6. TypeOK'
  <2>1. {backlog, sources}' \subseteq Seq(Conns)
    <3>1. backlog' \in Seq(Conns)
      BY <1>4 DEF Handles, TypeOK
    <3>2. sources' \in Seq(Conns)
      BY <1>1, <1>5, SeqMonotonic
    <3>3. QED
      BY <3>1, <3>2
  <2>2. ready' \subseteq Conns \cup {Listening}
    BY <1>4 DEF Handles, TypeOK
  <2> HIDE DEF Frame
  <2>3. QED
    BY <1>4, <1>5, <2>1, <2>2 DEF TypeOK, Handles, client
<1>7. QED
  BY <1>1, <1>5, <1>6

\* An answer of which n more pieces are written stays one answer; its request is kept as
\* long as there is something to write.
LEMMA WriteCounts ==
    ASSUME NEW k, NEW q \in Seq({k}), NEW r \in Seq({k}), NEW a \in Seq({k}), NEW rec \in Seq({k}),
           NEW m \in Nat, Len(rec) + Len(a) + Len(r) <= m, NEW n \in 0..Len(r)
    PROVE  /\ SubSeq(r, n + 1, Len(r)) \in Seq({k})
           /\ a \o SubSeq(r, 1, n) \in Seq({k})
           /\ (IF n = Len(r) THEN <<>> ELSE q) \in Seq({k})
           /\ SubSeq(r, n + 1, Len(r)) = <<>> => n = Len(r)
           /\ Len(rec) + Len(a \o SubSeq(r, 1, n)) + Len(SubSeq(r, n + 1, Len(r))) <= m
<1> DEFINE r0 == SubSeq(r, 1, n)
           r1 == SubSeq(r, n + 1, Len(r))
           a1 == a \o r0
           lr == Len(r)
           la == Len(a)
           lrec == Len(rec)
<1>1. /\ r0 \in Seq({k}) /\ Len(r0) = n
      /\ r1 \in Seq({k}) /\ Len(r1) = lr - n
  BY Split
<1>2. lr \in Nat /\ la \in Nat /\ lrec \in Nat /\ n \in 0..lr /\ lrec + la + lr <= m
  OBVIOUS
<1>3. a1 \in Seq({k}) /\ Len(a1) = la + n
  <2> HIDE DEF r0
  <2>1. QED
    BY <1>1, ConcatProperties
<1>4. (IF n = lr THEN <<>> ELSE q) \in Seq({k})
  OBVIOUS
<1> HIDE DEF r0, r1, a1, lr, la, lrec
<1>5. r1 = <<>> => n = lr
  <2>1. Len(<<>>) = 0
    OBVIOUS
  <2>2. Len(r1) = 0 => n = lr
    BY <1>1, <1>2
  <2>3. QED
    BY <2>1, <2>2
<1>6. lrec + Len(a1) + Len(r1) <= m
  <2>1. lrec + (la + n) + (lr - n) <= m
    BY <1>2
  <2>2. QED
    BY <1>1, <1>3, <2>1, Zenon
<1>7. QED
  BY <1>1, <1>3, <1>4, <1>5, <1>6, Zenon DEF r0, r1, a1, lr, la, lrec

\* A request that is read is as long as what was kept of it and what arrived; a whole one
\* has been written as a whole.
LEMMA ReadCounts ==
    ASSUME NEW k, NEW q \in Seq({k}), NEW t \in Seq({k}), NEW b \in 0..RequestLen,
           Len(t) + Len(q) <= b
    PROVE  /\ q \o t \in Seq({k})
           /\ Len(<<>>) + Len(q \o t) <= b
           /\ Len(q \o t) = RequestLen => ~(b < RequestLen)
<1>1. q \o t \in Seq({k}) /\ Len(q \o t) = Len(q) + Len(t) /\ Len(<<>>) = 0
  BY ConcatProperties
<1>2. Len(q) \in Nat /\ Len(t) \in Nat /\ b \in Nat /\ RequestLen \in Nat
  BY DEF RequestLen
<1>3. QED
  BY <1>1, <1>2

\* writeResponse on the client's connection.
LEMMA WritesBack ==
    ASSUME TypeOK, fd \in Conns, call \in Calls, NEW req \in Seq({call}), NEW ans \in Seq({call}),
           NEW n \in Nat, Writes(fd, req, ans, n)
    PROVE  /\ n \in 0..Len(ans)
           /\ response'[fd] = SubSeq(ans, n + 1, Len(ans))
           /\ request'[fd] = IF n = Len(ans) THEN <<>> ELSE req
           /\ toClient'[fd] = toClient[fd] \o SubSeq(ans, 1, n)
<1>1. /\ request \in [Conns -> Pieces] /\ response \in [Conns -> Pieces]
      /\ toClient \in [Conns -> Pieces]
  BY DEF TypeOK
<1>2. n \in 0..Len(ans)
  BY DEF Writes
<1>3. response' = [response EXCEPT ![fd] = SubSeq(ans, n + 1, Len(ans))]
  BY DEF Writes
<1>4. request' = [request EXCEPT ![fd] = IF n = Len(ans) THEN <<>> ELSE req]
  BY DEF Writes, AfterAnswer
<1>5. toClient' = [toClient EXCEPT ![fd] = toClient[fd] \o SubSeq(ans, 1, n)]
  BY DEF Writes, ClosedByClient
<1>6. QED
  BY <1>1, <1>2, <1>3, <1>4, <1>5

\* The pieces on the client's connection are still those of one request and one answer.
LEMMA HandleTalks ==
    ASSUME IInv, NEW i \in DOMAIN sources, NEW n \in 0..AnswerLen, HandleEvent(i, n),
           sources[i] = fd
    PROVE  TalkInv'
<1> DEFINE t == toServer[fd]
           q == request[fd]
           r == response[fd]
           a == toClient[fd]
           t1 == toServer'[fd]
           q1 == request'[fd]
           r1 == response'[fd]
           a1 == toClient'[fd]
           One == Seq({call})
<1>1. fd \in Conns /\ fd # 0 /\ fd \in 1..opened
  <2>1. sources[i] \in 1..opened
    BY HandleFrame DEF IInv
  <2>2. QED
    BY <2>1 DEF IInv, TypeOK, Conns
<1>2. call \in Calls /\ {call} \in SUBSET Calls /\ n \in Nat
  BY <1>1 DEF IInv, TypeOK, CountInv, Calls, AnswerLen
<1>3. UNCHANGED <<connectionState, bytesWritten, fd, received, call>>
  BY HandleCases DEF Handles, client
<1>4. /\ t \in One /\ q \in One /\ r \in One /\ a \in One
      /\ connectionState # "WRITE_REQUEST" => received \in One
      /\ (connectionState = "WRITE_REQUEST") = (bytesWritten < RequestLen)
      /\ bytesWritten \in 0..RequestLen
      /\ connectionState = "IDLE" =>
           /\ t = <<>> /\ q = <<>> /\ r = <<>> /\ a = <<>>
           /\ Len(received) = AnswerLen
  BY <1>1 DEF IInv, TalkInv, Quiet, TypeOK
<1>5. \/ /\ r = <<>> /\ a = <<>>
         /\ connectionState # "WRITE_REQUEST" => received = <<>>
         /\ Len(t) + Len(q) <= bytesWritten
      \/ /\ connectionState # "WRITE_REQUEST" /\ t = <<>> /\ (r = <<>> => q = <<>>)
         /\ Len(received) + Len(a) + Len(r) <= AnswerLen
  BY <1>1 DEF IInv, TalkInv, Asked, Answered
<1>6. ASSUME t1 \in One, q1 \in One, r1 \in One, a1 \in One,
             \/ /\ r1 = <<>> /\ a1 = <<>>
                /\ connectionState # "WRITE_REQUEST" => received = <<>>
                /\ Len(t1) + Len(q1) <= bytesWritten
             \/ /\ connectionState # "WRITE_REQUEST" /\ t1 = <<>> /\ (r1 = <<>> => q1 = <<>>)
                /\ Len(received) + Len(a1) + Len(r1) <= AnswerLen,
             connectionState = "IDLE" => t1 = <<>> /\ q1 = <<>> /\ r1 = <<>> /\ a1 = <<>>
      PROVE  TalkInv'
  <2>1. Asked' = (/\ r1 = <<>> /\ a1 = <<>>
                  /\ connectionState # "WRITE_REQUEST" => received = <<>>
                  /\ Len(t1) + Len(q1) <= bytesWritten)
    BY <1>3, Zenon DEF Asked
  <2>2. Answered' = (/\ connectionState # "WRITE_REQUEST" /\ t1 = <<>> /\ (r1 = <<>> => q1 = <<>>)
                     /\ Len(received) + Len(a1) + Len(r1) <= AnswerLen)
    BY <1>3, Zenon DEF Answered
  <2>3. Quiet(fd)' = (t1 = <<>> /\ q1 = <<>> /\ r1 = <<>> /\ a1 = <<>>)
    BY <1>3, Zenon DEF Quiet
  <2>4. TalkInv' = (/\ t1 \in One /\ q1 \in One /\ r1 \in One /\ a1 \in One
                    /\ Asked' \/ Answered'
                    /\ connectionState # "WRITE_REQUEST" => received \in One
                    /\ (connectionState = "WRITE_REQUEST") = (bytesWritten < RequestLen)
                    /\ connectionState = "IDLE" => Quiet(fd)' /\ Len(received) = AnswerLen)
    BY <1>1, <1>3 DEF TalkInv
  <2> HIDE DEF t1, q1, r1, a1, One, t, q, r, a
  <2>5. QED
    BY <1>4, <1>6, <2>1, <2>2, <2>3, <2>4
<1>13. TypeOK
  BY DEF IInv
<1>7. CASE Reads(fd)
  <2>1. t1 = <<>> /\ q1 = q \o t /\ r1 = r /\ a1 = a /\ r = <<>>
    BY <1>1, <1>7 DEF Reads, Req, IInv, TypeOK
  <2> HIDE DEF t, q, r, a, t1, q1, r1, a1
  <2>2. q \o t \in One /\ (q = <<>> /\ t = <<>> => q \o t = <<>>)
    BY <1>4, ConcatProperties
  <2>3. Len(t) + Len(q) <= bytesWritten => Len(<<>>) + Len(q \o t) <= bytesWritten
    BY <1>4, ReadCounts
  <2>4. <<>> \in One
    OBVIOUS
  <2> HIDE DEF One
  <2>5. QED
    BY <1>4, <1>5, <1>6, <2>1, <2>2, <2>3, <2>4, Zenon
<1>8. ASSUME r1 \in One, a1 \in One, q1 \in One, t1 = <<>>, r1 = <<>> => q1 = <<>>,
             connectionState \notin {"WRITE_REQUEST", "IDLE"},
             Len(received) + Len(a1) + Len(r1) <= AnswerLen
      PROVE  TalkInv'
  <2> HIDE DEF t, q, r, a, t1, q1, r1, a1
  <2>1. t1 \in One
    BY <1>8
  <2>2. QED
    BY <1>6, <1>8, <2>1
<1>9. CASE Continues(fd, n)
  <2>1. /\ Writes(fd, q, r, n) /\ r # <<>> /\ t1 = t
    BY <1>9 DEF Continues
  <2> HIDE DEF q, r
  <2>2. /\ n \in 0..Len(r) /\ r1 = SubSeq(r, n + 1, Len(r))
        /\ q1 = (IF n = Len(r) THEN <<>> ELSE q)
        /\ a1 = a \o SubSeq(r, 1, n)
    <3>1. q \in One /\ r \in One
      BY <1>4
    <3>2. QED
      BY <1>1, <1>2, <1>13, <2>1, <3>1, WritesBack
  <2> HIDE DEF t, q, r, a, t1, q1, r1, a1
  <2>3. /\ connectionState \notin {"WRITE_REQUEST", "IDLE"} /\ t = <<>>
        /\ Len(received) + Len(a) + Len(r) <= AnswerLen
    BY <1>4, <1>5, <2>1, Zenon
  <2>4. /\ r1 \in One /\ a1 \in One /\ q1 \in One /\ (r1 = <<>> => q1 = <<>>)
        /\ Len(received) + Len(a1) + Len(r1) <= AnswerLen
    <3>1. received \in One /\ AnswerLen \in Nat
      BY <1>4, <2>3 DEF AnswerLen
    <3>2. QED
      BY <1>4, <2>2, <2>3, <3>1, WriteCounts, ZenonT(30)
  <2>5. QED
    BY <1>8, <2>1, <2>3, <2>4, Zenon
<1>10. CASE Executes(fd, n)
  <2> DEFINE ans == [j \in 1..AnswerLen |-> call]
             req == Req(fd)
  <2>1. /\ r = <<>> /\ t1 = <<>> /\ Len(req) = RequestLen /\ req = q \o t
    BY <1>1, <1>10 DEF Executes, Req, IInv, TypeOK
  <2>2. req \in One
    BY <1>4, <2>1, ConcatProperties
  <2>3. Writes(fd, req, ans, n) /\ ans \in One /\ Len(ans) = AnswerLen
    <3>1. PICK k \in {call} :
             /\ Writes(fd, Req(fd), [j \in 1..AnswerLen |-> k], n)
             /\ [j \in 1..AnswerLen |-> k] \in One
             /\ Len([j \in 1..AnswerLen |-> k]) = AnswerLen
      BY <1>1, <1>2, <1>4, <1>10, ExecutesOne DEF IInv
    <3>2. k = call
      OBVIOUS
    <3>3. QED
      BY <3>1, <3>2, Zenon
  <2> HIDE DEF ans, req
  <2>4. /\ n \in 0..Len(ans) /\ r1 = SubSeq(ans, n + 1, Len(ans))
        /\ q1 = (IF n = Len(ans) THEN <<>> ELSE req)
        /\ a1 = a \o SubSeq(ans, 1, n)
    BY <1>1, <1>2, <1>13, <2>2, <2>3, WritesBack
  <2> HIDE DEF t, q, r, a, t1, q1, r1, a1
  <2>5. ~(t = <<>> /\ q = <<>>)
    BY <2>1 DEF RequestLen
  <2>6. a = <<>> /\ Len(t) + Len(q) <= bytesWritten
        /\ (connectionState # "WRITE_REQUEST" => received = <<>>)
    BY <1>5, <2>1, <2>5, Zenon
  <2>7. ~(bytesWritten < RequestLen)
    BY <1>4, <2>1, <2>6, ReadCounts
  <2>8. connectionState \notin {"WRITE_REQUEST", "IDLE"} /\ received = <<>>
    BY <1>4, <2>5, <2>6, <2>7, Zenon
  <2>9. /\ r1 \in One /\ a1 \in One /\ q1 \in One /\ (r1 = <<>> => q1 = <<>>)
        /\ Len(received) + Len(a1) + Len(r1) <= AnswerLen
    <3>1. Len(received) + Len(a) + Len(ans) <= AnswerLen /\ AnswerLen \in Nat
      BY <2>3, <2>6, <2>8 DEF AnswerLen
    <3>2. received \in One
      BY <2>8
    <3>3. /\ SubSeq(ans, n + 1, Len(ans)) \in One
          /\ a \o SubSeq(ans, 1, n) \in One
          /\ (IF n = Len(ans) THEN <<>> ELSE req) \in One
          /\ SubSeq(ans, n + 1, Len(ans)) = <<>> => n = Len(ans)
          /\ Len(received) + Len(a \o SubSeq(ans, 1, n)) + Len(SubSeq(ans, n + 1, Len(ans)))
             <= AnswerLen
      <4>1. n \in 0..Len(ans) /\ a \in One /\ ans \in One
        BY <1>4, <2>3, <2>4
      <4>2. QED
        BY <2>2, <3>1, <3>2, <4>1, WriteCounts
    <3>4. QED
      BY <2>4, <3>3, Zenon
  <2>10. QED
    BY <1>8, <2>1, <2>8, <2>9, Zenon
<1>11. ~Drops(i)
  BY DEF Drops
<1>12. QED
  BY <1>7, <1>9, <1>10, <1>11, HandleCases, Zenon

\* An event of a connection moves the pieces of that connection only.
LEMMA HandleKeeps ==
    ASSUME IInv, NEW i \in DOMAIN sources, NEW n \in 0..AnswerLen, HandleEvent(i, n)
    PROVE  IInv'
<1> DEFINE c == sources[i]
<1>1. /\ UNCHANGED <<client, excused, opened, backlog, running, crashes>>
      /\ ready' = ready \ {c}
  BY HandleCases DEF Handles
<1>2. /\ TypeOK' /\ sources' \in Seq(1..opened) /\ c \in 1..opened
      /\ \A d \in Conns \ {c} :
           /\ toServer'[d] = toServer[d] /\ request'[d] = request[d]
           /\ response'[d] = response[d] /\ toClient'[d] = toClient[d]
  BY HandleFrame DEF IInv
<1>3. CountInv' /\ AnswersItsOwnCall'
  BY <1>1 DEF IInv, CountInv, AnswersItsOwnCall, client
<1>4. ConnInv'
  <2>1. \A d \in Conns : d > opened => Quiet(d)'
    <3>1. opened \in Nat
      BY DEF IInv, TypeOK
    <3>2. \A d \in Conns : d > opened => d # c
      BY <1>2, <3>1 DEF Conns
    <3>3. QED
      BY <1>2, <3>2 DEF IInv, ConnInv, Quiet
  <2>2. QED
    BY <1>1, <1>2, <2>1 DEF IInv, ConnInv, client
<1>5. TalkInv'
  <2>1. CASE c = fd
    BY <2>1, HandleTalks
  <2>2. CASE c # fd
    <3>1. /\ UNCHANGED <<connectionState, bytesWritten, fd, received, call>>
          /\ fd # 0 => /\ toServer'[fd] = toServer[fd] /\ request'[fd] = request[fd]
                       /\ response'[fd] = response[fd] /\ toClient'[fd] = toClient[fd]
      BY <1>1, <1>2, <2>2 DEF client, IInv, TypeOK
    <3>2. QED
      BY <3>1 DEF IInv, TalkInv, Asked, Answered, Quiet
  <2>3. QED
    BY <2>1, <2>2
<1>6. QED
  BY <1>2, <1>3, <1>4, <1>5 DEF IInv

-----------------------------------------------------------------------------
\* Every step of the client, of the server and of neither keeps the invariant.
LEMMA StepKeeps == IInv /\ [Next]_vars => IInv'
<1> SUFFICES ASSUME IInv, [Next]_vars PROVE IInv'
  OBVIOUS
<1>1. CASE Client
  BY <1>1, ExecuteKeeps, WriteFailsKeeps, ReadAnswerKeeps, RetryKeeps, GiveUpKeeps,
     TimedOutKeeps, ReturnKeeps, WriteRequestKeeps DEF Client
<1>2. CASE Server
  BY <1>2, SelectKeeps, AcceptKeeps, CrashKeeps, RestartKeeps, HandleKeeps DEF Server
<1>3. CASE UNCHANGED vars
  BY <1>3 DEF vars, client, server, IInv, TypeOK, Pieces, CountInv, ConnInv, Quiet, TalkInv,
     Asked, Answered, AnswersItsOwnCall
<1>4. QED
  BY <1>1, <1>2, <1>3 DEF Next

\* The counts and the pieces on the client's connection.
THEOREM Counted == FairSpec => []IInv
<1>1. Init => IInv
  BY InitHolds
<1>2. IInv /\ [Next]_vars => IInv'
  BY StepKeeps
<1>3. QED
  BY <1>1, <1>2, PTL DEF FairSpec

\* The variables keep their types, whatever the number of calls and of crashes: a call opens
\* two connections at most, and no answer is longer than one answer.
THEOREM CallTypes == FairSpec => []TypeOK
BY Counted, PTL DEF IInv

\* execute returns true only with the answer to the very call, not with one that comes late,
\* in parts or after a retry.
THEOREM AnswersAreOwn == FairSpec => []AnswersItsOwnCall
BY Counted, PTL DEF IInv

-----------------------------------------------------------------------------
(* What the server executes.                                               *)
(*                                                                         *)
(* The connections of the server, accepted or not, are in the order they   *)
(* were opened, and an older one carries an older request.  A request that *)
(* can still be executed has not been executed since the server started:   *)
(* the client repeats it only after the server has closed the connection,  *)
(* which a server does when it stops.                                      *)

Increasing(s) == \A i, j \in DOMAIN s : i < j => s[i] < s[j]

\* The connections the server has open.
Live == Range(sources) \cup Range(backlog)

\* The calls whose pieces wait on connection c to be executed or to be forgotten.
Asking(c) == Range(toServer[c]) \cup Range(request[c])

\* The connections of the server: in order, and open at its end.
LiveInv ==
    /\ Increasing(sources) /\ Increasing(backlog)
    /\ \A c \in Range(sources), d \in Range(backlog) : c < d
    /\ \A c \in Live : ended[c] = "no"
    /\ \A c \in Conns : c > opened => ended[c] = "no"
    /\ ~running => Live = {}

\* Execution k in the server's present life.
Executed(k) == \E e \in DOMAIN executed : executed[e] = [call |-> k, life |-> crashes]

\* The requests: an older connection carries an older call, and what can be executed has not
\* been executed in this life.
AskInv ==
    /\ \A c \in Live \ {fd} : \A k \in Asking(c) : k < call
    /\ \A c, d \in Live : c < d => \A k \in Asking(c), l \in Asking(d) : k < l
    /\ \A c \in Conns : response[c] # <<>> => toServer[c] = <<>>
    /\ \A c \in Live : response[c] = <<>> => \A k \in Asking(c) : ~Executed(k)

\* The executions: those of the present call are of this life only if its request is written
\* and the connection is open.
RecordInv ==
    /\ \A e \in DOMAIN executed : executed[e].call <= call /\ executed[e].life <= crashes
    /\ connectionState = "WRITE_REQUEST" => ~Executed(call)
    /\ fd # 0 /\ ended[fd] # "no" => ~Executed(call)

LifeInv == IInv /\ LiveInv /\ AskInv /\ RecordInv /\ OncePerLife

\* The entries of a list with one more at its end.
LEMMA RangeAppend ==
    ASSUME NEW S, NEW s \in Seq(S), NEW x \in S
    PROVE  Range(Append(s, x)) = Range(s) \cup {x}
<1> DEFINE a == Append(s, x)
           n == Len(s)
<1>1. /\ n \in Nat /\ DOMAIN s = 1..n /\ DOMAIN a = 1..(n + 1)
      /\ (\A i \in 1..n : a[i] = s[i]) /\ a[n + 1] = x
  BY AppendProperties
<1> HIDE DEF a, n
<1>2. 1..(n + 1) = (1..n) \cup {n + 1}
  BY <1>1
<1>3. Range(a) = Range(s) \cup {x}
  BY <1>1, <1>2 DEF Range
<1>4. QED
  BY <1>3 DEF a

\* A list in order with one more entry at its end.
LEMMA IncreasingAppend ==
    ASSUME NEW S \in SUBSET Nat, NEW s \in Seq(S), Increasing(s), NEW x \in S,
           \A y \in Range(s) : y < x
    PROVE  Increasing(Append(s, x)) /\ Range(Append(s, x)) = Range(s) \cup {x}
<1>1. /\ Append(s, x) \in Seq(S) /\ Len(Append(s, x)) = Len(s) + 1 /\ Len(s) \in Nat
      /\ \A i \in 1..Len(s) : Append(s, x)[i] = s[i]
      /\ Append(s, x)[Len(s) + 1] = x
  BY AppendProperties
<1> DEFINE a == Append(s, x)
           n == Len(s)
<1>2. DOMAIN a = 1..(n + 1) /\ DOMAIN s = 1..n
  BY <1>1
<1>3. \A i \in 1..n : s[i] \in S /\ s[i] < x
  BY <1>2 DEF Range
<1> HIDE DEF a, n
<1>4. n \in Nat /\ (\A i \in 1..n : a[i] = s[i]) /\ a[n + 1] = x
  BY <1>1 DEF a, n
<1>5. Increasing(a)
  <2> SUFFICES ASSUME NEW i \in 1..(n + 1), NEW j \in 1..(n + 1), i < j PROVE a[i] < a[j]
    BY <1>2 DEF Increasing
  <2>1. i \in 1..n /\ a[i] = s[i]
    BY <1>4
  <2>2. CASE j = n + 1
    BY <1>3, <1>4, <2>1, <2>2
  <2>3. CASE j # n + 1
    <3>1. j \in 1..n /\ a[j] = s[j]
      BY <1>4, <2>3
    <3>2. s[i] < s[j]
      BY <1>2, <2>1, <3>1 DEF Increasing
    <3>3. QED
      BY <2>1, <3>1, <3>2
  <2>4. QED
    BY <2>2, <2>3
<1>6. Range(a) = Range(s) \cup {x}
  <2>1. 1..(n + 1) = (1..n) \cup {n + 1}
    BY <1>4
  <2>2. QED
    BY <1>2, <1>4, <2>1 DEF Range
<1>7. QED
  BY <1>5, <1>6 DEF a

\* A list in order without its first entry.
LEMMA IncreasingTail ==
    ASSUME NEW S \in SUBSET Nat, NEW s \in Seq(S), Increasing(s), s # <<>>
    PROVE  /\ Increasing(Tail(s)) /\ Head(s) \in S
           /\ Range(s) = Range(Tail(s)) \cup {Head(s)}
           /\ \A y \in Range(Tail(s)) : Head(s) < y
<1> DEFINE t == Tail(s)
           n == Len(s)
<1>1. /\ t \in Seq(S) /\ Len(t) = n - 1 /\ \A i \in 1..(n - 1) : t[i] = s[i + 1]
      /\ Head(s) = s[1] /\ Head(s) \in S /\ n \in Nat \ {0}
  BY HeadTailProperties, EmptySeq
<1>2. DOMAIN t = 1..(n - 1) /\ DOMAIN s = 1..n
  BY <1>1
<1> HIDE DEF t, n
<1>3. \A i, j \in 1..n : i < j => s[i] < s[j]
  BY <1>2 DEF Increasing
<1>4. \A i \in 1..(n - 1) : t[i] = s[i + 1] /\ i + 1 \in 1..n /\ s[1] < s[i + 1]
  BY <1>1, <1>3
<1>5. Increasing(t)
  <2> SUFFICES ASSUME NEW i \in 1..(n - 1), NEW j \in 1..(n - 1), i < j PROVE t[i] < t[j]
    BY <1>2 DEF Increasing
  <2>1. i + 1 \in 1..n /\ j + 1 \in 1..n /\ i + 1 < j + 1
    BY <1>1
  <2>2. QED
    BY <1>3, <1>4, <2>1
<1>6. Range(s) = Range(t) \cup {s[1]}
  <2>1. \A x \in Range(s) : x \in Range(t) \cup {s[1]}
    <3> SUFFICES ASSUME NEW i \in 1..n PROVE s[i] \in Range(t) \cup {s[1]}
      BY <1>2 DEF Range
    <3>1. CASE i = 1
      BY <3>1
    <3>2. CASE i # 1
      <4>1. i - 1 \in 1..(n - 1) /\ (i - 1) + 1 = i
        BY <1>1, <3>2
      <4>2. t[i - 1] = s[i]
        BY <1>4, <4>1
      <4>3. QED
        BY <1>2, <4>1, <4>2 DEF Range
    <3>3. QED
      BY <3>1, <3>2
  <2>2. Range(t) \subseteq Range(s) /\ s[1] \in Range(s)
    BY <1>1, <1>2, <1>4, SMTT(30) DEF Range
  <2>3. QED
    BY <2>1, <2>2
<1>7. \A y \in Range(t) : s[1] < y
  BY <1>2, <1>4 DEF Range
<1>8. QED
  BY <1>1, <1>5, <1>6, <1>7 DEF t

\* A list in order without one of its entries.
LEMMA IncreasingRemove ==
    ASSUME NEW S \in SUBSET Nat, NEW s \in Seq(S), Increasing(s), NEW i \in DOMAIN s
    PROVE  /\ Increasing(RemoveAt(s, i))
           /\ Range(RemoveAt(s, i)) = Range(s) \ {s[i]}
<1> DEFINE t == RemoveAt(s, i)
           n == Len(s)
<1>1. /\ t \in Seq(S) /\ Len(t) = n - 1
      /\ \A j \in 1..(n - 1) : t[j] = IF j < i THEN s[j] ELSE s[j + 1]
      /\ n \in Nat /\ i \in 1..n
  BY Removed
<1>2. DOMAIN t = 1..(n - 1) /\ DOMAIN s = 1..n
  BY <1>1
<1> HIDE DEF t, n
<1>3. \A a, b \in 1..n : a < b => s[a] < s[b]
  BY <1>2 DEF Increasing
<1>4. \A a \in 1..n : s[a] \in Nat
  BY ElementOfSeq DEF n
<1>5. ASSUME NEW a \in 1..(n - 1)
      PROVE  \E b \in 1..n : b # i /\ t[a] = s[b] /\ b = IF a < i THEN a ELSE a + 1
  <2>1. CASE a < i
    BY <1>1, <2>1
  <2>2. CASE ~(a < i)
    <3>1. a + 1 \in 1..n /\ a + 1 # i
      BY <1>1, <2>2
    <3>2. QED
      BY <1>1, <2>2, <3>1
  <2>3. QED
    BY <2>1, <2>2
<1>6. Increasing(t)
  <2> SUFFICES ASSUME NEW a \in 1..(n - 1), NEW b \in 1..(n - 1), a < b PROVE t[a] < t[b]
    BY <1>2 DEF Increasing
  <2>1. PICK c \in 1..n : t[a] = s[c] /\ c = IF a < i THEN a ELSE a + 1
    BY <1>5
  <2>2. PICK d \in 1..n : t[b] = s[d] /\ d = IF b < i THEN b ELSE b + 1
    BY <1>5
  <2>3. c < d
    BY <1>1, <2>1, <2>2
  <2>4. QED
    BY <1>3, <2>1, <2>2, <2>3
<1>7. Range(t) \subseteq Range(s) \ {s[i]}
  <2> SUFFICES ASSUME NEW a \in 1..(n - 1) PROVE t[a] \in Range(s) \ {s[i]}
    BY <1>2 DEF Range
  <2>1. PICK b \in 1..n : b # i /\ t[a] = s[b]
    BY <1>5
  <2>2. s[b] # s[i]
    BY <1>1, <1>3, <1>4, <2>1
  <2>3. QED
    BY <1>2, <2>1, <2>2 DEF Range
<1>8. Range(s) \ {s[i]} \subseteq Range(t)
  <2> SUFFICES ASSUME NEW a \in 1..n, a # i PROVE s[a] \in Range(t)
    BY <1>2 DEF Range
  <2>1. CASE a < i
    <3>1. a \in 1..(n - 1) /\ t[a] = s[a]
      BY <1>1, <2>1
    <3>2. QED
      BY <1>2, <3>1 DEF Range
  <2>2. CASE a > i
    <3>1. a - 1 \in 1..(n - 1) /\ ~(a - 1 < i) /\ (a - 1) + 1 = a
      BY <1>1, <2>2
    <3>2. t[a - 1] = s[a]
      BY <1>1, <3>1
    <3>3. QED
      BY <1>2, <3>1, <3>2 DEF Range
  <2>3. QED
    BY <1>1, <2>1, <2>2
<1>9. QED
  BY <1>6, <1>7, <1>8 DEF t

\* An execution names its call and the life of the server.
LEMMA RecordTyped ==
    ASSUME TypeOK
    PROVE  /\ executed \in Seq([call : Calls, life : 0..MaxCrashes])
           /\ \A e \in DOMAIN executed :
                /\ executed[e] \in [call : Calls, life : 0..MaxCrashes]
                /\ executed[e].call \in Nat /\ executed[e].life \in Nat
<1> DEFINE R == [call : Calls, life : 0..MaxCrashes]
<1>1. executed \in Seq(R)
  BY DEF TypeOK
<1>2. \A e \in DOMAIN executed : executed[e] \in R
  <2> HIDE DEF R
  <2>1. QED
    BY <1>1, ElementOfSeq, LenProperties
<1>3. QED
  BY <1>1, <1>2, BoundsAssumption DEF Calls

\* Neither the server nor what is written to it changes.
LEMMA LifeStill ==
    ASSUME LifeInv, IInv',
           UNCHANGED <<sources, backlog, ended, running, toServer, request, response, executed,
                       crashes, fd, call, opened>>,
           connectionState' = "WRITE_REQUEST" => connectionState = "WRITE_REQUEST"
    PROVE  LifeInv'
<1>1. Live' = Live /\ \A c : Asking(c)' = Asking(c)
  BY DEF Live, Asking
<1>2. \A k : Executed(k)' = Executed(k)
  BY DEF Executed
<1>3. LiveInv'
  BY <1>1 DEF LifeInv, LiveInv, Increasing
<1>4. AskInv'
  BY <1>1, <1>2 DEF LifeInv, AskInv
<1>5. RecordInv' /\ OncePerLife'
  BY <1>2 DEF LifeInv, RecordInv, OncePerLife
<1>6. QED
  BY <1>3, <1>4, <1>5 DEF LifeInv

\* The connections of the server are opened ones.
LEMMA LiveOpened ==
    ASSUME IInv
    PROVE  Live \subseteq 1..opened /\ 1..opened \subseteq Conns /\ opened \in Nat
<1>1. sources \in Seq(1..opened) /\ backlog \in Seq(1..opened)
  BY DEF IInv, ConnInv
<1>2. Range(sources) \subseteq 1..opened /\ Range(backlog) \subseteq 1..opened
  BY <1>1, RangeOfSeq
<1>3. QED
  BY <1>2, BoundsAssumption DEF Live, IInv, TypeOK, Conns

\* A new connection carries nothing yet: all the others are older, and so are their calls.
LEMMA LifeConnected ==
    ASSUME LifeInv, IInv', Connected, UNCHANGED <<server, toServer, toClient>>,
           opened < 2 * MaxCalls,
           call' >= call, ~Executed(call'),
           \A c \in Live : \A k \in Asking(c) : k < call'
    PROVE  LifeInv'
<1>1. /\ opened' = opened + 1 /\ fd' = opened + 1 /\ opened \in Nat /\ fd' \in Conns
      /\ Live \subseteq 1..opened /\ 1..opened \subseteq Conns
      /\ connectionState' = "WRITE_REQUEST"
  BY LiveOpened, BoundsAssumption DEF LifeInv, Connected, Prepared, Conns
<1>2. /\ UNCHANGED <<running, sources, request, response, executed, crashes, toServer>>
      /\ call \in Nat /\ call' \in Nat
  BY DEF server, LifeInv, IInv, TypeOK
<1>3. Quiet(fd') /\ ended[fd'] = "no"
  BY <1>1 DEF LifeInv, LiveInv, IInv, ConnInv
<1>4. /\ Range(sources) \subseteq Live /\ Range(backlog) \subseteq Live
      /\ \A c \in Conns : c # fd' => ended'[c] = ended[c]
      /\ running => ended' = ended
  BY DEF Live, Connected, LifeInv, IInv, TypeOK
<1>5. \A y \in Live : y \in Nat /\ y < opened + 1 /\ y # fd'
  BY <1>1
<1>6. Live' \subseteq Live \cup {fd'} /\ LiveInv'
  <2>1. CASE running
    <3>1. backlog' = Append(backlog, fd') /\ ended' = ended
      BY <2>1 DEF Connected
    <3>2. Increasing(backlog') /\ Range(backlog') = Range(backlog) \cup {fd'}
      <4>1. backlog \in Seq(1..(opened + 1)) /\ 1..(opened + 1) \in SUBSET Nat
        BY <1>1, SeqMonotonic, 1..opened \subseteq 1..(opened + 1) DEF LifeInv, IInv, ConnInv
      <4>2. \A y \in Range(backlog) : y < opened + 1
        BY <1>4, <1>5, Zenon
      <4>3. opened + 1 \in 1..(opened + 1) /\ Increasing(backlog)
        BY <1>1 DEF LifeInv, LiveInv
      <4>4. QED
        BY <1>1, <3>1, <4>1, <4>2, <4>3, IncreasingAppend
    <3>3. Live' = Live \cup {fd'}
      BY <1>2, <3>2 DEF Live
    <3>4. \A c \in Range(sources'), d \in Range(backlog') : c < d
      <4> SUFFICES ASSUME NEW c \in Range(sources), NEW d \in Range(backlog) \cup {fd'}
                   PROVE  c < d
        BY <1>2, <3>2
      <4>1. CASE d \in Range(backlog)
        BY <4>1 DEF LifeInv, LiveInv
      <4>2. CASE d = fd'
        <5>1. c < opened + 1
          BY <1>4, <1>5, Zenon
        <5>2. QED
          BY <1>1, <4>2, <5>1
      <4>3. QED
        BY <4>1, <4>2
    <3>5. \A c \in Live' : ended'[c] = "no"
      BY <1>3, <3>1, <3>3 DEF LifeInv, LiveInv
    <3>6. \A c \in Conns : c > opened' => ended'[c] = "no"
      BY <1>1, <3>1 DEF LifeInv, LiveInv, Conns
    <3>7. Increasing(sources') /\ running'
      BY <1>2, <2>1 DEF LifeInv, LiveInv
    <3>8. QED
      BY <3>2, <3>3, <3>4, <3>5, <3>6, <3>7 DEF LiveInv
  <2>2. CASE ~running
    <3>1. backlog' = backlog /\ Live' = Live /\ Live = {}
      BY <1>2, <2>2 DEF Connected, Live, LifeInv, LiveInv
    <3>2. \A c \in Conns : c > opened' => ended'[c] = "no"
      BY <1>1, <1>4 DEF LifeInv, LiveInv, Conns
    <3>3. Increasing(sources') /\ Increasing(backlog')
          /\ \A c \in Range(sources'), d \in Range(backlog') : c < d
      BY <1>2, <3>1 DEF LifeInv, LiveInv
    <3>4. QED
      BY <3>1, <3>2, <3>3 DEF LiveInv
  <2>3. QED
    BY <2>1, <2>2
<1>7. /\ \A c : Asking(c)' = Asking(c)
      /\ \A k : Executed(k)' = Executed(k)
  BY <1>2 DEF Asking, Executed
<1>8. Asking(fd') = {}
  BY <1>3 DEF Quiet, Asking, Range
<1>9. AskInv'
  <2>1. \A c \in Live' \ {fd'} : c \in Live /\ \A k \in Asking(c)' : k < call'
    BY <1>6, <1>7
  <2>2. \A c, d \in Live' : c < d => \A k \in Asking(c)', l \in Asking(d)' : k < l
    BY <1>6, <1>7, <1>8 DEF LifeInv, AskInv
  <2>3. \A c \in Conns : response'[c] # <<>> => toServer'[c] = <<>>
    BY <1>2 DEF LifeInv, AskInv
  <2>4. \A c \in Live' : response'[c] = <<>> => \A k \in Asking(c)' : ~Executed(k)'
    BY <1>2, <1>6, <1>7, <1>8 DEF LifeInv, AskInv
  <2>5. QED
    BY <2>1, <2>2, <2>3, <2>4 DEF AskInv
<1>10. RecordInv'
  <2>1. \A e \in DOMAIN executed' : executed'[e].call <= call' /\ executed'[e].life <= crashes'
    <3>1. \A e \in DOMAIN executed : executed[e].call \in Nat
      BY RecordTyped DEF LifeInv, IInv
    <3>2. QED
      BY <1>2, <3>1 DEF LifeInv, RecordInv
  <2>2. ~Executed(call')
    OBVIOUS
  <2>3. QED
    BY <1>2, <2>1, <2>2 DEF RecordInv, Executed
<1>11. OncePerLife'
  BY <1>2 DEF LifeInv, OncePerLife
<1>12. QED
  BY <1>6, <1>9, <1>10, <1>11 DEF LifeInv

\* A call begins: all the requests that wait are of earlier calls.
LEMMA LifeExecute == LifeInv /\ Execute => LifeInv'
<1> SUFFICES ASSUME LifeInv, Execute PROVE LifeInv'
  OBVIOUS
<1>1. IInv'
  BY ExecuteKeeps DEF LifeInv
<1>2. /\ call \in Nat /\ call' = call + 1 /\ opened < 2 * MaxCalls
      /\ UNCHANGED <<server, toServer, toClient>> /\ received' = received
  BY BoundsAssumption DEF Execute, LifeInv, IInv, TypeOK, CountInv
<1>3. /\ UNCHANGED <<running, sources, request, response, executed, crashes, toServer>>
  BY <1>2 DEF server
<1>4. ~Executed(call')
  <2> SUFFICES ASSUME NEW e \in DOMAIN executed, executed[e] = [call |-> call + 1, life |-> crashes]
               PROVE  FALSE
    BY <1>2 DEF Executed
  <2>1. executed[e].call = call + 1 /\ executed[e].call <= call
    BY DEF LifeInv, RecordInv
  <2>2. QED
    BY <1>2, <2>1
<1>5. \A c \in Live : \A k \in Asking(c) : k \in Nat /\ k < call'
  <2> SUFFICES ASSUME NEW c \in Live, NEW k \in Asking(c) PROVE k \in Nat /\ k < call'
    OBVIOUS
  <2>1. k \in Nat
    <3>1. c \in Conns
      BY LiveOpened DEF LifeInv
    <3>2. toServer[c] \in Seq(Calls) /\ request[c] \in Seq(Calls)
      BY <3>1 DEF LifeInv, IInv, TypeOK, Pieces
    <3>3. k \in Calls
      BY <3>2, RangeOfSeq DEF Asking
    <3>4. QED
      BY <3>3 DEF Calls
  <2>2. CASE c = fd
    <3>1. fd # 0
      BY <2>2, LiveOpened DEF LifeInv
    <3>2. toServer[c] \in Seq({call}) /\ request[c] \in Seq({call})
      BY <2>2, <3>1 DEF LifeInv, IInv, TalkInv
    <3>3. k \in {call}
      BY <3>2, RangeOfSeq DEF Asking
    <3>4. QED
      BY <1>2, <3>3
  <2>3. CASE c # fd
    <3>1. k < call
      BY <2>3 DEF LifeInv, AskInv
    <3>2. QED
      BY <1>2, <2>1, <3>1
  <2>4. QED
    BY <2>2, <2>3
<1>6. CASE Connected
  BY <1>1, <1>2, <1>4, <1>5, <1>6, LifeConnected
<1>7. CASE /\ fd' = 0 \/ (fd' = fd /\ Asking(fd) = {})
           /\ UNCHANGED <<opened, backlog, ended>>
  <2>1. /\ Live' = Live /\ \A c : Asking(c)' = Asking(c)
        /\ \A k : Executed(k)' = Executed(k)
    BY <1>3, <1>7 DEF Live, Asking, Executed
  <2>2. LiveInv'
    BY <1>3, <1>7, <2>1 DEF LifeInv, LiveInv, Increasing
  <2>3. AskInv'
    <3>1. \A c \in Live' \ {fd'} : \A k \in Asking(c)' : k < call'
      BY <1>5, <2>1
    <3>2. QED
      BY <1>3, <2>1, <3>1 DEF LifeInv, AskInv
  <2>4. RecordInv'
    <3>1. \A e \in DOMAIN executed : executed[e].call <= call'
      BY <1>2, RecordTyped DEF LifeInv, RecordInv, IInv
    <3>2. QED
      BY <1>3, <1>4, <2>1, <3>1 DEF LifeInv, RecordInv, Executed
  <2>5. OncePerLife'
    BY <1>3 DEF LifeInv, OncePerLife
  <2>6. QED
    BY <1>1, <2>2, <2>3, <2>4, <2>5 DEF LifeInv
<1>8. ASSUME ~Connected
      PROVE  /\ fd' = 0 \/ (fd' = fd /\ Asking(fd) = {})
             /\ UNCHANGED <<opened, backlog, ended>>
  <2>1. CASE MustClose \/ connectionState = "NO_CONNECTION"
    BY <1>8, <2>1 DEF Execute, NotConnected
  <2>2. CASE ~(MustClose \/ connectionState = "NO_CONNECTION")
    <3>1. fd' = fd /\ UNCHANGED <<opened, backlog, ended>>
      BY <2>2 DEF Execute
    <3>2. Quiet(fd)
      BY <2>2 DEF MustClose, LifeInv, IInv, ConnInv, TalkInv
    <3>3. Asking(fd) = {}
      BY <3>2 DEF Quiet, Asking, Range
    <3>4. QED
      BY <3>1, <3>3
  <2>3. QED
    BY <2>1, <2>2
<1>9. QED
  BY <1>6, <1>7, <1>8

\* The server has closed the connection, so that the request cannot be executed on it.
LEMMA LifeRetry == LifeInv /\ Retry => LifeInv'
<1> SUFFICES ASSUME LifeInv, Retry PROVE LifeInv'
  OBVIOUS
<1>1. IInv'
  BY RetryKeeps DEF LifeInv
<1>2. /\ call \in Nat /\ UNCHANGED <<call, server, toServer, toClient>>
      /\ received' = received /\ fd # 0 /\ fd \in Conns /\ executing /\ opened < 2 * MaxCalls
  BY BoundsAssumption DEF Retry, Reading, Working, MayRetry, LifeInv, IInv, TypeOK, CountInv, ConnInv
<1>3. /\ UNCHANGED <<running, sources, request, response, executed, crashes, toServer>>
  BY <1>2 DEF server
<1>4. ended[fd] # "no"
  <2>1. received \in Seq({call}) /\ toClient[fd] \in Seq({call})
    BY <1>2 DEF Retry, NoAnswer, LifeInv, IInv, TalkInv
  <2>2. toClient[fd] = <<>>
    BY <2>1, ConcatSimplifications DEF Retry, NoAnswer, Got
  <2>3. QED
    BY <2>2 DEF Retry, Reading, Readable
<1>5. fd \notin Live /\ ~Executed(call)
  BY <1>2, <1>4 DEF LifeInv, LiveInv, RecordInv
<1>6. \A c \in Live : \A k \in Asking(c) : k < call
  BY <1>5 DEF LifeInv, AskInv
<1>7. CASE Connected
  BY <1>1, <1>2, <1>5, <1>6, <1>7, LifeConnected
<1>8. CASE NotConnected
  <2>1. /\ fd' = 0 /\ connectionState' = "NO_CONNECTION" /\ UNCHANGED <<opened, backlog, ended>>
    BY <1>8 DEF NotConnected
  <2>2. /\ Live' = Live /\ \A c : Asking(c)' = Asking(c)
        /\ \A k : Executed(k)' = Executed(k)
    BY <1>3, <2>1 DEF Live, Asking, Executed
  <2>3. LiveInv'
    BY <1>3, <2>1, <2>2 DEF LifeInv, LiveInv, Increasing
  <2>4. AskInv'
    <3>1. \A c \in Live' \ {fd'} : \A k \in Asking(c)' : k < call'
      BY <1>2, <1>6, <2>2
    <3>2. QED
      BY <1>3, <2>2, <3>1 DEF LifeInv, AskInv
  <2>5. RecordInv'
    BY <1>2, <1>3, <2>1 DEF LifeInv, RecordInv
  <2>6. OncePerLife'
    BY <1>3 DEF LifeInv, OncePerLife
  <2>7. QED
    BY <1>1, <2>3, <2>4, <2>5, <2>6 DEF LifeInv
<1>9. QED
  BY <1>7, <1>8 DEF Retry

\* A request that is being written has not been executed in this life.
LEMMA LifeWrite ==
    ASSUME LifeInv, NEW n \in 1..RequestLen, WriteRequest(n)
    PROVE  LifeInv'
<1>1. IInv'
  BY WriteRequestKeeps DEF LifeInv
<1>2. /\ UNCHANGED <<fd, call, running, sources, request, response, executed, crashes, opened, backlog>>
      /\ toServer' = [toServer EXCEPT ![fd] = @ \o [k \in 1..n |-> call]]
      /\ ended' = [ended EXCEPT ![fd] = IF @ = "fin" THEN "rst" ELSE @]
      /\ connectionState = "WRITE_REQUEST"
  BY DEF WriteRequest, server
<1>3. fd # 0 /\ fd \in Conns /\ fd = opened
  BY DEF WriteRequest, Working, LifeInv, IInv, ConnInv, TypeOK
<1>4. /\ \A c \in Conns \ {fd} : Asking(c)' = Asking(c)
      /\ \A c \in Conns : c = fd => Asking(c)' \subseteq Asking(c) \cup {call}
      /\ response[fd] = <<>>
  <2> DEFINE more == [k \in 1..n |-> call]
  <2>1. toServer[fd] \in Seq({call}) /\ more \in Seq({call})
    BY <1>3, Copies DEF LifeInv, IInv, TalkInv, RequestLen
  <2>2. toServer'[fd] = toServer[fd] \o more /\ \A c \in Conns \ {fd} : toServer'[c] = toServer[c]
    BY <1>2, <1>3 DEF LifeInv, IInv, TypeOK
  <2> HIDE DEF more
  <2>3. Range(toServer'[fd]) = Range(toServer[fd]) \cup Range(more) /\ Range(more) \subseteq {call}
    BY <2>1, <2>2, RangeConcatenation, RangeOfSeq
  <2>4. response[fd] = <<>>
    BY <1>2, <1>3 DEF LifeInv, IInv, TalkInv, Asked, Answered
  <2>5. QED
    BY <1>2, <2>2, <2>3, <2>4 DEF Asking
<1>5. /\ Live' = Live /\ Live \subseteq 1..opened /\ \A k : Executed(k)' = Executed(k)
      /\ Live \subseteq Conns
  BY <1>2, LiveOpened DEF LifeInv, Live, Executed
<1>6. \A c \in Conns : (ended'[c] = "no") = (ended[c] = "no")
  BY <1>2, <1>3 DEF LifeInv, IInv, TypeOK
<1>7. LiveInv'
  BY <1>2, <1>5, <1>6 DEF LifeInv, LiveInv, Increasing
<1>8. AskInv'
  <2>1. \A c \in Live' \ {fd'} : \A k \in Asking(c)' : k < call'
    BY <1>2, <1>4, <1>5 DEF LifeInv, AskInv
  <2>2. \A c, d \in Live' : c < d => \A k \in Asking(c)', l \in Asking(d)' : k < l
    <3> SUFFICES ASSUME NEW c \in Live, NEW d \in Live, c < d,
                        NEW k \in Asking(c)', NEW l \in Asking(d)'
                 PROVE  k < l
      BY <1>5
    <3>1. c # fd
      BY <1>3, <1>5
    <3>2. k \in Asking(c) /\ k < call
      BY <1>4, <1>5, <3>1 DEF LifeInv, AskInv
    <3>3. l \in Asking(d) \/ l = call
      BY <1>4, <1>5
    <3>4. QED
      BY <3>2, <3>3 DEF LifeInv, AskInv
  <2>3. \A c \in Conns : response'[c] # <<>> => toServer'[c] = <<>>
    BY <1>2, <1>4 DEF LifeInv, AskInv, IInv, TypeOK
  <2>4. \A c \in Live' : response'[c] = <<>> => \A k \in Asking(c)' : ~Executed(k)'
    BY <1>2, <1>4, <1>5 DEF LifeInv, AskInv, RecordInv
  <2>5. QED
    BY <2>1, <2>2, <2>3, <2>4 DEF AskInv
<1>9. RecordInv'
  BY <1>2, <1>5 DEF LifeInv, RecordInv
<1>10. OncePerLife'
  BY <1>2 DEF LifeInv, OncePerLife
<1>11. QED
  BY <1>1, <1>7, <1>8, <1>9, <1>10 DEF LifeInv

\* Accepting moves a connection from one list to the other.
LEMMA LifeAccept == LifeInv /\ Accept => LifeInv'
<1> SUFFICES ASSUME LifeInv, Accept PROVE LifeInv'
  OBVIOUS
<1>1. IInv'
  BY AcceptKeeps DEF LifeInv
<1>2. /\ UNCHANGED <<connectionState, fd, call, running, request, response, executed, crashes,
                     opened, ended, toServer>>
      /\ sources' = Append(sources, Head(backlog)) /\ backlog' = Tail(backlog)
  BY DEF Accept, client
<1>3. /\ sources \in Seq(1..opened) /\ backlog \in Seq(1..opened) /\ backlog # <<>>
      /\ 1..opened \in SUBSET Nat
  BY DEF Accept, LifeInv, IInv, ConnInv
<1>4. Increasing(sources) /\ Increasing(backlog)
      /\ \A c \in Range(sources), d \in Range(backlog) : c < d
  BY DEF LifeInv, LiveInv
<1>5. /\ Increasing(backlog') /\ Head(backlog) \in 1..opened
      /\ Range(backlog) = Range(backlog') \cup {Head(backlog)}
      /\ \A y \in Range(backlog') : Head(backlog) < y
  BY <1>2, <1>3, <1>4, IncreasingTail
<1>6. /\ Increasing(sources') /\ Range(sources') = Range(sources) \cup {Head(backlog)}
  <2>1. \A y \in Range(sources) : y < Head(backlog)
    BY <1>4, <1>5
  <2>2. QED
    BY <1>2, <1>3, <1>4, <1>5, <2>1, IncreasingAppend, ZenonT(30)
<1>7. /\ Live' = Live /\ (\A c : Asking(c)' = Asking(c))
      /\ \A k : Executed(k)' = Executed(k)
  BY <1>2, <1>5, <1>6 DEF Live, Asking, Executed
<1>8. LiveInv'
  <2>1. \A c \in Range(sources'), d \in Range(backlog') : c < d
    BY <1>4, <1>5, <1>6
  <2>2. QED
    BY <1>2, <1>5, <1>6, <1>7, <2>1 DEF LifeInv, LiveInv
<1>9. AskInv'
  BY <1>2, <1>7 DEF LifeInv, AskInv
<1>10. RecordInv' /\ OncePerLife'
  BY <1>2, <1>7 DEF LifeInv, RecordInv, OncePerLife
<1>11. QED
  BY <1>1, <1>8, <1>9, <1>10 DEF LifeInv

\* A server that stops has no connection left, and begins a new life.
LEMMA LifeCrash == LifeInv /\ Crash => LifeInv'
<1> SUFFICES ASSUME LifeInv, Crash PROVE LifeInv'
  OBVIOUS
<1>1. IInv'
  BY CrashKeeps DEF LifeInv
<1>2. /\ UNCHANGED <<connectionState, fd, call, executed, opened>>
      /\ crashes' = crashes + 1 /\ crashes \in Nat
      /\ sources' = <<>> /\ backlog' = <<>>
      /\ \A c \in Conns : response'[c] = <<>> /\ toServer'[c] = <<>>
  BY DEF Crash, client, LifeInv, IInv, TypeOK
<1>3. Live' = {}
  BY <1>2 DEF Live, Range
<1>4. LiveInv'
  <2>1. Increasing(sources') /\ Increasing(backlog') /\ Range(sources') = {}
    BY <1>2 DEF Increasing, Range
  <2>2. ASSUME NEW c \in Conns, c > opened PROVE ended'[c] = "no"
    <3>1. c \notin Range(sources \o backlog)
      <4>1. sources \in Seq(1..opened) /\ backlog \in Seq(1..opened) /\ opened \in Nat
        BY DEF LifeInv, IInv, ConnInv, TypeOK
      <4>2. Range(sources \o backlog) \subseteq 1..opened
        BY <4>1, ConcatProperties, RangeOfSeq
      <4>3. c \notin 1..opened
        BY <2>2, <4>1 DEF Conns
      <4>4. QED
        BY <4>2, <4>3
    <3>2. QED
      BY <2>2, <3>1 DEF Crash, LifeInv, LiveInv
  <2>3. QED
    BY <1>2, <1>3, <2>1, <2>2 DEF LiveInv
<1>5. AskInv'
  BY <1>2, <1>3 DEF AskInv
<1>6. \A k : ~Executed(k)'
  <2> SUFFICES ASSUME NEW k, NEW e \in DOMAIN executed, executed[e] = [call |-> k, life |-> crashes + 1]
               PROVE  FALSE
    BY <1>2 DEF Executed
  <2>1. executed[e].life = crashes + 1 /\ executed[e].life <= crashes
    BY DEF LifeInv, RecordInv
  <2>2. QED
    BY <1>2, <2>1
<1>7. RecordInv'
  <2>1. \A e \in DOMAIN executed : executed[e].life <= crashes'
    BY <1>2, RecordTyped DEF LifeInv, RecordInv, IInv
  <2>2. QED
    BY <1>2, <1>6, <2>1 DEF LifeInv, RecordInv
<1>8. OncePerLife'
  BY <1>2 DEF LifeInv, OncePerLife
<1>9. QED
  BY <1>1, <1>4, <1>5, <1>7, <1>8 DEF LifeInv

\* A server that starts has no connections.
LEMMA LifeRestart == LifeInv /\ Restart => LifeInv'
<1> SUFFICES ASSUME LifeInv, Restart PROVE LifeInv'
  OBVIOUS
<1>1. IInv'
  BY RestartKeeps DEF LifeInv
<1>2. /\ UNCHANGED <<connectionState, fd, call, request, response, executed, crashes, opened,
                     ended, toServer, sources, backlog>>
  BY DEF Restart, client
<1>3. /\ Live' = Live /\ Live = {} /\ (\A c : Asking(c)' = Asking(c))
      /\ \A k : Executed(k)' = Executed(k)
  BY <1>2 DEF Live, Asking, Executed, LifeInv, LiveInv, Restart
<1>4. LiveInv'
  BY <1>2, <1>3 DEF LifeInv, LiveInv, Increasing
<1>5. AskInv'
  BY <1>2, <1>3 DEF LifeInv, AskInv
<1>6. RecordInv' /\ OncePerLife'
  BY <1>2, <1>3 DEF LifeInv, RecordInv, OncePerLife
<1>7. QED
  BY <1>1, <1>4, <1>5, <1>6 DEF LifeInv

\* A request of the client's connection is executed once it has been written as a whole.
LEMMA ExecutesWhole ==
    ASSUME IInv, fd \in Conns, NEW n, Executes(fd, n)
    PROVE  connectionState # "WRITE_REQUEST"
<1> DEFINE t == toServer[fd]
           q == request[fd]
<1>1. fd # 0 /\ response[fd] = <<>> /\ Len(q \o t) = RequestLen
  BY DEF Executes, Req, Conns
<1>2. /\ t \in Seq({call}) /\ q \in Seq({call}) /\ bytesWritten \in 0..RequestLen
      /\ (connectionState = "WRITE_REQUEST") = (bytesWritten < RequestLen)
  BY <1>1 DEF IInv, TalkInv, TypeOK
<1>3. Len(t) + Len(q) <= bytesWritten \/ connectionState # "WRITE_REQUEST"
  BY <1>1 DEF IInv, TalkInv, Asked, Answered
<1> HIDE DEF t, q
<1>4. Len(t) + Len(q) <= bytesWritten => ~(bytesWritten < RequestLen)
  BY <1>1, <1>2, ReadCounts
<1>5. QED
  BY <1>2, <1>3, <1>4, Zenon

\* What an event does to the requests: it executes one that can be executed and forgets it
\* once it is answered, or puts the pieces together.
LEMMA HandleAsks ==
    ASSUME LifeInv, NEW i \in DOMAIN sources, NEW n \in 0..AnswerLen, HandleEvent(i, n),
           NEW c, c = sources[i]
    PROVE  /\ Drops(i) \/ (sources' = sources /\ ended' = ended /\ Asking(c)' \subseteq Asking(c))
           /\ response'[c] # <<>> => toServer'[c] = <<>>
           /\ Drops(i) \/ response'[c] # <<>> \/ Asking(c)' = {} \/ c = fd
           /\ \/ /\ executed' = executed
                 /\ Drops(i) \/ response[c] = <<>> \/ response'[c] # <<>> \/ Asking(c)' = {}
                 /\ response[c] # <<>> \/ (response' = response /\ toClient' = toClient)
              \/ \E k \in Asking(c) :
                   /\ response[c] = <<>> /\ Len(Req(c)) = RequestLen
                   /\ executed' = Append(executed, [call |-> k, life |-> crashes])
                   /\ response'[c] # <<>> \/ Asking(c)' = {}
                   /\ c = fd => connectionState # "WRITE_REQUEST"
<1>1. c \in Conns /\ TypeOK /\ n \in Nat /\ Calls \in SUBSET Calls
  BY HandleFrame, LiveOpened DEF LifeInv, IInv, AnswerLen
<1>2. /\ request[c] \in Seq(Calls) /\ toServer[c] \in Seq(Calls) /\ response[c] \in Seq(Calls)
      /\ response[c] # <<>> => toServer[c] = <<>>
  BY <1>1 DEF TypeOK, Pieces, LifeInv, AskInv
<1>3. Range(<<>>) = {}
  BY DEF Range
<1>4. Req(c) \in Seq(Calls) /\ Range(Req(c)) = Asking(c)
  BY <1>2, ConcatProperties, RangeConcatenation DEF Req, Asking
<1>5. CASE Continues(c, n)
  <2>1. Writes(c, request[c], response[c], n) /\ UNCHANGED <<toServer, executed>>
        /\ response[c] # <<>>
    BY <1>5 DEF Continues
  <2>2. /\ n \in 0..Len(response[c]) /\ response'[c] = SubSeq(response[c], n + 1, Len(response[c]))
        /\ request'[c] = (IF n = Len(response[c]) THEN <<>> ELSE request[c])
        /\ UNCHANGED <<sources, ended>>
    BY <1>1, <1>2, <2>1, WritesOne
  <2>3. response'[c] = <<>> => request'[c] = <<>>
    <3> DEFINE r == response[c]
    <3>1. r \in Seq(Calls) /\ n \in 0..Len(r) /\ response'[c] = SubSeq(r, n + 1, Len(r))
      BY <1>2, <2>2
    <3> HIDE DEF r
    <3>2. response'[c] = <<>> => n = Len(r)
      BY <3>1, Split
    <3>3. QED
      BY <2>2, <3>2 DEF r
  <2>4. toServer'[c] = <<>> /\ toServer[c] = <<>>
    BY <1>2, <2>1
  <2>5. Asking(c)' = Range(request'[c])
    BY <1>3, <2>4 DEF Asking
  <2>6. Asking(c)' \subseteq Asking(c)
    BY <1>3, <2>2, <2>5 DEF Asking
  <2>7. QED
    BY <1>3, <2>1, <2>2, <2>3, <2>4, <2>5, <2>6
<1>6. CASE Drops(i)
  <2>1. /\ executed' = executed /\ response' = response /\ toClient' = toClient
        /\ toServer' = toServer \/ toServer' = [toServer EXCEPT ![c] = <<>>]
    BY <1>6 DEF Drops, Dropped
  <2>2. response'[c] # <<>> => toServer'[c] = <<>>
    BY <1>1, <1>2, <2>1 DEF TypeOK
  <2>3. QED
    BY <1>6, <2>1, <2>2
<1>7. CASE Executes(c, n)
  <2>1. PICK k \in Calls :
             /\ Last(Req(c)) = k
             /\ executed' = Append(executed, [call |-> k, life |-> crashes])
             /\ Writes(c, Req(c), [j \in 1..AnswerLen |-> k], n)
             /\ [j \in 1..AnswerLen |-> k] \in Seq(Calls)
             /\ Len([j \in 1..AnswerLen |-> k]) = AnswerLen
    BY <1>1, <1>2, <1>7, ExecutesOne
  <2> DEFINE ans == [j \in 1..AnswerLen |-> k]
  <2>2. Writes(c, Req(c), ans, n) /\ ans \in Seq(Calls)
    BY <2>1
  <2> HIDE DEF ans
  <2>3. /\ n \in 0..Len(ans) /\ response'[c] = SubSeq(ans, n + 1, Len(ans))
        /\ request'[c] = (IF n = Len(ans) THEN <<>> ELSE Req(c))
        /\ UNCHANGED <<sources, ended>>
    <3>1. c \in Conns /\ TypeOK /\ n \in Nat /\ Calls \in SUBSET Calls
      BY <1>1
    <3>2. Req(c) \in Seq(Calls) /\ ans \in Seq(Calls) /\ Writes(c, Req(c), ans, n)
      BY <1>4, <2>2
    <3>3. QED
      BY <3>1, <3>2, WritesOne, SMTT(60)
  <2>4. response'[c] = <<>> => request'[c] = <<>>
    BY <2>2, <2>3, Split
  <2>5. /\ toServer'[c] = <<>> /\ response[c] = <<>> /\ Len(Req(c)) = RequestLen
    BY <1>1, <1>7 DEF Executes, TypeOK
  <2>6. k \in Asking(c)
    <3>1. Len(Req(c)) \in DOMAIN Req(c)
      BY <1>4, <2>5 DEF RequestLen
    <3>2. QED
      BY <1>4, <2>1, <3>1 DEF Last, Range
  <2>7. Asking(c)' = Range(request'[c])
    BY <1>3, <2>5 DEF Asking
  <2>8. Asking(c)' \subseteq Asking(c)
    BY <1>3, <1>4, <2>3, <2>7
  <2>9. c = fd => connectionState # "WRITE_REQUEST"
    BY <1>1, <1>7, ExecutesWhole DEF LifeInv
  <2>10. response'[c] # <<>> \/ Asking(c)' = {}
    BY <1>3, <2>4, <2>7
  <2>11. QED
    BY <2>1, <2>3, <2>5, <2>6, <2>8, <2>9, <2>10
<1>8. CASE Reads(c)
  <2>1. /\ toServer'[c] = <<>> /\ request'[c] = Req(c) /\ response[c] = <<>> /\ c = fd
        /\ UNCHANGED <<executed, sources, ended, response, toClient>>
    BY <1>1, <1>8 DEF Reads, TypeOK
  <2>2. Asking(c)' = Range(request'[c])
    BY <1>3, <2>1 DEF Asking
  <2>3. QED
    BY <1>4, <2>1, <2>2
<1>9. QED
  BY <1>5, <1>6, <1>7, <1>8, HandleCases

\* The calls of a connection are calls.
LEMMA AskingTyped ==
    ASSUME TypeOK
    PROVE  \A c \in Conns : Asking(c) \subseteq Calls
<1> SUFFICES ASSUME NEW c \in Conns PROVE Asking(c) \subseteq Calls
  OBVIOUS
<1>1. toServer[c] \in Seq(Calls) /\ request[c] \in Seq(Calls)
  BY DEF TypeOK, Pieces
<1>2. QED
  BY <1>1, RangeOfSeq DEF Asking

\* A connection that is dropped is the server's no more; only the client's own matters to it.
LEMMA LifeDrops ==
    ASSUME LifeInv, IInv', NEW i \in DOMAIN sources, Drops(i), Handles(i),
           \A d \in Conns \ {sources[i]} : /\ toServer'[d] = toServer[d]
                                           /\ request'[d] = request[d]
    PROVE  LifeInv'
<1> DEFINE c == sources[i]
<1>1. /\ UNCHANGED <<connectionState, fd, call, opened, backlog, running, crashes, response, executed>>
      /\ IInv /\ LiveInv /\ AskInv /\ RecordInv /\ OncePerLife
      /\ sources' = RemoveAt(sources, i) /\ ended' = [ended EXCEPT ![c] = "fin"] /\ c # fd
      /\ toServer' = toServer \/ toServer' = [toServer EXCEPT ![c] = <<>>]
  BY DEF Handles, client, LifeInv, Drops, Dropped
<1>2. /\ Live \subseteq 1..opened /\ 1..opened \subseteq Conns /\ opened \in Nat
      /\ sources \in Seq(1..opened) /\ c \in Range(sources) /\ c \in Live /\ c \in Conns
      /\ Range(sources) \subseteq Nat /\ 1..opened \in SUBSET Nat
  <2>1. Live \subseteq 1..opened /\ 1..opened \subseteq Conns /\ opened \in Nat
    BY LiveOpened DEF LifeInv
  <2>2. sources \in Seq(1..opened) /\ c \in Range(sources)
    BY DEF LifeInv, IInv, ConnInv, Range
  <2>3. Range(sources) \subseteq Live
    BY DEF Live
  <2> HIDE DEF c
  <2>4. 1..opened \in SUBSET Nat
    BY <2>1
  <2>5. QED
    BY <2>1, <2>2, <2>3, <2>4
<1>3. Increasing(sources') /\ Range(sources') = Range(sources) \ {c}
  BY <1>1, <1>2, IncreasingRemove DEF LiveInv
<1>4. c \notin Range(backlog)
  <2>1. ~(c < c)
    BY <1>2
  <2>2. QED
    BY <1>1, <1>2, <2>1 DEF LiveInv
<1> HIDE DEF c
<1>5. Live' = Live \ {c}
  BY <1>1, <1>3, <1>4 DEF Live
<1>6. LiveInv'
  <2>1. \A d \in Conns : d # c => ended'[d] = ended[d]
    BY <1>1 DEF IInv, TypeOK
  <2>2. \A d \in Conns : d > opened => d # c
    BY <1>2 DEF Conns
  <2>3. Increasing(backlog)' /\ Increasing(sources)'
    BY <1>1, <1>3 DEF LiveInv, Increasing
  <2>4. QED
    BY <1>1, <1>2, <1>3, <1>5, <2>1, <2>2, <2>3 DEF LiveInv
<1>7. /\ \A d \in Conns \ {c} : Asking(d)' = Asking(d)
      /\ \A k : Executed(k)' = Executed(k)
  BY <1>1 DEF Asking, Executed, c
<1>8. AskInv'
  <2>1. \A d \in Conns : response'[d] # <<>> => toServer'[d] = <<>>
    BY <1>1 DEF AskInv, IInv, TypeOK
  <2>2. \A d \in Live' : d \in Live /\ d \in Conns \ {c}
    BY <1>2, <1>5
  <2>3. QED
    BY <1>1, <1>7, <2>1, <2>2 DEF AskInv
<1>9. RecordInv' /\ OncePerLife'
  <2>1. fd \in Conns => ended'[fd] = ended[fd]
    BY <1>1 DEF IInv, TypeOK
  <2>2. fd # 0 => fd \in Conns
    BY <1>1 DEF IInv, TypeOK
  <2>3. QED
    BY <1>1, <1>7, <2>1, <2>2 DEF RecordInv, OncePerLife
<1>10. QED
  BY <1>1, <1>6, <1>8, <1>9 DEF LifeInv

\* handleEvent executes only what has not been executed in this life.
LEMMA LifeHandle ==
    ASSUME LifeInv, NEW i \in DOMAIN sources, NEW n \in 0..AnswerLen, HandleEvent(i, n)
    PROVE  LifeInv'
<1>0. PICK c : c = sources[i]
  OBVIOUS
<1>1. IInv'
  BY HandleKeeps DEF LifeInv
<1>2. /\ UNCHANGED <<connectionState, fd, call, opened, backlog, running, crashes>>
      /\ IInv /\ LiveInv /\ AskInv /\ RecordInv /\ OncePerLife
  BY HandleCases DEF Handles, client, LifeInv
<1>3. /\ \A d \in Conns \ {c} : Asking(d)' = Asking(d) /\ response'[d] = response[d]
                                /\ toServer'[d] = toServer[d]
      /\ c \in 1..opened
  BY <1>0, HandleFrame DEF LifeInv, IInv, Asking
<1>4. /\ Live \subseteq 1..opened /\ 1..opened \subseteq Conns /\ opened \in Nat
      /\ sources \in Seq(1..opened) /\ c \in Range(sources) /\ c \in Live /\ c \in Conns
  BY <1>0, <1>3, LiveOpened DEF LifeInv, IInv, ConnInv, Range, Live
<1>5. /\ Drops(i) \/ (sources' = sources /\ ended' = ended /\ Asking(c)' \subseteq Asking(c))
      /\ response'[c] # <<>> => toServer'[c] = <<>>
      /\ \/ /\ executed' = executed
            /\ Drops(i) \/ response[c] = <<>> \/ response'[c] # <<>> \/ Asking(c)' = {}
         \/ \E k \in Asking(c) :
              /\ response[c] = <<>> /\ Len(Req(c)) = RequestLen
              /\ executed' = Append(executed, [call |-> k, life |-> crashes])
              /\ response'[c] # <<>> \/ Asking(c)' = {}
              /\ c = fd => connectionState # "WRITE_REQUEST"
  BY <1>0, HandleAsks
<1>6. CASE Drops(i)
  <2>1. Handles(i)
    BY HandleCases
  <2>2. \A d \in Conns \ {sources[i]} : toServer'[d] = toServer[d] /\ request'[d] = request[d]
    BY HandleFrame DEF LifeInv, IInv
  <2>3. QED
    BY <1>1, <1>6, <2>1, <2>2, LifeDrops
<1>7. CASE ~Drops(i)
  <2>1. sources' = sources /\ ended' = ended /\ Asking(c)' \subseteq Asking(c)
    BY <1>5, <1>7
  <2>2. Live' = Live
    BY <1>2, <2>1 DEF Live
  <2>3. LiveInv'
    BY <1>2, <2>1, <2>2 DEF LiveInv, Increasing
  <2>4. \A d \in Conns : Asking(d)' \subseteq Asking(d)
    BY <1>3, <2>1
  <2>5. CASE /\ executed' = executed
             /\ response[c] = <<>> \/ response'[c] # <<>> \/ Asking(c)' = {}
    <3>1. \A k : Executed(k)' = Executed(k)
      BY <1>2, <2>5 DEF Executed
    <3>2. AskInv'
      <4>1. \A d \in Live' : response'[d] = <<>> => \A k \in Asking(d)' : ~Executed(k)'
        BY <1>2, <1>3, <1>4, <2>2, <2>4, <2>5, <3>1 DEF AskInv
      <4>2. QED
        BY <1>2, <1>3, <1>4, <1>5, <2>2, <2>4, <4>1 DEF AskInv
    <3>3. RecordInv' /\ OncePerLife'
      BY <1>2, <2>1, <2>5, <3>1 DEF RecordInv, OncePerLife
    <3>4. QED
      BY <1>1, <2>3, <3>2, <3>3 DEF LifeInv
  <2>6. ASSUME NEW k \in Asking(c),
               response[c] = <<>>,
               executed' = Append(executed, [call |-> k, life |-> crashes]),
               response'[c] # <<>> \/ Asking(c)' = {},
               c = fd => connectionState # "WRITE_REQUEST"
        PROVE  LifeInv'
    <3>1. /\ executed \in Seq([call : Calls, life : 0..MaxCrashes])
          /\ Len(executed) \in Nat /\ DOMAIN executed = 1..Len(executed)
      BY RecordTyped, <1>2 DEF IInv
    <3>2. ~Executed(k)
      BY <1>2, <1>4, <2>6 DEF AskInv
    <3>3. k \in Calls /\ crashes \in 0..MaxCrashes
      BY <1>2, <1>4, <2>6, AskingTyped DEF IInv, TypeOK
    <3>4. /\ Len(executed') = Len(executed) + 1 /\ DOMAIN executed' = 1..(Len(executed) + 1)
          /\ \A e \in DOMAIN executed : executed'[e] = executed[e]
          /\ executed'[Len(executed) + 1] = [call |-> k, life |-> crashes]
      BY <2>6, <3>1, <3>3, AppendProperties
    <3>5. \A x : Executed(x)' => Executed(x) \/ x = k
      <4> SUFFICES ASSUME NEW x, NEW e \in DOMAIN executed',
                          executed'[e] = [call |-> x, life |-> crashes]
                   PROVE  Executed(x) \/ x = k
        BY <1>2 DEF Executed
      <4>1. CASE e = Len(executed) + 1
        BY <3>4, <4>1
      <4>2. CASE e # Len(executed) + 1
        <5>1. e \in DOMAIN executed
          BY <3>1, <3>4, <4>2
        <5>2. QED
          BY <3>4, <5>1 DEF Executed
      <4>3. QED
        BY <4>1, <4>2
    <3>6. OncePerLife'
      <4>1. \A e \in DOMAIN executed : executed[e] # [call |-> k, life |-> crashes]
        BY <3>2 DEF Executed
      <4>2. QED
        BY <1>2, <3>1, <3>4, <4>1 DEF OncePerLife
    <3>7. AskInv'
      <4>1. ASSUME NEW d \in Live, response'[d] = <<>>, NEW x \in Asking(d)'
            PROVE  ~Executed(x)'
        <5>1. d # c /\ d \in Conns
          BY <1>4, <2>6, <4>1
        <5>2. x \in Asking(d) /\ response[d] = <<>>
          BY <1>3, <4>1, <5>1
        <5>3. ~Executed(x)
          BY <1>2, <5>2 DEF AskInv
        <5>4. x # k
          <6>1. k \in Calls /\ x \in Calls /\ Calls \subseteq Nat
            <7>1. Asking(c) \subseteq Calls /\ Asking(d) \subseteq Calls
              BY <1>2, <1>4, <5>1, AskingTyped DEF IInv
            <7>2. QED
              BY <2>6, <5>2, <7>1 DEF Calls
          <6>2. c < d \/ d < c
            BY <1>4, <5>1
          <6>3. k < x \/ x < k
            BY <1>2, <1>4, <2>6, <5>2, <6>2 DEF AskInv
          <6>4. QED
            BY <6>1, <6>3
        <5>5. QED
          BY <3>5, <5>3, <5>4
      <4>2. QED
        BY <1>2, <1>3, <1>4, <1>5, <2>2, <2>4, <4>1 DEF AskInv
    <3>8. RecordInv'
      <4>1. k <= call /\ (c # fd => k # call)
        <5>1. k \in Nat /\ call \in Nat
          BY <1>2, <3>3 DEF IInv, TypeOK, Calls
        <5>2. CASE c # fd
          <6>1. k < call
            BY <1>2, <1>4, <2>6, <5>2 DEF AskInv
          <6>2. QED
            BY <5>1, <6>1
        <5>3. CASE c = fd
          <6>1. fd # 0 /\ request[fd] \in Seq({call}) /\ toServer[fd] \in Seq({call})
            BY <1>2, <1>4, <5>3 DEF IInv, TalkInv, Conns
          <6>2. Asking(c) \subseteq {call}
            BY <5>3, <6>1, RangeOfSeq DEF Asking
          <6>3. k = call
            BY <2>6, <6>2
          <6>4. QED
            BY <5>1, <5>3, <6>3
        <5>4. QED
          BY <5>2, <5>3
      <4>2. \A e \in DOMAIN executed' : executed'[e].call <= call /\ executed'[e].life <= crashes
        <5> SUFFICES ASSUME NEW e \in DOMAIN executed'
                     PROVE  executed'[e].call <= call /\ executed'[e].life <= crashes
          OBVIOUS
        <5>1. CASE e = Len(executed) + 1
          BY <3>3, <3>4, <4>1, <5>1, BoundsAssumption
        <5>2. CASE e # Len(executed) + 1
          <6>1. e \in DOMAIN executed
            BY <3>1, <3>4, <5>2
          <6>2. QED
            BY <1>2, <3>4, <6>1 DEF RecordInv
        <5>3. QED
          BY <5>1, <5>2
      <4>3. ended[c] = "no"
        BY <1>2, <1>4 DEF LiveInv
      <4>4. Executed(call)' => Executed(call) \/ c = fd
        BY <1>2, <3>5, <4>1
      <4>5. QED
        BY <1>2, <2>1, <2>6, <4>2, <4>3, <4>4 DEF RecordInv
    <3>9. QED
      BY <1>1, <2>3, <3>6, <3>7, <3>8 DEF LifeInv
  <2>7. QED
    BY <1>5, <1>7, <2>5, <2>6
<1>8. QED
  BY <1>6, <1>7

-----------------------------------------------------------------------------
\* Every step keeps the order of the connections and what has been executed.
LEMMA LifeKept == LifeInv /\ [Next]_vars => LifeInv'
<1> SUFFICES ASSUME LifeInv, [Next]_vars PROVE LifeInv'
  OBVIOUS
<1>1. IInv'
  BY StepKeeps DEF LifeInv
<1>2. CASE WriteFails \/ ReadAnswer \/ GiveUp \/ TimedOut \/ Return \/ Select
  <2>1. UNCHANGED <<sources, backlog, ended, running, toServer, request, response, executed,
                    crashes, fd, call, opened>>
    BY <1>2 DEF WriteFails, ReadAnswer, GiveUp, TimedOut, Return, Select, server, client
  <2>2. connectionState' = "WRITE_REQUEST" => connectionState = "WRITE_REQUEST"
    BY <1>2 DEF WriteFails, ReadAnswer, GiveUp, TimedOut, Return, Select, client
  <2>3. QED
    BY <1>1, <2>1, <2>2, LifeStill
<1>3. CASE Execute \/ Retry \/ \E n \in 1..RequestLen : WriteRequest(n)
  BY <1>3, LifeExecute, LifeRetry, LifeWrite
<1>4. CASE Accept \/ Crash \/ Restart
  BY <1>4, LifeAccept, LifeCrash, LifeRestart
<1>5. CASE \E i \in DOMAIN sources, n \in 0..AnswerLen : HandleEvent(i, n)
  BY <1>5, LifeHandle
<1>6. CASE UNCHANGED vars
  BY <1>1, <1>6, LifeStill DEF vars, client, server
<1>7. QED
  BY <1>2, <1>3, <1>4, <1>5, <1>6 DEF Next, Client, Server

\* At first there is no connection.
LEMMA LifeBegins == Init => LifeInv
<1> SUFFICES ASSUME Init PROVE LifeInv
  OBVIOUS
<1>1. IInv
  BY InitHolds
<1>2. /\ sources = <<>> /\ backlog = <<>> /\ executed = <<>> /\ Range(<<>>) = {}
      /\ call = 0 /\ fd = 0 /\ connectionState = "NO_CONNECTION" /\ DOMAIN <<>> = {}
      /\ response = [c \in Conns |-> <<>>] /\ ended = [c \in Conns |-> "no"]
  BY DEF Init, Range
<1>3. Live = {}
  BY <1>2 DEF Live
<1>4. LiveInv /\ AskInv
  BY <1>2, <1>3 DEF LiveInv, AskInv, Increasing
<1>5. RecordInv /\ OncePerLife
  BY <1>2 DEF RecordInv, OncePerLife
<1>6. QED
  BY <1>1, <1>4, <1>5 DEF LifeInv

\* The connections in their order and the requests that can be executed.
THEOREM InOrder == FairSpec => []LifeInv
<1>1. Init => LifeInv
  BY LifeBegins
<1>2. LifeInv /\ [Next]_vars => LifeInv'
  BY LifeKept
<1>3. QED
  BY <1>1, <1>2, PTL DEF FairSpec

\* The retry, and whatever an earlier call has left of its request on a connection, make the
\* server execute no request twice in one of its lives.
THEOREM ExecutedOncePerLife == FairSpec => []OncePerLife
BY InOrder, PTL DEF LifeInv

-----------------------------------------------------------------------------
(* Why a call fails.                                                       *)
(*                                                                         *)
(* As long as nothing has happened that may fail the call, the client's    *)
(* connection is open at the server's end; or the server closed it between *)
(* two calls and the first write has shown that, so that the one retry is  *)
(* still to come.                                                          *)

\* The calls that may fail.
Pardoned == excused \cup halved

USE DEF Pardoned

\* The call may still succeed.
Hopeful ==
    \/ /\ connectionState = "WRITE_REQUEST"
       /\ ended[fd] = "no" \/ (ended[fd] = "fin" /\ bytesWritten = 0 /\ sendAttempts = 0)
    \/ /\ connectionState = "READ_HEADER"
       /\ \/ ended[fd] = "no"
          \/ ended[fd] = "rst" /\ toClient[fd] = <<>> /\ received = <<>> /\ sendAttempts = 0
    \/ connectionState = "READ_RESPONSE" /\ ended[fd] = "no"
    \/ connectionState = "IDLE"

ExcuseInv ==
    /\ FailsForACause
    /\ executing => Hopeful \/ call \in Pardoned
    /\ executing /\ ~monitored => connectionState = "IDLE" \/ call \in Pardoned
    /\ connectionState = "IDLE" => ended[fd] # "rst"

CauseInv == LifeInv /\ ExcuseInv

\* The call that ends is the last one; those before keep their results and excuses.
LEMMA EndsForACause ==
    ASSUME TypeOK, CountInv, FailsForACause, executing,
           NEW r \in {<<>>, <<call>>}, result' = Append(result, r),
           Pardoned \subseteq Pardoned', r = <<>> => call \in Pardoned'
    PROVE  FailsForACause'
<1> DEFINE R == {<<>>} \cup {<<n>> : n \in Calls}
<1>1. call \in Calls /\ Len(result) = call - 1
  BY BoundsAssumption DEF TypeOK, CountInv, Calls
<1>2. r \in R
  <2>1. <<call>> \in R
    BY <1>1
  <2>2. QED
    BY <2>1
<1>3. result \in Seq(R)
  BY DEF TypeOK
<1> HIDE DEF R
<1>4. /\ result' \in Seq(R) /\ Len(result') = call /\ result'[call] = r
      /\ \A n \in 1..(call - 1) : result'[n] = result[n]
  BY <1>1, <1>2, <1>3, AppendProperties DEF Calls
<1>5. SUFFICES ASSUME NEW n \in DOMAIN result', result'[n] = <<>> PROVE n \in Pardoned'
  BY DEF FailsForACause
<1>6. CASE n = call
  BY <1>4, <1>5, <1>6
<1>7. CASE n # call
  <2>1. n \in 1..(call - 1) /\ n \in DOMAIN result
    BY <1>1, <1>3, <1>4, <1>5, <1>7 DEF Calls
  <2>2. QED
    BY <1>4, <1>5, <2>1 DEF FailsForACause
<1>8. QED
  BY <1>6, <1>7

\* A call begins on a new connection or on one that is open, or was closed in between.
LEMMA CauseExecute == CauseInv /\ Execute => ExcuseInv'
<1> SUFFICES ASSUME CauseInv, Execute PROVE ExcuseInv'
  OBVIOUS
<1>1. /\ TypeOK /\ CountInv /\ ConnInv /\ LiveInv /\ ExcuseInv
  BY DEF CauseInv, LifeInv, IInv
<1>2. /\ executing' /\ sendAttempts' = 0 /\ UNCHANGED result /\ Pardoned \subseteq Pardoned'
  BY DEF Execute
<1>3. FailsForACause'
  BY <1>1, <1>2 DEF ExcuseInv, FailsForACause
<1>4. CASE (MustClose \/ connectionState = "NO_CONNECTION") /\ Connected
  <2>1. connectionState' = "WRITE_REQUEST" /\ monitored'
    BY <1>4 DEF Connected, Prepared
  <2>2. ~running => call' \in Pardoned'
    BY <1>4 DEF Execute, Connected, NotConnected, Prepared
  <2>3. running => ended'[fd'] = "no"
    <3>1. opened + 1 \in Conns /\ opened + 1 > opened
      BY <1>1, BoundsAssumption DEF Execute, TypeOK, CountInv, Conns
    <3>2. ended[opened + 1] = "no"
      BY <1>1, <3>1 DEF LiveInv
    <3>3. QED
      BY <1>4, <3>2 DEF Connected
  <2>4. QED
    BY <1>2, <1>3, <2>1, <2>2, <2>3 DEF ExcuseInv, Hopeful
<1>5. CASE (MustClose \/ connectionState = "NO_CONNECTION") /\ NotConnected
  <2>1. connectionState' = "NO_CONNECTION" /\ call' \in Pardoned'
    BY <1>5 DEF Execute, Connected, NotConnected, Prepared
  <2>2. QED
    BY <1>2, <1>3, <2>1 DEF ExcuseInv
<1>6. CASE ~(MustClose \/ connectionState = "NO_CONNECTION")
  <2>1. Prepared /\ UNCHANGED <<fd, ended>> /\ connectionState = "IDLE"
    BY <1>6 DEF Execute, MustClose
  <2>2. fd \in Conns
    BY <1>1, <2>1 DEF ConnInv, TypeOK
  <2>3. ended[fd] \in {"no", "fin"}
    BY <1>1, <2>1, <2>2 DEF ExcuseInv, TypeOK
  <2>4. Hopeful' /\ monitored' /\ connectionState' = "WRITE_REQUEST"
    BY <1>2, <2>1, <2>3 DEF Hopeful, Prepared
  <2>5. QED
    BY <1>3, <2>4 DEF ExcuseInv
<1>7. QED
  BY <1>4, <1>5, <1>6 DEF Execute

\* The write that meets a closed connection is the whole request, or an excuse.
LEMMA CauseWrite ==
    ASSUME CauseInv, NEW n \in 1..RequestLen, WriteRequest(n)
    PROVE  ExcuseInv'
<1>1. /\ TypeOK /\ ConnInv /\ TalkInv /\ ExcuseInv
  BY DEF CauseInv, LifeInv, IInv
<1>2. /\ connectionState = "WRITE_REQUEST" /\ executing /\ monitored /\ fd \in Conns /\ fd # 0
      /\ ended[fd] # "rst" /\ toClient[fd] = <<>>
  BY <1>1 DEF WriteRequest, Working, ConnInv, TypeOK, TalkInv, Asked, Answered
<1>3. /\ UNCHANGED <<fd, sendAttempts, monitored, executing, call, result, toClient>>
      /\ Pardoned \subseteq Pardoned'
      /\ ended' = [ended EXCEPT ![fd] = IF @ = "fin" THEN "rst" ELSE @]
  BY DEF WriteRequest, Excuse
<1>4. ended'[fd] = IF ended[fd] = "fin" THEN "rst" ELSE ended[fd]
  BY <1>1, <1>2, <1>3 DEF TypeOK
<1>5. FailsForACause'
  BY <1>1, <1>3 DEF ExcuseInv, FailsForACause
<1>6. CASE call \in Pardoned
  BY <1>2, <1>3, <1>5, <1>6 DEF ExcuseInv, WriteRequest
<1>7. CASE call \notin Pardoned
  <2>1. ended[fd] = "no" \/ (ended[fd] = "fin" /\ sendAttempts = 0)
    BY <1>1, <1>2, <1>7 DEF ExcuseInv, Hopeful
  <2>2. CASE bytesWritten' = RequestLen
    <3>1. received' = <<>> /\ connectionState' = "READ_HEADER"
      BY <2>2 DEF WriteRequest, Cleared
    <3>2. ended'[fd] = "no" \/ (ended'[fd] = "rst" /\ sendAttempts' = 0)
      BY <1>3, <1>4, <2>1
    <3>3. QED
      BY <1>2, <1>3, <1>5, <3>1, <3>2 DEF ExcuseInv, Hopeful
  <2>3. CASE bytesWritten' # RequestLen
    <3>1. connectionState' = "WRITE_REQUEST" /\ (ended[fd] = "fin" => call \in Pardoned')
      BY <1>2, <2>3 DEF WriteRequest, Excuse
    <3>2. ended[fd] = "no" => ended'[fd] = "no"
      BY <1>4
    <3>3. QED
      BY <1>2, <1>3, <1>5, <2>1, <3>1, <3>2 DEF ExcuseInv, Hopeful
  <2>4. QED
    BY <2>2, <2>3
<1>8. QED
  BY <1>6, <1>7

\* There is nothing to read of an answer only if the server's end has been closed.
LEMMA NoAnswerEnds ==
    ASSUME CauseInv, Reading, NoAnswer
    PROVE  /\ executing /\ connectionState = "READ_HEADER"
           /\ (ended[fd] = "rst" /\ sendAttempts = 0) \/ call \in Pardoned
<1>1. /\ TypeOK /\ ConnInv /\ TalkInv /\ ExcuseInv
  BY DEF CauseInv, LifeInv, IInv
<1>2. /\ connectionState = "READ_HEADER" /\ executing /\ fd # 0
      /\ ended[fd] # "no" \/ toClient[fd] # <<>>
  BY <1>1 DEF NoAnswer, Reading, Working, Readable, ConnInv
<1>3. toClient[fd] = <<>>
  <2>1. received \in Seq({call}) /\ toClient[fd] \in Seq({call})
    BY <1>1, <1>2 DEF TalkInv
  <2>2. QED
    BY <2>1, ConcatSimplifications DEF NoAnswer, Got
<1>4. QED
  BY <1>1, <1>2, <1>3 DEF ExcuseInv, Hopeful

\* What is read of an answer comes from an open connection.
LEMMA CauseRead == CauseInv /\ ReadAnswer => ExcuseInv'
<1> SUFFICES ASSUME CauseInv, ReadAnswer PROVE ExcuseInv'
  OBVIOUS
<1>1. /\ TypeOK /\ ConnInv /\ TalkInv /\ ExcuseInv
  BY DEF CauseInv, LifeInv, IInv
<1>2. /\ UNCHANGED <<fd, ended, executing, call, result, excused, halved, sendAttempts>>
      /\ executing /\ connectionState \in {"READ_HEADER", "READ_RESPONSE"} /\ fd # 0
      /\ connectionState' \in {"READ_HEADER", "READ_RESPONSE", "IDLE"}
      /\ connectionState' = "IDLE" => ended[fd] # "rst"
  BY <1>1 DEF ReadAnswer, Reading, Working, ConnInv
<1>6. monitored' <=> connectionState' # "IDLE" /\ ended[fd] = "no"
  BY Zenon DEF ReadAnswer, KeepsReading
<1>3. FailsForACause'
  BY <1>1, <1>2 DEF ExcuseInv, FailsForACause
<1>4. ended[fd] = "no" \/ call \in Pardoned
  <2>1. ~(ended[fd] = "rst" /\ connectionState = "READ_HEADER" /\ toClient[fd] = <<>> /\ received = <<>>)
    BY DEF ReadAnswer, NoAnswer, Got
  <2>2. QED
    BY <1>1, <1>2, <2>1 DEF ExcuseInv, Hopeful
<1>5. QED
  BY <1>2, <1>6, <1>3, <1>4 DEF ExcuseInv, Hopeful

\* The retry opens a connection, which is open if the server runs.
LEMMA CauseRetry == CauseInv /\ Retry => ExcuseInv'
<1> SUFFICES ASSUME CauseInv, Retry PROVE ExcuseInv'
  OBVIOUS
<1>1. /\ TypeOK /\ CountInv /\ ConnInv /\ LiveInv /\ ExcuseInv
  BY DEF CauseInv, LifeInv, IInv
<1>2. /\ UNCHANGED <<executing, call, result>> /\ executing /\ sendAttempts = 0
      /\ Pardoned \subseteq Pardoned'
  BY DEF Retry, Reading, Working, MayRetry, Excuse
<1>3. FailsForACause'
  BY <1>1, <1>2 DEF ExcuseInv, FailsForACause
<1>4. CASE Connected /\ IF running THEN UNCHANGED excused ELSE Excuse
  <2>1. connectionState' = "WRITE_REQUEST" /\ monitored'
    BY <1>4 DEF Connected, Prepared
  <2>2. ~running => call' \in Pardoned'
    BY <1>2, <1>4 DEF Excuse
  <2>3. running => ended'[fd'] = "no"
    <3>1. opened + 1 \in Conns /\ opened + 1 > opened
      BY <1>1, <1>2, BoundsAssumption DEF TypeOK, CountInv, Conns
    <3>2. ended[opened + 1] = "no"
      BY <1>1, <3>1 DEF LiveInv
    <3>3. QED
      BY <1>4, <3>2 DEF Connected
  <2>4. QED
    BY <1>2, <1>3, <2>1, <2>2, <2>3 DEF ExcuseInv, Hopeful
<1>5. CASE NotConnected /\ Excuse
  BY <1>2, <1>3, <1>5 DEF ExcuseInv, NotConnected, Excuse
<1>6. QED
  BY <1>4, <1>5 DEF Retry

\* The dispatcher loses the client: it has written to a reset connection, or retried before.
LEMMA CauseStops == CauseInv /\ (WriteFails \/ GiveUp) => ExcuseInv'
<1> SUFFICES ASSUME CauseInv, WriteFails \/ GiveUp PROVE ExcuseInv'
  OBVIOUS
<1>1. ExcuseInv
  BY DEF CauseInv
<1>2. /\ UNCHANGED <<connectionState, fd, ended, executing, call, result, excused, halved>>
      /\ connectionState # "IDLE" /\ executing
  BY DEF WriteFails, GiveUp, Reading, Working
<1>3. call \in Pardoned
  <2>1. CASE WriteFails
    BY <1>1, <2>1 DEF ExcuseInv, Hopeful, WriteFails, Working
  <2>2. CASE GiveUp
    BY <2>2, NoAnswerEnds DEF GiveUp, MayRetry
  <2>3. QED
    BY <2>1, <2>2
<1>4. QED
  BY <1>1, <1>2, <1>3 DEF ExcuseInv, FailsForACause

\* A call that ends has an answer or an excuse.
LEMMA CauseEnds == CauseInv /\ (TimedOut \/ Return) => ExcuseInv'
<1> SUFFICES ASSUME CauseInv, TimedOut \/ Return PROVE ExcuseInv'
  OBVIOUS
<1>1. IInv /\ TypeOK /\ CountInv /\ ConnInv /\ TalkInv /\ ExcuseInv
  BY DEF CauseInv, LifeInv, IInv
<1>2. /\ ~executing' /\ executing /\ UNCHANGED <<connectionState, fd, ended>>
      /\ Pardoned \subseteq Pardoned'
  BY DEF TimedOut, Return, Working, Excuse
<1>3. FailsForACause'
  <2>1. CASE TimedOut
    <3>1. result' = Append(result, <<>>) /\ call \in Pardoned'
      BY <2>1 DEF TimedOut, Excuse
    <3>2. QED
      BY <1>1, <1>2, <3>1, EndsForACause DEF ExcuseInv
  <2>2. CASE Return /\ connectionState = "IDLE"
    <3>1. received \in Seq({call}) /\ received # <<>>
      <4>1. received \in Seq({call}) /\ Len(received) = AnswerLen
        BY <1>1, <2>2 DEF TalkInv, ConnInv
      <4>2. QED
        BY <4>1 DEF AnswerLen
    <3>2. result' = Append(result, <<call>>)
      BY <2>2, <3>1, LastPiece DEF Return
    <3>3. QED
      BY <1>1, <1>2, <3>2, EndsForACause DEF ExcuseInv
  <2>3. CASE Return /\ connectionState # "IDLE"
    <3>1. result' = Append(result, <<>>) /\ call \in Pardoned'
      BY <1>1, <1>2, <2>3 DEF Return, ExcuseInv
    <3>2. QED
      BY <1>1, <1>2, <3>1, EndsForACause DEF ExcuseInv
  <2>4. QED
    BY <2>1, <2>2, <2>3
<1>4. QED
  BY <1>1, <1>2, <1>3 DEF ExcuseInv

\* A stop of the server excuses the call under way; a connection between two calls carries
\* nothing the server has not read, and is closed in good order.
LEMMA CauseCrash == CauseInv /\ Crash => ExcuseInv'
<1> SUFFICES ASSUME CauseInv, Crash PROVE ExcuseInv'
  OBVIOUS
<1>1. /\ TypeOK /\ ConnInv /\ TalkInv /\ ExcuseInv
  BY DEF CauseInv, LifeInv, IInv
<1>2. /\ UNCHANGED <<connectionState, fd, executing, call, result, monitored>>
      /\ Pardoned \subseteq Pardoned'
      /\ executing => call \in Pardoned'
  BY DEF Crash, client, Excuse
<1>3. FailsForACause'
  BY <1>1, <1>2 DEF ExcuseInv, FailsForACause
<1>4. ASSUME connectionState = "IDLE" PROVE ended'[fd] # "rst"
  <2>1. fd \in Conns /\ toServer[fd] = <<>> /\ ended[fd] # "rst"
    BY <1>1, <1>4 DEF ConnInv, TypeOK, TalkInv, Quiet, ExcuseInv
  <2>2. QED
    BY <2>1 DEF Crash
<1>5. QED
  BY <1>2, <1>3, <1>4 DEF ExcuseInv

\* The server closes only connections the client has left, and answers only on open ones.
LEMMA CauseHandle ==
    ASSUME CauseInv, NEW i \in DOMAIN sources, NEW n \in 0..AnswerLen, HandleEvent(i, n)
    PROVE  ExcuseInv'
<1>1. /\ IInv /\ TypeOK /\ ConnInv /\ LiveInv /\ ExcuseInv /\ LifeInv
  BY DEF CauseInv, LifeInv, IInv
<1>2. /\ UNCHANGED <<connectionState, fd, executing, call, result, monitored, excused, halved,
                     bytesWritten, sendAttempts, received>>
  BY HandleCases DEF Handles, client
<1>0. PICK c : c = sources[i]
  OBVIOUS
<1>3. c \in Conns /\ ended[c] = "no"
  <2>1. c \in Live
    BY <1>0 DEF Live, Range
  <2>2. QED
    BY <1>1, <2>1, LiveOpened DEF LiveInv
<1>4. ASSUME fd # 0
      PROVE  ended'[fd] = ended[fd] /\ (ended[fd] = "rst" => toClient'[fd] = toClient[fd])
  <2>1. fd \in Conns
    BY <1>1, <1>4 DEF TypeOK
  <2>2. ended'[fd] = ended[fd]
    <3>1. CASE Drops(i)
      BY <1>1, <2>1, <3>1 DEF Drops, Dropped, TypeOK
    <3>2. CASE ~Drops(i)
      BY <1>0, <1>1, <3>2, HandleAsks
    <3>3. QED
      BY <3>1, <3>2
  <2>3. ended[fd] = "rst" => fd \in Conns \ {c}
    BY <1>3, <2>1
  <2>4. QED
    BY <1>0, <1>1, <2>2, <2>3, HandleFrame
<1>5. FailsForACause'
  BY <1>1, <1>2 DEF ExcuseInv, FailsForACause
<1>6. connectionState \in {"WRITE_REQUEST", "READ_HEADER", "READ_RESPONSE", "IDLE"} => fd # 0
  BY <1>1 DEF ConnInv
<1>7. Hopeful => Hopeful'
  BY <1>2, <1>4, <1>6 DEF Hopeful
<1>8. QED
  BY <1>1, <1>2, <1>4, <1>5, <1>6, <1>7 DEF ExcuseInv

\* The calls that failed and their excuses.
THEOREM Excused == FairSpec => []CauseInv
<1>1. Init => CauseInv
  <2> SUFFICES ASSUME Init PROVE CauseInv
    OBVIOUS
  <2>1. LifeInv
    BY LifeBegins
  <2>2. ExcuseInv
    BY DEF Init, ExcuseInv, FailsForACause
  <2>3. QED
    BY <2>1, <2>2 DEF CauseInv
<1>2. CauseInv /\ [Next]_vars => CauseInv'
  <2> SUFFICES ASSUME CauseInv, [Next]_vars PROVE CauseInv'
    OBVIOUS
  <2>1. LifeInv'
    BY LifeKept DEF CauseInv
  <2>2. CASE Execute \/ \E n \in 1..RequestLen : WriteRequest(n)
    BY <2>1, <2>2, CauseExecute, CauseWrite DEF CauseInv
  <2>3. CASE ReadAnswer \/ Retry \/ WriteFails \/ GiveUp \/ TimedOut \/ Return \/ Crash
    BY <2>1, <2>3, CauseRead, CauseRetry, CauseStops, CauseEnds, CauseCrash DEF CauseInv
  <2>4. CASE \E i \in DOMAIN sources, n \in 0..AnswerLen : HandleEvent(i, n)
    BY <2>1, <2>4, CauseHandle DEF CauseInv
  <2>5. CASE Select \/ Accept \/ Restart \/ UNCHANGED vars
    <3>1. UNCHANGED <<client, excused, ended, toClient>>
      BY <2>5 DEF Select, Accept, Restart, vars
    <3>2. ExcuseInv'
      BY <3>1 DEF CauseInv, ExcuseInv, Hopeful, FailsForACause, client
    <3>3. QED
      BY <2>1, <3>2 DEF CauseInv
  <2>6. QED
    BY <2>2, <2>3, <2>4, <2>5 DEF Next, Client, Server
<1>3. QED
  BY <1>1, <1>2, PTL DEF FairSpec

\* A call fails only for what happens during the call, or because its request was written in part
\* on a connection the server had closed: in all else such a connection is repaired, by a new one
\* at the start of execute or by the one retry.
THEOREM FailuresHaveCauses == FairSpec => []FailsForACause
BY Excused, PTL DEF CauseInv, ExcuseInv

-----------------------------------------------------------------------------
(* What a caller may rely on: XmlRpc implements RemoteCall.                *)
(*                                                                         *)
(* In a round the server takes its connections from the oldest to the      *)
(* newest, so that the calls are carried out in their order; the client    *)
(* asks a second time only when it has read nothing, and an answer that it *)
(* has heard of is that of an execution.                                   *)

\* The calls that can be executed for connection c: not those that are being answered.
Askable(c) == IF response[c] = <<>> THEN Asking(c) ELSE {}

\* Call k has not been executed; it has been executed once at most.
None(k) == \A e \in DOMAIN executed : executed[e].call # k
Once(k) == \A e, f \in DOMAIN executed : executed[e].call = k /\ executed[f].call = k => e = f

\* Some piece of an answer is on the client's connection or has been read from it.
Heard ==
    \/ response[fd] # <<>> \/ toClient[fd] # <<>>
    \/ connectionState # "WRITE_REQUEST" /\ received # <<>>

\* The older connections are handled before a newer one.
RoundInv ==
    /\ ready \subseteq {Listening} \cup Range(sources)
    /\ \A c, d \in Range(sources) : c < d /\ d \in ready /\ c \notin ready => Askable(c) = {}

\* What can be executed is no older than what has been, and has been executed once at most.
TimesInv ==
    /\ \A c \in Live : \A k \in Askable(c) :
         Once(k) /\ \A e \in DOMAIN executed : executed[e].call <= k
    /\ connectionState = "WRITE_REQUEST" => Once(call)
    /\ executing /\ sendAttempts = 0 =>
         /\ Once(call)
         /\ connectionState = "WRITE_REQUEST" => None(call)
         /\ fd \in Live /\ Askable(fd) # {} => None(call)

HeardInv == fd # 0 /\ Heard => ~None(call)

OrderedInv == LifeInv /\ RoundInv /\ TimesInv /\ HeardInv

\* The connections of the server are those it has and a new one.
LEMMA LiveConnected ==
    ASSUME LifeInv, Connected, UNCHANGED server
    PROVE  Live' \subseteq Live \cup {fd'} /\ Range(sources') = Range(sources)
<1>1. UNCHANGED <<sources, running>> /\ backlog \in Seq(Conns) /\ fd' = opened + 1
  BY DEF server, Connected, LifeInv, IInv, TypeOK
<1>2. CASE running
  <2>1. backlog' = Append(backlog, opened + 1)
    BY <1>1, <1>2 DEF Connected
  <2>2. Range(backlog') \subseteq Range(backlog) \cup {opened + 1}
    <3> DEFINE S == Conns \cup {opened + 1}
    <3>1. backlog \in Seq(S) /\ opened + 1 \in S
      BY <1>1, SeqMonotonic, Conns \subseteq S
    <3> HIDE DEF S
    <3>2. QED
      BY <2>1, <3>1, RangeAppend
  <2>3. QED
    BY <1>1, <2>2 DEF Live
<1>3. CASE ~running
  BY <1>1, <1>3 DEF Connected, Live
<1>4. QED
  BY <1>2, <1>3

-----------------------------------------------------------------------------
(* The order of a round.                                                   *)

\* Neither the server's list nor what it has read and written changes.
LEMMA RoundStill ==
    ASSUME RoundInv, UNCHANGED <<sources, ready, toServer, request, response>>
    PROVE  RoundInv'
<1>1. \A c : Askable(c)' = Askable(c)
  BY DEF Askable, Asking
<1>2. QED
  BY <1>1 DEF RoundInv

\* The client's connection is the newest: nothing waits for it to be handled.
LEMMA RoundWrite ==
    ASSUME OrderedInv, NEW n \in 1..RequestLen, WriteRequest(n)
    PROVE  RoundInv'
<1>1. LifeInv /\ IInv /\ RoundInv
  BY DEF OrderedInv, LifeInv
<1>2. /\ UNCHANGED <<sources, ready, request, response>>
      /\ toServer' = [toServer EXCEPT ![fd] = @ \o [k \in 1..n |-> call]]
      /\ fd \in Conns /\ fd = opened /\ Range(sources) \subseteq 1..opened /\ 1..opened \subseteq Conns
  <2>1. Range(sources) \subseteq Live
    BY DEF Live
  <2>2. QED
    BY <1>1, <2>1, LiveOpened DEF WriteRequest, server, Working, IInv, ConnInv, TypeOK
<1>3. \A c \in Range(sources) : c # fd => Askable(c)' = Askable(c)
  BY <1>1, <1>2 DEF Askable, Asking, IInv, TypeOK
<1>4. \A c, d \in Range(sources) : c < d => c # fd
  BY <1>1, <1>2 DEF IInv, TypeOK
<1>5. QED
  BY <1>1, <1>2, <1>3, <1>4 DEF RoundInv

\* select leaves out only a connection of which there is nothing to read: the client's.
LEMMA RoundSelect == OrderedInv /\ Select => RoundInv'
<1> SUFFICES ASSUME OrderedInv, Select PROVE RoundInv'
  OBVIOUS
<1>1. LifeInv /\ IInv /\ ConnInv /\ opened \in Nat
  BY DEF OrderedInv, LifeInv, IInv, TypeOK
<1>2. /\ UNCHANGED <<sources, toServer, request, response, fd>>
      /\ ready' = {c \in {Listening} \cup Range(sources) : HasEvent(c)}
  BY DEF Select, client
<1>3. Range(sources) \subseteq 1..opened
  BY <1>1, LiveOpened DEF Live
<1>4. ASSUME NEW c \in Range(sources), NEW d \in Range(sources), c < d PROVE c \in ready'
  <2>1. c # fd
    BY <1>1, <1>3, <1>4 DEF ConnInv
  <2>2. HasEvent(c)
    BY <1>3, <2>1 DEF HasEvent, ClosedByClient, Listening
  <2>3. QED
    BY <1>2, <2>2
<1>5. QED
  BY <1>2, <1>4 DEF RoundInv

\* The connection that is accepted is the newest, and waits for the next round.
LEMMA RoundAccept == OrderedInv /\ Accept => RoundInv'
<1> SUFFICES ASSUME OrderedInv, Accept PROVE RoundInv'
  OBVIOUS
<1>1. LifeInv /\ LiveInv /\ RoundInv /\ IInv /\ backlog # <<>> /\ backlog \in Seq(Conns) /\ sources \in Seq(Conns)
  BY DEF OrderedInv, LifeInv, IInv, ConnInv, TypeOK, Accept
<1>2. /\ UNCHANGED <<toServer, request, response>>
      /\ sources' = Append(sources, Head(backlog)) /\ ready' = ready \ {Listening}
  BY DEF Accept
<1>3. Head(backlog) \in Conns /\ Head(backlog) \in Range(backlog)
  BY <1>1, HeadTailProperties, EmptySeq DEF Range
<1>4. Range(sources') = Range(sources) \cup {Head(backlog)}
  BY <1>1, <1>2, <1>3, RangeAppend
<1>5. ready' \subseteq Range(sources)
  BY <1>1, <1>2 DEF RoundInv
<1>6. \A c : Askable(c)' = Askable(c)
  BY <1>2 DEF Askable, Asking
<1>7. ASSUME NEW c \in Range(sources'), NEW d \in Range(sources'), c < d, d \in ready', c \notin ready'
      PROVE  Askable(c) = {}
  <2>1. d \in Range(sources) /\ d \in ready
    BY <1>2, <1>5, <1>7
  <2>2. Range(sources) \subseteq Nat /\ Range(backlog) \subseteq Nat
    BY <1>1, LiveOpened DEF Live
  <2>3. c # Head(backlog)
    <3>1. d < Head(backlog)
      BY <1>1, <1>3, <2>1 DEF LiveInv
    <3>2. QED
      BY <1>3, <1>7, <2>1, <2>2, <3>1
  <2>4. c \in Range(sources) /\ c # Listening
    <3>1. 0 \notin Conns
      BY DEF Conns
    <3>2. Range(sources) \subseteq Conns
      BY <1>1, RangeOfSeq
    <3>3. QED
      BY <1>4, <1>7, <2>3, <3>1, <3>2 DEF Listening
  <2>5. QED
    BY <1>1, <1>2, <1>7, <2>1, <2>4 DEF RoundInv
<1>8. QED
  BY <1>4, <1>5, <1>6, <1>7 DEF RoundInv

\* Every connection older than the one whose turn it is has been handled in this round.
LEMMA TurnOfOldest ==
    ASSUME LifeInv, NEW i \in DOMAIN sources, Turn(i), NEW d \in Range(sources), d < sources[i]
    PROVE  d \notin ready
<1>1. sources \in Seq(1..opened) /\ Increasing(sources)
  BY DEF LifeInv, IInv, ConnInv, LiveInv
<1>2. PICK j \in DOMAIN sources : d = sources[j]
  BY DEF Range
<1>3. sources[i] \in 1..opened /\ sources[j] \in 1..opened /\ i \in Nat /\ j \in Nat /\ j >= 1
  <2>1. DOMAIN sources = 1..Len(sources) /\ Len(sources) \in Nat
    BY <1>1, LenProperties
  <2>2. \A m \in 1..Len(sources) : sources[m] \in 1..opened
    BY <1>1, ElementOfSeq
  <2>3. i \in 1..Len(sources) /\ j \in 1..Len(sources)
    BY <1>2, <2>1
  <2>4. QED
    BY <2>1, <2>2, <2>3
<1>4. j < i
  BY <1>1, <1>2, <1>3 DEF Increasing
<1>5. j \in 1..(i - 1)
  BY <1>3, <1>4
<1>6. QED
  BY <1>2, <1>5 DEF Turn

\* A connection that has been handled asks for nothing any more, or is the client's.
LEMMA RoundHandle ==
    ASSUME OrderedInv, NEW i \in DOMAIN sources, NEW n \in 0..AnswerLen, HandleEvent(i, n)
    PROVE  RoundInv'
<1>1. LifeInv /\ IInv /\ RoundInv /\ ConnInv /\ TypeOK
  BY DEF OrderedInv, LifeInv, IInv
<1>2. PICK c : c = sources[i]
  OBVIOUS
<1>3. /\ ready' = ready \ {c} /\ UNCHANGED <<fd, opened>> /\ opened \in Nat
      /\ Range(sources) \subseteq 1..opened /\ 1..opened \subseteq Conns /\ c \in Conns
      /\ c \in Range(sources)
  <2>1. Range(sources) \subseteq Live
    BY DEF Live
  <2>2. c \in Range(sources)
    BY <1>2 DEF Range
  <2>3. QED
    BY <1>1, <1>2, <2>1, <2>2, LiveOpened, HandleCases DEF Handles, client
<1>4. \A d \in Conns \ {c} : Askable(d)' = Askable(d)
  BY <1>1, <1>2, HandleFrame DEF Askable, Asking
<1>5. /\ Drops(i) \/ sources' = sources
      /\ Drops(i) \/ Askable(c)' = {} \/ c = fd
  <2>1. Drops(i) \/ response'[c] # <<>> \/ Asking(c)' = {} \/ c = fd
    BY <1>1, <1>2, HandleAsks
  <2>2. QED
    BY <1>1, <1>2, <2>1, HandleAsks DEF Askable
<1>6. Range(sources') \subseteq Range(sources) /\ (Drops(i) => c \notin Range(sources'))
  <2>1. CASE Drops(i)
    <3>1. sources \in Seq(1..opened) /\ Increasing(sources) /\ 1..opened \in SUBSET Nat
      BY <1>1 DEF ConnInv, LifeInv, LiveInv
    <3>2. Range(sources') = Range(sources) \ {c}
      BY <1>2, <2>1, <3>1, IncreasingRemove DEF Drops, Dropped
    <3>3. QED
      BY <3>2
  <2>2. CASE ~Drops(i)
    BY <1>5, <2>2
  <2>3. QED
    BY <2>1, <2>2
<1>7. ready' \subseteq {Listening} \cup Range(sources')
  <2>1. CASE Drops(i)
    <3>1. sources \in Seq(1..opened) /\ Increasing(sources) /\ 1..opened \in SUBSET Nat
      BY <1>1 DEF ConnInv, LifeInv, LiveInv
    <3>2. Range(sources') = Range(sources) \ {c}
      BY <1>2, <2>1, <3>1, IncreasingRemove DEF Drops, Dropped
    <3>3. QED
      BY <1>1, <1>3, <3>2 DEF RoundInv
  <2>2. CASE ~Drops(i)
    BY <1>1, <1>3, <1>5, <2>2 DEF RoundInv
  <2>3. QED
    BY <2>1, <2>2
<1>8. ASSUME NEW a \in Range(sources'), NEW d \in Range(sources'), a < d, d \in ready', a \notin ready'
      PROVE  Askable(a)' = {}
  <2>1. a \in Range(sources) /\ d \in Range(sources) /\ d \in ready /\ a \in Conns
    BY <1>3, <1>6, <1>8
  <2>2. CASE a = c
    <3>1. ~Drops(i)
      BY <1>6, <1>8, <2>2
    <3>2. c # fd
      BY <1>1, <1>3, <1>8, <2>1, <2>2 DEF ConnInv
    <3>3. Askable(c)' = {}
      BY <1>5, <3>1, <3>2
    <3>4. QED
      BY <2>2, <3>3
  <2>3. CASE a # c
    BY <1>1, <1>3, <1>4, <1>8, <2>1, <2>3 DEF RoundInv
  <2>4. QED
    BY <2>2, <2>3
<1>9. QED
  BY <1>7, <1>8 DEF RoundInv

-----------------------------------------------------------------------------
(* How often a call is executed.                                           *)

\* One more execution.
LEMMA ExecutedMore ==
    ASSUME TypeOK, NEW k \in Calls, executed' = Append(executed, [call |-> k, life |-> crashes])
    PROVE  /\ \A x : ~None(x) => ~None(x)'
           /\ \A x : x # k => (None(x) => None(x)') /\ (Once(x) => Once(x)')
           /\ ~None(k)' /\ (None(k) => Once(k)')
           /\ \A x : k <= x /\ (\A e \in DOMAIN executed : executed[e].call <= x)
                       => \A e \in DOMAIN executed' : executed'[e].call <= x
<1> DEFINE m == Len(executed)
           r == [call |-> k, life |-> crashes]
<1>1. executed \in Seq([call : Calls, life : 0..MaxCrashes]) /\ r \in [call : Calls, life : 0..MaxCrashes]
  BY DEF TypeOK
<1>2. m \in Nat /\ DOMAIN executed = 1..m
  BY <1>1, LenProperties
<1>3. /\ DOMAIN executed' = 1..(m + 1)
      /\ \A e \in 1..m : executed'[e] = executed[e]
      /\ executed'[m + 1].call = k
  BY <1>1, <1>2, AppendProperties
<1> HIDE DEF m, r
<1>4. \A x : ~None(x) => ~None(x)'
  BY <1>2, <1>3 DEF None
<1>5. ~None(k)'
  BY <1>2, <1>3 DEF None
<1>6. \A e \in DOMAIN executed' : e \in 1..m \/ e = m + 1
  BY <1>2, <1>3
<1>7. \A x : x # k => (None(x) => None(x)') /\ (Once(x) => Once(x)')
  BY <1>2, <1>3, <1>6 DEF None, Once
<1>8. None(k) => Once(k)'
  BY <1>2, <1>3, <1>6 DEF None, Once
<1>9. \A x : k <= x /\ (\A e \in DOMAIN executed : executed[e].call <= x)
               => \A e \in DOMAIN executed' : executed'[e].call <= x
  BY <1>2, <1>3, <1>6
<1>10. QED
  BY <1>4, <1>5, <1>7, <1>8, <1>9

\* Nothing more is executed, or asked for.
LEMMA TimesStill ==
    ASSUME TimesInv, UNCHANGED <<executed, toServer, request, response, call, fd>>,
           Live' = Live,
           connectionState' = "WRITE_REQUEST" => connectionState = "WRITE_REQUEST",
           executing' /\ sendAttempts' = 0 => executing /\ sendAttempts = 0
    PROVE  TimesInv'
<1>1. \A c : Askable(c)' = Askable(c)
  BY DEF Askable, Asking
<1>2. \A x : None(x)' = None(x) /\ Once(x)' = Once(x)
  BY DEF None, Once
<1>3. \A c \in Live' : \A k \in Askable(c)' :
         Once(k)' /\ \A e \in DOMAIN executed' : executed'[e].call <= k
  BY <1>1, <1>2 DEF TimesInv
<1>4. connectionState' = "WRITE_REQUEST" => Once(call)'
  BY <1>2 DEF TimesInv
<1>5. ASSUME executing', sendAttempts' = 0
      PROVE  /\ Once(call)'
             /\ connectionState' = "WRITE_REQUEST" => None(call)'
             /\ fd' \in Live' /\ Askable(fd)' # {} => None(call)'
  <2>1. executing /\ sendAttempts = 0
    BY <1>5
  <2>2. QED
    BY <1>1, <1>2, <2>1 DEF TimesInv
<1>6. QED
  BY <1>3, <1>4, <1>5 DEF TimesInv

\* A request that begins is that of a call that has not been executed, or of a retry.
LEMMA TimesBegins ==
    ASSUME OrderedInv, Execute \/ Retry
    PROVE  TimesInv'
<1>1. LifeInv /\ IInv /\ TimesInv /\ RecordInv /\ call \in Nat /\ TypeOK
  BY DEF OrderedInv, LifeInv, IInv, TypeOK
<1>2. UNCHANGED <<executed, toServer, request, response, sources, running>> /\ UNCHANGED server
  BY DEF Execute, Retry, server
<1>3. \A x : None(x)' = None(x) /\ Once(x)' = Once(x)
  BY <1>2 DEF None, Once
<1>4. \A c \in Live' : c \in Live \/ Askable(c)' = {}
  <2>1. CASE Connected
    <3>1. Live' \subseteq Live \cup {fd'}
      BY <1>1, <1>2, <2>1, LiveConnected
    <3>2. fd' \in Conns /\ fd' > opened
      BY <1>1, <2>1, BoundsAssumption
      DEF Connected, Execute, Retry, Reading, Working, MayRetry, IInv, TypeOK, CountInv, Conns
    <3>3. Quiet(fd')
      BY <1>1, <3>2 DEF IInv, ConnInv
    <3>4. toServer'[fd'] = <<>> /\ request'[fd'] = <<>>
      BY <1>2, <3>3 DEF Quiet
    <3>5. \A c : c = fd' => Askable(c)' = {}
      BY <3>4 DEF Askable, Asking, Range
    <3>6. QED
      BY <3>1, <3>5
  <2>2. CASE UNCHANGED backlog
    BY <1>2, <2>2 DEF Live
  <2>3. QED
    BY <2>1, <2>2 DEF Execute, Retry, NotConnected
<1>5. \A c \in Live' : \A k \in Askable(c)' :
         Once(k)' /\ \A e \in DOMAIN executed' : executed'[e].call <= k
  <2>1. \A c : Askable(c)' = Askable(c)
    BY <1>2 DEF Askable, Asking
  <2>2. QED
    BY <1>1, <1>2, <1>3, <1>4, <2>1 DEF TimesInv
<1>6. CASE Execute
  <2>1. call' = call + 1
    BY <1>6 DEF Execute
  <2>2. None(call + 1)
    <3> SUFFICES ASSUME NEW e \in DOMAIN executed, executed[e].call = call + 1 PROVE FALSE
      BY DEF None
    <3>1. executed[e].call <= call
      BY <1>1 DEF RecordInv
    <3>2. QED
      BY <1>1, <3>1
  <2>3. None(call)' /\ Once(call)'
    BY <1>2, <2>1, <2>2 DEF None, Once
  <2>4. QED
    BY <1>5, <2>3 DEF TimesInv
<1>7. CASE Retry
  <2>1. call' = call /\ Once(call) /\ sendAttempts' = 1
    BY <1>1, <1>7 DEF Retry, Reading, Working, MayRetry, TimesInv
  <2>2. Once(call)'
    BY <1>3, <2>1
  <2>3. QED
    BY <1>5, <2>1, <2>2 DEF TimesInv
<1>8. QED
  BY <1>6, <1>7

\* The pieces that are written are those of a call that may be executed once more.
LEMMA TimesWrite ==
    ASSUME OrderedInv, NEW n \in 1..RequestLen, WriteRequest(n)
    PROVE  TimesInv'
<1>1. LifeInv /\ IInv /\ TimesInv /\ RecordInv
  BY DEF OrderedInv, LifeInv
<1>2. /\ UNCHANGED <<executed, request, response, sources, backlog, fd, call, executing, sendAttempts>>
      /\ toServer' = [toServer EXCEPT ![fd] = @ \o [k \in 1..n |-> call]]
      /\ connectionState = "WRITE_REQUEST" /\ fd \in Conns /\ fd # 0
  BY <1>1 DEF WriteRequest, server, Working, IInv, ConnInv, TypeOK
<1>3. \A x : None(x)' = None(x) /\ Once(x)' = Once(x)
  BY <1>2 DEF None, Once
<1>4. Live' = Live /\ Live \subseteq Conns
  BY <1>1, <1>2, LiveOpened DEF Live
<1>5. \A c \in Conns : c # fd => Askable(c)' = Askable(c)
  BY <1>1, <1>2 DEF Askable, Asking, IInv, TypeOK
<1>6. \A c \in Conns : c = fd => Askable(c)' \subseteq Askable(c) \cup {call}
  <2> DEFINE more == [k \in 1..n |-> call]
  <2>1. toServer[fd] \in Seq({call}) /\ more \in Seq({call}) /\ response[fd] = <<>>
    BY <1>1, <1>2, Copies DEF IInv, TalkInv, Asked, Answered, RequestLen
  <2>2. toServer'[fd] = toServer[fd] \o more
    BY <1>1, <1>2 DEF IInv, TypeOK
  <2> HIDE DEF more
  <2>3. Range(toServer'[fd]) = Range(toServer[fd]) \cup Range(more) /\ Range(more) \subseteq {call}
    BY <2>1, <2>2, RangeConcatenation, RangeOfSeq
  <2>4. QED
    BY <1>2, <2>1, <2>3 DEF Askable, Asking
<1>7. ASSUME NEW c \in Live', NEW k \in Askable(c)'
      PROVE  Once(k)' /\ \A e \in DOMAIN executed' : executed'[e].call <= k
  <2>1. c \in Live /\ (k \in Askable(c) \/ k = call)
    BY <1>4, <1>5, <1>6, <1>7
  <2>2. CASE k \in Askable(c)
    BY <1>1, <1>2, <1>3, <2>1, <2>2 DEF TimesInv
  <2>3. CASE k = call
    BY <1>1, <1>2, <1>3, <2>3 DEF TimesInv, RecordInv
  <2>4. QED
    BY <2>1, <2>2, <2>3
<1>8. Once(call)'
  BY <1>1, <1>2, <1>3 DEF TimesInv
<1>9. executing' /\ sendAttempts' = 0 => None(call)'
  BY <1>1, <1>2, <1>3 DEF TimesInv
<1>10. QED
  BY <1>7, <1>8, <1>9 DEF TimesInv

\* What an event leaves to be executed was there before; a dropped connection is gone.
LEMMA HandleLive ==
    ASSUME LifeInv, NEW i \in DOMAIN sources, NEW n \in 0..AnswerLen, HandleEvent(i, n),
           NEW c, c = sources[i]
    PROVE  /\ c \in Live /\ c \in Range(sources) /\ Live \subseteq Conns /\ Live \subseteq Nat
           /\ Live' \subseteq Live
           /\ Drops(i) => c \notin Live'
           /\ \A d \in Conns \ {c} : Askable(d)' = Askable(d)
<1>1. IInv /\ LiveInv /\ ConnInv /\ TypeOK
  BY DEF LifeInv, IInv
<1>2. c \in Range(sources) /\ c \in Live /\ Live \subseteq 1..opened /\ 1..opened \subseteq Conns
      /\ opened \in Nat /\ UNCHANGED backlog
  BY <1>1, LiveOpened, HandleCases DEF Range, Live, Handles
<1>3. \A d \in Conns \ {c} : Askable(d)' = Askable(d)
  BY <1>1, HandleFrame DEF Askable, Asking
<1>4. CASE Drops(i)
  <2>1. sources \in Seq(1..opened) /\ Increasing(sources) /\ 1..opened \in SUBSET Nat
    BY <1>1 DEF ConnInv, LiveInv
  <2>2. Range(sources') = Range(sources) \ {c}
    BY <1>4, <2>1, IncreasingRemove DEF Drops, Dropped
  <2>3. c \notin Range(backlog)
    <3>1. ~(c < c)
      BY <1>2
    <3>2. QED
      BY <1>1, <1>2, <3>1 DEF LiveInv
  <2>4. QED
    BY <1>2, <1>3, <2>2, <2>3 DEF Live
<1>5. CASE ~Drops(i)
  <2>1. sources' = sources
    BY <1>5, HandleAsks
  <2>2. QED
    BY <1>2, <1>3, <1>5, <2>1 DEF Live
<1>6. QED
  BY <1>4, <1>5

\* What is executed for a connection has been asked for by no older one, and the newer ones
\* ask for later calls.
LEMMA TimesHandle ==
    ASSUME OrderedInv, NEW i \in DOMAIN sources, NEW n \in 0..AnswerLen, HandleEvent(i, n)
    PROVE  TimesInv'
<1>1. LifeInv /\ IInv /\ TypeOK /\ LiveInv /\ AskInv /\ RecordInv /\ RoundInv /\ TimesInv
  BY DEF OrderedInv, LifeInv, IInv
<1>2. PICK c : c = sources[i]
  OBVIOUS
<1>3. UNCHANGED <<connectionState, fd, call, executing, sendAttempts, crashes>>
  BY HandleCases DEF Handles, client
<1>4. /\ c \in Live /\ c \in Range(sources) /\ Live \subseteq Conns /\ Live \subseteq Nat
      /\ Live' \subseteq Live
      /\ Drops(i) => c \notin Live'
      /\ \A d \in Conns \ {c} : Askable(d)' = Askable(d)
  BY <1>1, <1>2, HandleLive
<1>5. /\ Drops(i) \/ Asking(c)' \subseteq Asking(c)
      /\ \/ /\ executed' = executed
            /\ Drops(i) \/ response[c] = <<>> \/ response'[c] # <<>> \/ Asking(c)' = {}
         \/ \E k \in Asking(c) :
              /\ response[c] = <<>> /\ Len(Req(c)) = RequestLen
              /\ executed' = Append(executed, [call |-> k, life |-> crashes])
              /\ response'[c] # <<>> \/ Asking(c)' = {}
              /\ c = fd => connectionState # "WRITE_REQUEST"
  BY <1>1, <1>2, HandleAsks
<1>6. CASE /\ executed' = executed
           /\ Drops(i) \/ response[c] = <<>> \/ response'[c] # <<>> \/ Asking(c)' = {}
  <2>1. \A x : None(x)' = None(x) /\ Once(x)' = Once(x)
    BY <1>6 DEF None, Once
  <2>2. \A d \in Live' : d \in Live /\ Askable(d)' \subseteq Askable(d)
    <3>1. c \in Live' => Askable(c)' \subseteq Askable(c)
      BY <1>4, <1>5, <1>6 DEF Askable
    <3>2. QED
      BY <1>4, <3>1
  <2>3. \A d \in Live' : \A k \in Askable(d)' :
           Once(k)' /\ \A e \in DOMAIN executed' : executed'[e].call <= k
    BY <1>1, <1>6, <2>1, <2>2 DEF TimesInv
  <2>4. fd' \in Live' /\ Askable(fd)' # {} => fd \in Live /\ Askable(fd) # {}
    BY <1>3, <2>2
  <2>5. QED
    BY <1>1, <1>3, <2>1, <2>3, <2>4 DEF TimesInv
<1>7. ASSUME NEW k \in Asking(c),
             response[c] = <<>>,
             executed' = Append(executed, [call |-> k, life |-> crashes]),
             response'[c] # <<>> \/ Asking(c)' = {},
             c = fd => connectionState # "WRITE_REQUEST"
      PROVE  TimesInv'
  <2>1. k \in Askable(c) /\ Askable(c)' = {}
    BY <1>7 DEF Askable
  <2>2. k \in Calls /\ k \in Nat
    <3>1. Asking(c) \subseteq Calls
      BY <1>1, <1>4, AskingTyped
    <3>2. QED
      BY <1>7, <3>1 DEF Calls
  <2>3. Once(k) /\ \A e \in DOMAIN executed : executed[e].call <= k
    BY <1>1, <1>4, <2>1 DEF TimesInv
  <2>4. /\ \A x : x # k => (None(x) => None(x)') /\ (Once(x) => Once(x)')
        /\ None(k) => Once(k)'
        /\ \A x : k <= x /\ (\A e \in DOMAIN executed : executed[e].call <= x)
                    => \A e \in DOMAIN executed' : executed'[e].call <= x
    BY <1>1, <1>7, <2>2, ExecutedMore
  <2>5. ASSUME NEW d \in Live', NEW l \in Askable(d)'
        PROVE  Once(l)' /\ \A e \in DOMAIN executed' : executed'[e].call <= l
    <3>1. d \in Live /\ d # c /\ l \in Askable(d)
      BY <1>4, <2>1, <2>5
    <3>2. l \in Asking(d) /\ Once(l) /\ \A e \in DOMAIN executed : executed[e].call <= l
      BY <1>1, <3>1 DEF TimesInv, Askable
    <3>3. c < d
      <4>1. SUFFICES ASSUME d < c PROVE FALSE
        BY <1>4, <3>1
      <4>2. d \in Range(sources)
        <5>1. ~(c < d)
          BY <1>4, <3>1, <4>1
        <5>2. d \notin Range(backlog)
          BY <1>1, <1>4, <5>1 DEF LiveInv
        <5>3. QED
          BY <3>1, <5>2 DEF Live
      <4>3. Turn(i)
        BY DEF HandleEvent
      <4>4. d \notin ready /\ c \in ready
        BY <1>1, <1>2, <4>1, <4>2, <4>3, TurnOfOldest DEF Turn
      <4>5. Askable(d) = {}
        BY <1>1, <1>4, <4>1, <4>2, <4>4 DEF RoundInv
      <4>6. QED
        BY <3>1, <4>5
    <3>4. k < l
      BY <1>1, <1>4, <1>7, <3>1, <3>2, <3>3 DEF AskInv
    <3>5. l \in Nat
      <4>1. Asking(d) \subseteq Calls
        BY <1>1, <1>4, <3>1, AskingTyped
      <4>2. QED
        BY <3>2, <4>1 DEF Calls
    <3>6. l # k /\ k <= l
      BY <2>2, <3>4, <3>5
    <3>7. QED
      BY <2>4, <3>2, <3>6
  <2>6. c # fd => k # call
    <3> SUFFICES ASSUME c # fd PROVE k # call
      OBVIOUS
    <3>1. k < call
      BY <1>1, <1>4, <1>7 DEF AskInv
    <3>2. QED
      BY <2>2, <3>1
  <2>7. connectionState = "WRITE_REQUEST" => Once(call)'
    BY <1>1, <1>3, <1>7, <2>4, <2>6 DEF TimesInv
  <2>8. ASSUME executing, sendAttempts = 0
        PROVE  /\ Once(call)'
               /\ connectionState = "WRITE_REQUEST" => None(call)'
               /\ fd \in Live' /\ Askable(fd)' # {} => None(call)'
    <3>1. CASE k = call
      <4>1. c = fd /\ None(call)
        BY <1>1, <1>4, <2>1, <2>6, <2>8, <3>1 DEF TimesInv
      <4>2. Once(call)'
        BY <1>3, <2>4, <3>1, <4>1
      <4>3. Askable(fd)' = {}
        BY <1>3, <2>1, <4>1
      <4>4. QED
        BY <1>7, <4>1, <4>2, <4>3
    <3>2. CASE k # call
      <4>1. (None(call) => None(call)') /\ (Once(call) => Once(call)')
        BY <1>3, <2>4, <3>2
      <4>2. fd \in Live' /\ Askable(fd)' # {} => fd \in Live /\ Askable(fd) # {}
        BY <1>3, <1>4, <2>1
      <4>3. QED
        BY <1>1, <2>8, <4>1, <4>2 DEF TimesInv
    <3>3. QED
      BY <3>1, <3>2
  <2>9. QED
    BY <1>3, <2>5, <2>7, <2>8 DEF TimesInv
<1>8. QED
  BY <1>5, <1>6, <1>7

-----------------------------------------------------------------------------
(* An answer is that of an execution.                                      *)

\* The client hears nothing new.
LEMMA HeardStill ==
    ASSUME HeardInv, UNCHANGED <<executed, call, fd, response, toClient, received, connectionState>>
    PROVE  HeardInv'
BY DEF HeardInv, Heard, None

\* Nothing is heard on a connection on which a request begins or is being written.
LEMMA HeardBegins ==
    ASSUME OrderedInv, Execute \/ Retry \/ \E n \in 1..RequestLen : WriteRequest(n)
    PROVE  HeardInv'
<1>1. LifeInv /\ IInv /\ ConnInv /\ TalkInv /\ TypeOK
  BY DEF OrderedInv, LifeInv, IInv
<1>2. CASE Execute \/ Retry
  <2>1. CASE Connected
    <3>1. opened < 2 * MaxCalls /\ received' = received /\ UNCHANGED <<server, toServer, toClient>>
      BY <1>1, <1>2, BoundsAssumption
      DEF Execute, Retry, Reading, Working, MayRetry, IInv, TypeOK, CountInv
    <3>2. Quiet(fd)' /\ connectionState' = "WRITE_REQUEST"
      BY <1>1, <2>1, <3>1, ConnectedKeeps DEF Connected, Prepared
    <3>3. QED
      BY <3>2 DEF HeardInv, Heard, Quiet
  <2>2. CASE NotConnected
    BY <2>2 DEF NotConnected, HeardInv
  <2>3. CASE Execute /\ ~(MustClose \/ connectionState = "NO_CONNECTION")
    <3>1. connectionState' = "WRITE_REQUEST" /\ UNCHANGED <<fd, response, toClient>>
      BY <2>3 DEF Execute, Prepared, server
    <3>2. fd # 0 => Quiet(fd)
      BY <1>1, <2>3 DEF MustClose, TalkInv
    <3>3. QED
      BY <3>1, <3>2 DEF HeardInv, Heard, Quiet
  <2>4. QED
    BY <1>2, <2>1, <2>2, <2>3 DEF Execute, Retry
<1>3. ASSUME NEW n \in 1..RequestLen, WriteRequest(n)
      PROVE  HeardInv'
  <2>1. /\ UNCHANGED <<fd, response, toClient>> /\ connectionState = "WRITE_REQUEST"
        /\ received' = <<>> \/ connectionState' = "WRITE_REQUEST"
    BY <1>3 DEF WriteRequest, server, Cleared
  <2>2. fd # 0 => response[fd] = <<>> /\ toClient[fd] = <<>>
    BY <1>1, <2>1 DEF TalkInv, Asked, Answered
  <2>3. QED
    BY <2>1, <2>2 DEF HeardInv, Heard
<1>4. QED
  BY <1>2, <1>3

\* What is read was on the connection.
LEMMA HeardRead ==
    ASSUME OrderedInv, ReadAnswer
    PROVE  HeardInv'
<1>1. IInv /\ HeardInv /\ fd \in Conns /\ fd # 0 /\ TypeOK
  BY DEF OrderedInv, LifeInv, IInv, ConnInv, TypeOK, ReadAnswer, Reading, Working
<1>2. /\ UNCHANGED <<executed, call, fd, response>> /\ connectionState # "WRITE_REQUEST"
      /\ received' = received \o toClient[fd] /\ toClient' = [toClient EXCEPT ![fd] = <<>>]
  BY DEF ReadAnswer, Reading, Got, server
<1>3. toClient'[fd] = <<>>
  BY <1>1, <1>2 DEF TypeOK
<1>4. received' # <<>> => received # <<>> \/ toClient[fd] # <<>>
  BY <1>2
<1>5. Heard' => Heard
  BY <1>2, <1>3, <1>4 DEF Heard
<1>6. QED
  BY <1>1, <1>2, <1>5 DEF HeardInv, None

\* The server answers what it executes.
LEMMA HeardHandle ==
    ASSUME OrderedInv, NEW i \in DOMAIN sources, NEW n \in 0..AnswerLen, HandleEvent(i, n)
    PROVE  HeardInv'
<1>1. LifeInv /\ IInv /\ HeardInv /\ TypeOK /\ ConnInv /\ TalkInv
  BY DEF OrderedInv, LifeInv, IInv
<1>2. PICK c : c = sources[i]
  OBVIOUS
<1>3. UNCHANGED <<connectionState, fd, call, received>>
  BY HandleCases DEF Handles, client
<1>4. SUFFICES ASSUME fd # 0, Heard' PROVE ~None(call)'
  BY <1>3 DEF HeardInv
<1>5. fd \in Conns
  BY <1>1, <1>4 DEF TypeOK
<1>6. /\ \/ /\ executed' = executed
            /\ response[c] # <<>> \/ (response' = response /\ toClient' = toClient)
         \/ \E k \in Asking(c) : executed' = Append(executed, [call |-> k, life |-> crashes])
  BY <1>1, <1>2, HandleAsks
<1>7. c # fd => response'[fd] = response[fd] /\ toClient'[fd] = toClient[fd]
  BY <1>1, <1>2, <1>5, HandleFrame
<1>8. CASE executed' = executed /\ (response[c] # <<>> \/ (response' = response /\ toClient' = toClient))
  <2>1. Heard
    BY <1>3, <1>4, <1>7, <1>8 DEF Heard
  <2>2. QED
    BY <1>1, <1>3, <1>4, <1>8, <2>1 DEF HeardInv, None
<1>9. ASSUME NEW k \in Asking(c), executed' = Append(executed, [call |-> k, life |-> crashes])
      PROVE  ~None(call)'
  <2>1. c \in Live /\ Live \subseteq Conns
    BY <1>1, <1>2, HandleLive
  <2>2. k \in Calls
    <3>1. Asking(c) \subseteq Calls
      BY <1>1, <2>1, AskingTyped
    <3>2. QED
      BY <1>9, <3>1
  <2>3. ~None(k)' /\ \A x : ~None(x) => ~None(x)'
    BY <1>1, <1>9, <2>2, ExecutedMore
  <2>4. CASE c = fd
    <3>1. toServer[fd] \in Seq({call}) /\ request[fd] \in Seq({call})
      BY <1>1, <1>4 DEF TalkInv
    <3>2. Asking(c) \subseteq {call}
      BY <2>4, <3>1, RangeOfSeq DEF Asking
    <3>3. k = call
      BY <1>9, <3>2
    <3>4. QED
      BY <1>3, <2>3, <3>3
  <2>5. CASE c # fd
    <3>1. ~None(call)
      BY <1>1, <1>3, <1>4, <1>7, <2>5 DEF HeardInv, Heard
    <3>2. QED
      BY <1>3, <2>3, <3>1
  <2>6. QED
    BY <2>4, <2>5
<1>10. QED
  BY <1>6, <1>8, <1>9

-----------------------------------------------------------------------------
\* Every step keeps the order of the executions.
LEMMA OrderedKept == OrderedInv /\ [Next]_vars => OrderedInv'
<1> SUFFICES ASSUME OrderedInv, [Next]_vars PROVE OrderedInv'
  OBVIOUS
<1>1. LifeInv' /\ RoundInv /\ TimesInv /\ HeardInv
  BY LifeKept DEF OrderedInv
<1>2. CASE WriteFails \/ GiveUp \/ TimedOut \/ Return \/ ReadAnswer \/ Restart \/ UNCHANGED vars
  <2>1. UNCHANGED <<sources, backlog, ready, toServer, request, response, executed, call, fd>>
    BY <1>2 DEF WriteFails, GiveUp, TimedOut, Return, ReadAnswer, Restart, vars, client, server
  <2>2. connectionState' = "WRITE_REQUEST" => connectionState = "WRITE_REQUEST"
    BY <1>2 DEF WriteFails, GiveUp, TimedOut, Return, ReadAnswer, Restart, vars, client
  <2>3. executing' /\ sendAttempts' = 0 => executing /\ sendAttempts = 0
    <3>1. sendAttempts \in Nat
      BY DEF OrderedInv, LifeInv, IInv, TypeOK
    <3>2. executing' => executing
      BY <1>2, Zenon DEF WriteFails, GiveUp, TimedOut, Return, ReadAnswer, Restart, vars, client
    <3>3. sendAttempts' = sendAttempts \/ sendAttempts' = sendAttempts + 1
      BY <1>2 DEF WriteFails, GiveUp, TimedOut, Return, ReadAnswer, Restart, vars, client
    <3>4. QED
      BY <3>1, <3>2, <3>3
  <2>4. RoundInv' /\ TimesInv'
    <3>1. Live' = Live
      BY <2>1 DEF Live
    <3>2. QED
      BY <1>1, <2>1, <2>2, <2>3, <3>1, RoundStill, TimesStill
  <2>5. HeardInv'
    <3>1. CASE ReadAnswer
      BY <3>1, HeardRead
    <3>2. CASE ~ReadAnswer
      <4>1. UNCHANGED <<toClient, received, connectionState>>
        BY <1>2, <3>2 DEF WriteFails, GiveUp, TimedOut, Return, Restart, vars, client
      <4>2. QED
        BY <1>1, <2>1, <4>1, HeardStill
    <3>3. QED
      BY <3>1, <3>2
  <2>6. QED
    BY <1>1, <2>4, <2>5 DEF OrderedInv
<1>3. CASE Execute \/ Retry
  <2>1. UNCHANGED <<sources, ready, toServer, request, response>>
    BY <1>3 DEF Execute, Retry, server
  <2>2. QED
    BY <1>1, <1>3, <2>1, RoundStill, TimesBegins, HeardBegins DEF OrderedInv
<1>4. CASE \E n \in 1..RequestLen : WriteRequest(n)
  BY <1>1, <1>4, RoundWrite, TimesWrite, HeardBegins DEF OrderedInv
<1>5. CASE Select \/ Accept
  <2>1. /\ UNCHANGED <<executed, toServer, request, response, call, fd, connectionState, executing,
                       sendAttempts, toClient, received>>
    BY <1>5 DEF Select, Accept, client
  <2>2. Live' = Live
    <3>1. CASE Select
      BY <3>1 DEF Select, Live
    <3>2. CASE Accept
      <4>1. backlog \in Seq(Conns) /\ sources \in Seq(Conns) /\ backlog # <<>>
            /\ sources' = Append(sources, Head(backlog)) /\ backlog' = Tail(backlog)
        BY <3>2 DEF Accept, OrderedInv, LifeInv, IInv, TypeOK, ConnInv
      <4>2. Increasing(backlog) /\ backlog \in Seq(Nat)
        BY <4>1, SeqMonotonic, Conns \subseteq Nat DEF OrderedInv, LifeInv, LiveInv, Conns
      <4>3. Range(backlog) = Range(Tail(backlog)) \cup {Head(backlog)} /\ Head(backlog) \in Conns
        BY <4>1, <4>2, IncreasingTail, HeadTailProperties, EmptySeq
      <4>4. Range(sources') = Range(sources) \cup {Head(backlog)}
        BY <4>1, <4>3, RangeAppend
      <4>5. QED
        BY <4>1, <4>3, <4>4 DEF Live
    <3>3. QED
      BY <1>5, <3>1, <3>2
  <2>3. TimesInv' /\ HeardInv'
    BY <1>1, <2>1, <2>2, TimesStill, HeardStill
  <2>4. QED
    BY <1>1, <1>5, <2>3, RoundSelect, RoundAccept DEF OrderedInv
<1>6. CASE Crash
  <2>1. /\ UNCHANGED <<executed, call, fd, connectionState, executing, sendAttempts, toClient, received>>
        /\ sources' = <<>> /\ backlog' = <<>> /\ ready' = {} /\ Range(<<>>) = {}
        /\ \A c \in Conns : response'[c] = <<>>
    BY <1>6 DEF Crash, client, Range
  <2>2. RoundInv'
    BY <2>1 DEF RoundInv
  <2>3. TimesInv'
    <3>1. Live' = {}
      BY <2>1 DEF Live
    <3>2. \A x : None(x)' = None(x) /\ Once(x)' = Once(x)
      BY <2>1 DEF None, Once
    <3>3. QED
      BY <1>1, <2>1, <3>1, <3>2 DEF TimesInv
  <2>4. HeardInv'
    <3>1. fd # 0 => fd \in Conns
      BY DEF OrderedInv, LifeInv, IInv, TypeOK
    <3>2. fd # 0 => (Heard' => Heard)
      BY <2>1, <3>1 DEF Heard
    <3>3. QED
      BY <1>1, <2>1, <3>2 DEF HeardInv, None
  <2>5. QED
    BY <1>1, <2>2, <2>3, <2>4 DEF OrderedInv
<1>7. CASE \E i \in DOMAIN sources, n \in 0..AnswerLen : HandleEvent(i, n)
  BY <1>1, <1>7, RoundHandle, TimesHandle, HeardHandle DEF OrderedInv
<1>8. QED
  BY <1>2, <1>3, <1>4, <1>5, <1>6, <1>7 DEF Next, Client, Server

\* The order of the executions, in every reachable state.
THEOREM Ordered == FairSpec => []OrderedInv
<1>1. Init => OrderedInv
  <2> SUFFICES ASSUME Init PROVE OrderedInv
    OBVIOUS
  <2>1. /\ sources = <<>> /\ backlog = <<>> /\ ready = {} /\ Range(<<>>) = {} /\ executed = <<>>
        /\ connectionState = "NO_CONNECTION" /\ ~executing /\ fd = 0
    BY DEF Init, Range
  <2>2. RoundInv /\ TimesInv /\ HeardInv
    BY <2>1 DEF RoundInv, TimesInv, HeardInv, Live
  <2>3. QED
    BY <2>2, LifeBegins DEF OrderedInv
<1>2. OrderedInv /\ [Next]_vars => OrderedInv'
  BY OrderedKept
<1>3. QED
  BY <1>1, <1>2, PTL DEF FairSpec

-----------------------------------------------------------------------------
(* Every step is one of RemoteCall's, or none.                             *)

\* The length of a sequence that is given as a function.
LEMMA FunctionLength ==
    ASSUME NEW S, NEW m \in Nat, NEW f \in [1..m -> S]
    PROVE  f \in Seq(S) /\ Len(f) = m
<1>1. f \in Seq(S)
  BY SeqDef
<1>2. DOMAIN f = 1..m /\ DOMAIN f = 1..Len(f) /\ Len(f) \in Nat
  BY <1>1, LenProperties
<1>3. (m \in 1..m \/ m = 0) /\ (Len(f) \in 1..Len(f) \/ Len(f) = 0)
  BY <1>2
<1>4. QED
  BY <1>1, <1>2, <1>3

\* A sequence that is one longer.
LEMMA OneMore ==
    ASSUME NEW S, NEW m \in Nat, NEW f \in [1..m -> S], NEW x \in S, NEW g \in [1..(m + 1) -> S],
           \A j \in 1..m : g[j] = f[j], g[m + 1] = x
    PROVE  g = Append(f, x) /\ Len(f) = m
<1>1. f \in Seq(S) /\ g \in Seq(S) /\ Len(f) = m /\ Len(g) = m + 1
  BY FunctionLength
<1>2. /\ Append(f, x) \in Seq(S) /\ Len(Append(f, x)) = m + 1
      /\ \A j \in 1..m : Append(f, x)[j] = f[j]
      /\ Append(f, x)[m + 1] = x
  BY <1>1, AppendProperties
<1>3. \A j \in 1..(m + 1) : g[j] = Append(f, x)[j]
  BY <1>2
<1>4. QED
  BY <1>1, <1>2, <1>3, SeqEqual

\* What RemoteCall sees of the executions and of the results.
Mapped ==
    /\ Done \in [1..Len(executed) -> Calls] /\ Len(executed) \in Nat
    /\ \A e \in 1..Len(executed) : e \in DOMAIN executed /\ Done[e] = executed[e].call
    /\ Returned \in [1..Len(result) -> BOOLEAN] /\ Len(result) \in Nat
    /\ \A m \in 1..Len(result) : Returned[m] = (result[m] # <<>>)

\* Sequences are mapped to sequences, entry by entry.
LEMMA Seen == TypeOK => Mapped
<1> SUFFICES ASSUME TypeOK PROVE Mapped
  OBVIOUS
<1> DEFINE R == [call : Calls, life : 0..MaxCrashes]
           P == {<<>>} \cup {<<m>> : m \in Calls}
<1>1. executed \in Seq(R) /\ result \in Seq(P)
  BY DEF TypeOK
<1> HIDE DEF R, P
<1>2. /\ DOMAIN executed = 1..Len(executed) /\ Len(executed) \in Nat
      /\ DOMAIN result = 1..Len(result) /\ Len(result) \in Nat
  BY <1>1, LenProperties
<1>3. \A e \in 1..Len(executed) : executed[e] \in R
  BY <1>1, ElementOfSeq
<1>4. \A e \in 1..Len(executed) : executed[e].call \in Calls
  BY <1>3 DEF R
<1>5. Done \in [1..Len(executed) -> Calls]
      /\ \A e \in 1..Len(executed) : e \in DOMAIN executed /\ Done[e] = executed[e].call
  BY <1>2, <1>4 DEF Done
<1>6. Returned \in [1..Len(result) -> BOOLEAN]
      /\ \A m \in 1..Len(result) : Returned[m] = (result[m] # <<>>)
  BY <1>2, Zenon DEF Returned
<1>7. QED
  BY <1>2, <1>5, <1>6 DEF Mapped

\* The same after a step.
LEMMA SeenNext == TypeOK' => Mapped'
BY Seen, PTL

\* A call that ends: it returns true only if it has been carried out.
LEMMA ReturnStep ==
    ASSUME TypeOK, TypeOK', CountInv, executing, NEW r \in {<<>>, <<call>>},
           result' = Append(result, r), UNCHANGED <<call, executed>>,
           r # <<>> => ~None(call)
    PROVE  Abstract!Next
<1> DEFINE ok == r # <<>>
           m == Len(result)
           P == {<<>>} \cup {<<k>> : k \in Calls}
<1>1. call \in Calls /\ m = call - 1 /\ call \in Nat
  BY BoundsAssumption DEF TypeOK, CountInv, Calls
<1>2. result \in Seq(P) /\ r \in P
  <2>1. <<call>> \in P
    BY <1>1
  <2>2. QED
    BY <2>1 DEF TypeOK
<1> HIDE DEF P
<1>3. /\ Len(result') = m + 1 /\ result'[m + 1] = r
      /\ \A j \in 1..m : result'[j] = result[j]
  BY <1>2, AppendProperties
<1>4. /\ Returned \in [1..m -> BOOLEAN] /\ m \in Nat
      /\ \A j \in 1..m : Returned[j] = (result[j] # <<>>)
  BY Seen DEF Mapped
<1>5. /\ Returned' \in [1..Len(result') -> BOOLEAN]
      /\ \A j \in 1..Len(result') : Returned'[j] = (result'[j] # <<>>)
  BY SeenNext DEF Mapped
<1> HIDE DEF m
<1>6. /\ Returned' \in [1..(m + 1) -> BOOLEAN]
      /\ \A j \in 1..(m + 1) : Returned'[j] = (result'[j] # <<>>)
  BY <1>3, <1>5
<1>7. \A j \in 1..m : Returned'[j] = Returned[j]
  <2> SUFFICES ASSUME NEW j \in 1..m PROVE Returned'[j] = Returned[j]
    OBVIOUS
  <2>1. j \in 1..(m + 1)
    BY <1>4
  <2>2. QED
    BY <1>3, <1>4, <1>6, <2>1, Zenon
<1>8. Returned'[m + 1] = ok
  <2>1. m + 1 \in 1..(m + 1)
    BY <1>4
  <2>2. QED
    BY <1>3, <1>6, <2>1, Zenon
<1>9. ok \in BOOLEAN
  OBVIOUS
<1> HIDE DEF ok
<1>10. Returned' = Append(Returned, ok) /\ Len(Returned) = m
  BY <1>4, <1>6, <1>7, <1>8, <1>9, OneMore
<1>11. Done' = Done
  BY DEF Done
<1>12. ok => Abstract!Times(call) # {}
  <2> SUFFICES ASSUME ok PROVE Abstract!Times(call) # {}
    OBVIOUS
  <2>1. PICK e \in DOMAIN executed : executed[e].call = call
    BY DEF None, ok
  <2>2. e \in DOMAIN Done /\ Done[e] = call
    BY <2>1 DEF Done
  <2>3. QED
    BY <2>2 DEF Abstract!Times
<1>13. Abstract!Return(ok)
  BY <1>1, <1>10, <1>11, <1>12 DEF Abstract!Return
<1>14. QED
  BY <1>9, <1>13 DEF Abstract!Next

\* An event that executes a request carries out its call; any other event carries out none.
LEMMA CarryOutStep ==
    ASSUME OrderedInv, TypeOK', NEW i \in DOMAIN sources, NEW n \in 0..AnswerLen, HandleEvent(i, n)
    PROVE  [Abstract!Next]_(Abstract!callVars)
<1>1. LifeInv /\ IInv /\ TypeOK /\ AskInv /\ TimesInv /\ TalkInv
  BY DEF OrderedInv, LifeInv, IInv
<1>2. PICK c : c = sources[i]
  OBVIOUS
<1>3. UNCHANGED <<call, result, fd, crashes>>
  BY HandleCases DEF Handles, client
<1>4. Returned' = Returned
  BY <1>3 DEF Returned
<1>5. executed' = executed
      \/ \E k \in Asking(c) : /\ response[c] = <<>>
                              /\ executed' = Append(executed, [call |-> k, life |-> crashes])
  BY <1>1, <1>2, HandleAsks
<1>6. CASE executed' = executed
  BY <1>3, <1>4, <1>6 DEF Abstract!callVars, Done
<1>7. ASSUME NEW k \in Asking(c), response[c] = <<>>,
             executed' = Append(executed, [call |-> k, life |-> crashes])
      PROVE  Abstract!Next
  <2>1. c \in Live /\ c \in Conns
    BY <1>1, <1>2, HandleLive
  <2>2. k \in Calls
    BY <1>1, <1>7, <2>1, AskingTyped
  <2>3. Once(k) /\ \A e \in DOMAIN executed : executed[e].call <= k
    BY <1>1, <1>7, <2>1 DEF TimesInv, Askable
  <2>4. k \in 1..call
    <3>1. CASE c = fd
      <4>1. fd # 0
        BY <2>1, <3>1 DEF Conns
      <4>2. toServer[fd] \in Seq({call}) /\ request[fd] \in Seq({call})
        BY <1>1, <4>1 DEF TalkInv
      <4>3. Asking(c) \subseteq {call}
        BY <3>1, <4>2, RangeOfSeq DEF Asking
      <4>4. QED
        BY <1>7, <2>2, <4>3 DEF Calls
    <3>2. CASE c # fd
      <4>1. k < call
        BY <1>1, <1>7, <2>1, <3>2 DEF AskInv
      <4>2. call \in Nat
        BY <1>1 DEF TypeOK
      <4>3. QED
        BY <2>2, <4>1, <4>2 DEF Calls
    <3>3. QED
      BY <3>1, <3>2
  <2> DEFINE m == Len(executed)
             r == [call |-> k, life |-> crashes]
             R == [call : Calls, life : 0..MaxCrashes]
  <2>5. executed \in Seq(R) /\ r \in R
    BY <1>1, <2>2 DEF TypeOK
  <2>6. r.call = k /\ executed' = Append(executed, r)
    BY <1>7
  <2> HIDE DEF r, R
  <2>7. /\ Len(executed') = m + 1 /\ executed'[m + 1] = r
        /\ \A j \in 1..m : executed'[j] = executed[j]
    BY <2>5, <2>6, AppendProperties
  <2>8. /\ Done \in [1..m -> Calls] /\ m \in Nat
        /\ \A e \in 1..m : e \in DOMAIN executed /\ Done[e] = executed[e].call
    BY <1>1, Seen DEF Mapped
  <2>9. /\ Done' \in [1..Len(executed') -> Calls]
        /\ \A e \in 1..Len(executed') : Done'[e] = executed'[e].call
    BY SeenNext DEF Mapped
  <2> HIDE DEF m
  <2>10. Done' \in [1..(m + 1) -> Calls] /\ Done'[m + 1] = k /\ \A j \in 1..m : Done'[j] = Done[j]
    BY <2>6, <2>7, <2>8, <2>9
  <2>11. Done' = Append(Done, k)
    BY <2>2, <2>8, <2>10, OneMore
  <2>12. \A e \in DOMAIN Done : Done[e] <= k
    BY <2>3, <2>8
  <2>13. Abstract!Times(k) = {} \/ \E e \in DOMAIN Done : Abstract!Times(k) = {e}
    <3>1. \A e, f \in DOMAIN Done : Done[e] = k /\ Done[f] = k => e = f
      BY <2>3, <2>8 DEF Once
    <3>2. QED
      BY <3>1 DEF Abstract!Times
  <2>14. Abstract!CarryOut(k)
    BY <1>3, <1>4, <2>11, <2>12, <2>13 DEF Abstract!CarryOut
  <2>15. QED
    BY <2>4, <2>14 DEF Abstract!Next
<1>8. QED
  BY <1>5, <1>6, <1>7

\* Every step of the client and the server is a step of RemoteCall or a stutter.
LEMMA RemoteStep == OrderedInv /\ [Next]_vars => [Abstract!Next]_(Abstract!callVars)
<1> SUFFICES ASSUME OrderedInv, [Next]_vars PROVE [Abstract!Next]_(Abstract!callVars)
  OBVIOUS
<1>1. IInv /\ TypeOK /\ CountInv /\ ConnInv /\ TalkInv /\ HeardInv /\ LifeInv
  BY DEF OrderedInv, LifeInv, IInv
<1>2. TypeOK'
  BY <1>1, StepKeeps DEF IInv
<1>3. CASE Execute
  <2>1. call' = call + 1 /\ UNCHANGED <<result, executed>> /\ ~executing /\ call < MaxCalls
    BY <1>3 DEF Execute, server
  <2>2. Returned' = Returned /\ Done' = Done
    BY <2>1 DEF Returned, Done
  <2>3. Len(Returned) = call
    <3>1. Returned \in [1..Len(result) -> BOOLEAN] /\ Len(result) \in Nat /\ Len(result) = call
      BY <1>1, <2>1, Seen DEF CountInv, Mapped
    <3>2. QED
      BY <3>1, FunctionLength
  <2>4. Abstract!Call
    BY <2>1, <2>2, <2>3 DEF Abstract!Call
  <2>5. QED
    BY <2>4 DEF Abstract!Next
<1>4. CASE TimedOut
  <2>1. result' = Append(result, <<>>) /\ UNCHANGED <<call, executed>> /\ executing
    BY <1>4 DEF TimedOut, Working, server
  <2>2. QED
    BY <1>1, <1>2, <2>1, ReturnStep
<1>5. CASE Return
  <2>1. UNCHANGED <<call, executed>> /\ executing
    BY <1>5 DEF Return, server
  <2>2. CASE connectionState = "IDLE"
    <3>1. received \in Seq({call}) /\ Len(received) = AnswerLen /\ fd # 0
      BY <1>1, <2>2 DEF TalkInv, ConnInv
    <3>2. received # <<>>
      BY <3>1 DEF AnswerLen
    <3>3. result' = Append(result, <<call>>)
      BY <1>5, <2>2, <3>1, <3>2, LastPiece DEF Return
    <3>4. ~None(call)
      BY <1>1, <2>2, <3>1, <3>2 DEF HeardInv, Heard
    <3>5. QED
      BY <1>1, <1>2, <2>1, <3>3, <3>4, ReturnStep
  <2>3. CASE connectionState # "IDLE"
    <3>1. result' = Append(result, <<>>)
      BY <1>5, <2>3 DEF Return
    <3>2. QED
      BY <1>1, <1>2, <2>1, <3>1, ReturnStep
  <2>4. QED
    BY <2>2, <2>3
<1>6. CASE \E i \in DOMAIN sources, n \in 0..AnswerLen : HandleEvent(i, n)
  BY <1>2, <1>6, CarryOutStep
<1>7. CASE \/ WriteFails \/ ReadAnswer \/ Retry \/ GiveUp \/ (\E n \in 1..RequestLen : WriteRequest(n))
           \/ Select \/ Accept \/ Crash \/ Restart \/ UNCHANGED vars
  <2>1. UNCHANGED <<call, result, executed>>
    BY <1>7 DEF WriteFails, ReadAnswer, Retry, GiveUp, WriteRequest, Select, Accept, Crash, Restart,
       vars, client, server
  <2>2. QED
    BY <2>1 DEF Abstract!callVars, Returned, Done
<1>8. QED
  BY <1>3, <1>4, <1>5, <1>6, <1>7 DEF Next, Client, Server

\* The client and the server keep the promise of RemoteCall, whatever the number of calls and
\* of crashes: the calls are carried out in their order, each at most twice, and a call that
\* returns true was carried out.
THEOREM CallsAreCarriedOut == FairSpec => RemoteCallSpec
<1>1. Init => Abstract!Init
  <2> SUFFICES ASSUME Init PROVE Abstract!Init
    OBVIOUS
  <2>1. call = 0 /\ result = <<>> /\ executed = <<>>
    BY DEF Init
  <2>2. Returned = <<>> /\ Done = <<>>
    BY <2>1 DEF Returned, Done
  <2>3. QED
    BY <2>1, <2>2 DEF Abstract!Init
<1>2. OrderedInv /\ [Next]_vars => [Abstract!Next]_(Abstract!callVars)
  BY RemoteStep
<1>3. QED
  BY <1>1, <1>2, Ordered, PTL DEF FairSpec, RemoteCallSpec, Abstract!Spec

=============================================================================
