-------------------------- MODULE SerialLinkProofs --------------------------
(***************************************************************************)
(* The proofs about SerialLink: its type invariant; that a verdict is      *)
(* the radio's own whenever no answer was late; that the radio works on a  *)
(* command at most MAXTRIES times; and that the link implements            *)
(* CommandChannel.                                                         *)
(***************************************************************************)
EXTENDS SerialLink, TLAPS

Inside == {"write", "read", "data", "leave"}

\* mutex_serial names the one thread that is between its lock and its unlock.
LockInv ==
  /\ \A c \in Callers : pc[c] \in Inside <=> mutex_serial = c
  /\ telemetry_pc = "read" <=> mutex_serial = Telemetry

\* Every call has a request of its own, and one that nobody has written yet
\* is unknown to the radio.
Untouched(r) ==
  /\ accepted[r] = 0 /\ rejected[r] = 0
  /\ \A k \in 1..Len(toRadio) : toRadio[k] # r

JobInv ==
  /\ \A c \in Callers : pc[c] # "idle" => job[c] \in 1..issued
  /\ \A c, d \in Callers :
       c # d /\ pc[c] # "idle" /\ pc[d] # "idle" => job[c] # job[d]
  /\ \A c \in Callers : pc[c] = "lock" => Untouched(job[c])
  /\ \A r \in Requests : r > issued => Untouched(r)

\* A caller that waits for an answer has tries left.
TryInv == \A c \in Callers : pc[c] = "read" => tries[c] < MaxTries

\* Only telemetry answers nothing.
WireInv == \A k \in 1..Len(fromRadio) : fromRadio[k].of = 0 => fromRadio[k].val = "T"

Undecided(r) == accepted[r] = 0 /\ rejected[r] = 0
NoAnswers == \A k \in 1..Len(fromRadio) : fromRadio[k].of = 0

\* The command is still on its way to the radio.
OnItsWay(r) == toRadio = <<r>> /\ owed = 0 /\ NoAnswers /\ Undecided(r)
\* The radio has not seen it and never will.
Dropped(r) == LineQuiet /\ Undecided(r)
\* The one answer, at place k of the line: an "FF", an "FE", or an "FD" whose
\* data block is owed or has followed.
AckAt(r, k) ==
  /\ fromRadio[k].val = "FF" /\ kind[r] = "send"
  /\ accepted[r] = 1 /\ rejected[r] = 0 /\ owed = 0
  /\ \A j \in 1..Len(fromRadio) : j # k => fromRadio[j].of = 0
RejectAt(r, k) ==
  /\ fromRadio[k].val = "FE"
  /\ accepted[r] = 0 /\ rejected[r] = 1 /\ owed = 0
  /\ \A j \in 1..Len(fromRadio) : j # k => fromRadio[j].of = 0
DataOwedAt(r, k) ==
  /\ fromRadio[k].val = "FD" /\ kind[r] = "request"
  /\ accepted[r] = 1 /\ rejected[r] = 0 /\ owed = r /\ k = Len(fromRadio)
  /\ \A j \in 1..Len(fromRadio) : j # k => fromRadio[j].of = 0
DataSentAt(r, k) ==
  /\ fromRadio[k].val = "FD" /\ kind[r] = "request"
  /\ accepted[r] = 1 /\ rejected[r] = 0 /\ owed = 0
  /\ k < Len(fromRadio) /\ fromRadio[k + 1].of = r
  /\ \A j \in 1..Len(fromRadio) : j # k /\ j # k + 1 => fromRadio[j].of = 0
AnswerAt(r, k) ==
  /\ toRadio = <<>> /\ fromRadio[k].of = r
  /\ AckAt(r, k) \/ RejectAt(r, k) \/ DataOwedAt(r, k) \/ DataSentAt(r, k)
\* What a caller that waits for its answer can be waiting for.
Awaited(r) ==
  OnItsWay(r) \/ Dropped(r) \/ \E k \in 1..Len(fromRadio) : AnswerAt(r, k)
\* The data block of the answer that has been read.
DataDue(r) ==
  /\ toRadio = <<>> /\ kind[r] = "request"
  /\ accepted[r] = 1 /\ rejected[r] = 0
  /\ \/ owed = r /\ Len(fromRadio) = 0
     \/ /\ owed = 0 /\ Len(fromRadio) > 0 /\ fromRadio[1].of = r
        /\ \A j \in 1..Len(fromRadio) : j # 1 => fromRadio[j].of = 0

\* A clean service: where the one command in service can be.
CleanAt(c) ==
  /\ pc[c] = "write" => Dropped(job[c])
  /\ pc[c] = "read" => Awaited(job[c])
  /\ pc[c] = "data" => DataDue(job[c])
  /\ pc[c] = "leave" => LineQuiet /\ TrueVerdict(c, job[c])

CleanInv == clean => mutex_serial \in Callers /\ CleanAt(mutex_serial)

IInv == TypeOK /\ LockInv /\ TryInv /\ JobInv /\ WireInv /\ CleanInv

-----------------------------------------------------------------------------
(***************************************************************************)
(* Types, the lock and the tries.                                          *)
(***************************************************************************)
\* commstack.push never lets the stack outgrow its array.
LEMMA PushFits ==
  ASSUME NEW s \in Seq(StackVals), Len(s) <= StackSize, NEW v \in StackVals
  PROVE  Pushed(s, v) \in Seq(StackVals) /\ Len(Pushed(s, v)) <= StackSize
BY LinkAssumption DEF Pushed

\* A further read, or the next try, keeps the loop variables in their bounds.
LEMMA NextReadTypes ==
  ASSUME TypeOK, TryInv, NEW c \in Callers, pc[c] = "read", NextRead(c)
  PROVE  /\ pc' \in [Callers -> HostStates]
         /\ tries' \in [Callers -> 0..MaxTries]
         /\ loopcnt' \in [Callers -> 0..(Loops - 1)]
         /\ clean' \in BOOLEAN
<1>1. pc' \in [Callers -> HostStates]
  <2>1. pc \in [Callers -> HostStates] /\ "write" \in HostStates
    BY DEF TypeOK, HostStates
  <2> QED
    BY <2>1 DEF NextRead
<1>2. tries' \in [Callers -> 0..MaxTries]
  <2>1. tries \in [Callers -> 0..MaxTries] /\ tries[c] < MaxTries
    BY DEF TypeOK, TryInv
  <2>2. tries[c] + 1 \in 0..MaxTries
    BY <2>1, LinkAssumption
  <2> QED
    BY <2>1, <2>2 DEF NextRead
<1>3. loopcnt' \in [Callers -> 0..(Loops - 1)]
  <2>1. loopcnt \in [Callers -> 0..(Loops - 1)] /\ 0 \in 0..(Loops - 1)
    BY LinkAssumption DEF TypeOK
  <2>2. loopcnt[c] + 1 < Loops => loopcnt[c] + 1 \in 0..(Loops - 1)
    BY <2>1, LinkAssumption
  <2> QED
    BY <2>1, <2>2 DEF NextRead
<1>4. clean' \in BOOLEAN
  BY DEF NextRead, LineQuiet, TypeOK
<1> QED
  BY <1>1, <1>2, <1>3, <1>4

\* Every step keeps the types.
LEMMA TypeStep ==
  ASSUME TypeOK, TryInv, JobInv, [Next]_vars
  PROVE  TypeOK'
<1> USE LinkAssumption DEF hostVars, radioVars, stackVars
<1>1. ASSUME NEW c \in Callers, Call(c)
      PROVE  TypeOK'
  <2>1. issued + 1 \in Requests
    BY <1>1 DEF Call, Requests, TypeOK
  <2>2. kind' \in [Requests -> {"send", "request"}]
    BY <1>1, <2>1 DEF Call, TypeOK
  <2>3. job' \in [Callers -> 0..MaxRequests] /\ issued' \in 0..MaxRequests
    BY <1>1, <2>1 DEF Call, Requests, TypeOK
  <2>4. pc' \in [Callers -> HostStates]
    BY <1>1 DEF Call, HostStates, TypeOK
  <2> QED
    BY <1>1, <2>2, <2>3, <2>4 DEF Call, TypeOK
<1>2. ASSUME NEW c \in Callers, Lock(c)
      PROVE  TypeOK'
  BY <1>2 DEF Lock, HostStates, LineQuiet, TypeOK
<1>3. ASSUME NEW c \in Callers, Write(c)
      PROVE  TypeOK'
  <2>1. job[c] \in Requests
    BY <1>3 DEF Write, JobInv, Requests, TypeOK
  <2>2. toRadio' \in Seq(Requests)
    BY <1>3, <2>1 DEF Write, TypeOK
  <2>3. pc' \in [Callers -> HostStates] /\ loopcnt' \in [Callers -> 0..(Loops - 1)]
    <3>1. /\ pc \in [Callers -> HostStates] /\ "read" \in HostStates
          /\ loopcnt \in [Callers -> 0..(Loops - 1)] /\ 0 \in 0..(Loops - 1)
      BY DEF TypeOK, HostStates
    <3> QED
      BY <1>3, <3>1 DEF Write
  <2> QED
    BY <1>3, <2>2, <2>3 DEF Write, TypeOK
<1>4. ASSUME NEW c \in Callers, WriteError(c)
      PROVE  TypeOK'
  <2>1. tries \in [Callers -> 0..MaxTries] /\ tries[c] < MaxTries
    BY <1>4 DEF WriteError, TypeOK
  <2>2. tries[c] + 1 \in 0..MaxTries
    BY <2>1
  <2>3. tries' \in [Callers -> 0..MaxTries]
    BY <1>4, <2>1, <2>2 DEF WriteError
  <2> QED
    BY <1>4, <2>3 DEF WriteError, TypeOK
<1>5. ASSUME NEW c \in Callers, Fail(c)
      PROVE  TypeOK'
  BY <1>5 DEF Fail, HostStates, Verdicts, TypeOK
<1>6. ASSUME NEW c \in Callers, ReadAnswer(c)
      PROVE  TypeOK'
  <2>1. verdict' \in [Callers -> Verdicts] /\ pc' \in [Callers -> HostStates]
    <3>1. /\ verdict \in [Callers -> Verdicts] /\ {"REJ", "OK"} \subseteq Verdicts
          /\ pc \in [Callers -> HostStates] /\ {"leave", "data"} \subseteq HostStates
      BY DEF TypeOK, Verdicts, HostStates
    <3> QED
      BY <1>6, <3>1 DEF ReadAnswer
  <2>2. fromRadio' \in Seq(Byte)
    BY <1>6 DEF ReadAnswer, TypeOK
  <2> QED
    BY <1>6, <2>1, <2>2 DEF ReadAnswer, TypeOK
<1>7. ASSUME NEW c \in Callers, ReadOther(c)
      PROVE  TypeOK'
  <2>1. Head(fromRadio) \in Byte /\ fromRadio' \in Seq(Byte)
    <3>1. fromRadio \in Seq(Byte)
      BY DEF TypeOK
    <3> QED
      BY <1>7, <3>1 DEF ReadOther
  <2>2. Head(fromRadio).val \in StackVals
    BY <2>1 DEF Byte, StackVals, TypeOK
  <2>3. commstack' \in Seq(StackVals) /\ Len(commstack') <= StackSize
    BY <1>7, <2>2, PushFits DEF ReadOther, Push, TypeOK
  <2>4. /\ pc' \in [Callers -> HostStates]
        /\ tries' \in [Callers -> 0..MaxTries]
        /\ loopcnt' \in [Callers -> 0..(Loops - 1)]
        /\ clean' \in BOOLEAN
    BY <1>7, NextReadTypes DEF ReadOther
  <2> QED
    BY <1>7, <2>1, <2>3, <2>4 DEF ReadOther, TypeOK
<1>8. ASSUME NEW c \in Callers, ReadTimeout(c)
      PROVE  TypeOK'
  <2>1. "0" \in StackVals
    BY DEF StackVals, TypeOK
  <2>2. commstack' \in Seq(StackVals) /\ Len(commstack') <= StackSize
    BY <1>8, <2>1, PushFits DEF ReadTimeout, Push, TypeOK
  <2>3. /\ pc' \in [Callers -> HostStates]
        /\ tries' \in [Callers -> 0..MaxTries]
        /\ loopcnt' \in [Callers -> 0..(Loops - 1)]
        /\ clean' \in BOOLEAN
    BY <1>8, NextReadTypes DEF ReadTimeout
  <2> QED
    BY <1>8, <2>2, <2>3 DEF ReadTimeout, TypeOK
<1>9. ASSUME NEW c \in Callers, ReadData(c)
      PROVE  TypeOK'
  <2>1. verdict' \in [Callers -> Verdicts] /\ pc' \in [Callers -> HostStates]
    BY <1>9 DEF ReadData, Verdicts, HostStates, TypeOK
  <2>2. filled' \in [Callers -> BOOLEAN] /\ clean' \in BOOLEAN
    BY <1>9 DEF ReadData, LineQuiet, TypeOK
  <2>3. fromRadio' \in Seq(Byte)
    <3>1. fromRadio \in Seq(Byte)
      BY DEF TypeOK
    <3> QED
      BY <1>9, <3>1 DEF ReadData
  <2> QED
    BY <1>9, <2>1, <2>2, <2>3 DEF ReadData, TypeOK
<1>10. ASSUME NEW c \in Callers, Leave(c)
      PROVE  TypeOK'
  <2>1. mutex_serial' = NoOne /\ pc' \in [Callers -> HostStates]
    BY <1>10 DEF Leave, HostStates, TypeOK
  <2>2. job' \in [Callers -> 0..MaxRequests]
    BY <1>10 DEF Leave, TypeOK
  <2>3. tries' \in [Callers -> 0..MaxTries] /\ loopcnt' \in [Callers -> 0..(Loops - 1)]
    <3>1. /\ tries \in [Callers -> 0..MaxTries] /\ 0 \in 0..MaxTries
          /\ loopcnt \in [Callers -> 0..(Loops - 1)] /\ 0 \in 0..(Loops - 1)
      BY SMTT(30) DEF TypeOK
    <3> QED
      BY <1>10, <3>1 DEF Leave
  <2>4. verdict' \in [Callers -> Verdicts] /\ filled' \in [Callers -> BOOLEAN]
    BY <1>10 DEF Leave, Verdicts, TypeOK
  <2> QED
    BY <1>10, <2>1, <2>2, <2>3, <2>4 DEF Leave, TypeOK
<1>11. CASE TelemetryLock
  BY <1>11 DEF TelemetryLock, TypeOK
<1>12. CASE TelemetryRead
  <2>1. fromRadio \in Seq(Byte) /\ buff \in StackVals \cup {"none"}
    BY DEF TypeOK
  <2>2. fromRadio # <<>> => Head(fromRadio) \in Byte
    BY <2>1
  <2>3. fromRadio # <<>> => Head(fromRadio).val \in StackVals
    BY <2>2 DEF Byte, StackVals
  <2>4. buff' \in StackVals \cup {"none"} /\ fromRadio' \in Seq(Byte)
    BY <1>12, <2>1, <2>3 DEF TelemetryRead
  <2> QED
    BY <1>12, <2>4 DEF TelemetryRead, TypeOK
<1>13. CASE TelemetryPush
  <2>1. commstack' \in Seq(StackVals) /\ Len(commstack') <= StackSize
    BY <1>13, PushFits DEF TelemetryPush, Push, TypeOK
  <2>2. awake' \in BOOLEAN
    BY <1>13 DEF TelemetryPush, TypeOK
  <2> QED
    BY <1>13, <2>1, <2>2 DEF TelemetryPush, TypeOK
<1>14. CASE parseTelemetry
  <2>1. commstack' \in Seq(StackVals) /\ Len(commstack') <= StackSize
    BY <1>14 DEF parseTelemetry
  <2> QED
    BY <1>14, <2>1 DEF parseTelemetry, TypeOK
<1>15. CASE RadioAccept
  <2>1. Head(toRadio) \in Requests /\ toRadio' \in Seq(Requests)
    BY <1>15 DEF RadioAccept, TypeOK
  <2>2. accepted' \in [Requests -> Nat]
    <3>1. accepted \in [Requests -> Nat]
      BY DEF TypeOK
    <3> QED
      BY <1>15, <2>1, <3>1 DEF RadioAccept
  <2>3. fromRadio' \in Seq(Byte) /\ owed' \in 0..MaxRequests
    <3>1. fromRadio \in Seq(Byte) /\ owed \in 0..MaxRequests
      BY DEF TypeOK
    <3>2. /\ [val |-> "FF", of |-> Head(toRadio)] \in Byte
          /\ [val |-> "FD", of |-> Head(toRadio)] \in Byte
          /\ [val |-> "FE", of |-> Head(toRadio)] \in Byte
      BY <2>1 DEF Byte, Requests
    <3>3. Head(toRadio) \in 0..MaxRequests
      BY <2>1 DEF Requests
    <3>4. \E b \in Byte : fromRadio' = Append(fromRadio, b)
      BY <1>15, <3>2 DEF RadioAccept
    <3>5. owed' \in 0..MaxRequests
      BY <1>15, <3>1, <3>3 DEF RadioAccept
    <3> QED
      BY <3>1, <3>4, <3>5
  <2> QED
    BY <1>15, <2>1, <2>2, <2>3 DEF RadioAccept, TypeOK
<1>16. CASE RadioReject
  <2>1. Head(toRadio) \in Requests /\ toRadio' \in Seq(Requests)
    BY <1>16 DEF RadioReject, TypeOK
  <2>2. rejected' \in [Requests -> Nat]
    <3>1. rejected \in [Requests -> Nat]
      BY DEF TypeOK
    <3> QED
      BY <1>16, <2>1, <3>1 DEF RadioReject
  <2>3. fromRadio' \in Seq(Byte) /\ owed' \in 0..MaxRequests
    <3>1. fromRadio \in Seq(Byte) /\ owed \in 0..MaxRequests
      BY DEF TypeOK
    <3>2. /\ [val |-> "FF", of |-> Head(toRadio)] \in Byte
          /\ [val |-> "FD", of |-> Head(toRadio)] \in Byte
          /\ [val |-> "FE", of |-> Head(toRadio)] \in Byte
      BY <2>1 DEF Byte, Requests
    <3>3. Head(toRadio) \in 0..MaxRequests
      BY <2>1 DEF Requests
    <3> QED
      BY <1>16, <3>1, <3>2, <3>3 DEF RadioReject
  <2> QED
    BY <1>16, <2>1, <2>2, <2>3 DEF RadioReject, TypeOK
<1>17. CASE RadioDrop
  <2>1. toRadio' \in Seq(Requests)
    BY <1>17 DEF RadioDrop, TypeOK
  <2> QED
    BY <1>17, <2>1 DEF RadioDrop, TypeOK
<1>18. CASE RadioData
  <2>1. fromRadio' \in Seq(Byte) /\ owed' \in 0..MaxRequests
    BY <1>18 DEF RadioData, Byte, TypeOK
  <2> QED
    BY <1>18, <2>1 DEF RadioData, TypeOK
<1>19. CASE RadioTelemetry
  <2>1. fromRadio' \in Seq(Byte)
    BY <1>19 DEF RadioTelemetry, Byte, TypeOK
  <2> QED
    BY <1>19, <2>1 DEF RadioTelemetry, TypeOK
<1>20. CASE UNCHANGED vars
  BY <1>20 DEF vars, TypeOK
<1>21. QED
  BY <1>1, <1>2, <1>3, <1>4, <1>5, <1>6, <1>7, <1>8, <1>9, <1>10,
     <1>11, <1>12, <1>13, <1>14, <1>15, <1>16, <1>17, <1>18, <1>19, <1>20
  DEF Next, Caller, Radio

\* Every step leaves mutex_serial with the thread that took it.
LEMMA LockStep ==
  ASSUME TypeOK, LockInv, [Next]_vars
  PROVE  LockInv'
<1>1. /\ \A c \in Callers : pc[c] \in Inside <=> mutex_serial = c
      /\ telemetry_pc = "read" <=> mutex_serial = Telemetry
      /\ pc \in [Callers -> HostStates]
      /\ NoOne \notin Callers /\ NoOne # Telemetry /\ Telemetry \notin Callers
  BY LinkAssumption DEF LockInv, TypeOK
<1>2. CASE UNCHANGED <<mutex_serial, pc, telemetry_pc>>
  BY <1>2 DEF LockInv
<1>3. ASSUME NEW c \in Callers, Call(c)
      PROVE  LockInv'
  <2>1. /\ mutex_serial' = mutex_serial /\ telemetry_pc' = telemetry_pc
        /\ pc' = [pc EXCEPT ![c] = "lock"] /\ pc[c] = "idle"
    BY <1>3 DEF Call
  <2> QED
    BY <1>1, <2>1 DEF LockInv, Inside
<1>4. ASSUME NEW c \in Callers, Lock(c)
      PROVE  LockInv'
  <2>1. /\ mutex_serial = NoOne /\ mutex_serial' = c
        /\ telemetry_pc' = telemetry_pc /\ pc' = [pc EXCEPT ![c] = "write"]
    BY <1>4 DEF Lock
  <2> QED
    BY <1>1, <2>1 DEF LockInv, Inside
<1>5. ASSUME NEW c \in Callers,
             Write(c) \/ Fail(c) \/ ReadAnswer(c) \/ ReadOther(c)
               \/ ReadTimeout(c) \/ ReadData(c)
      PROVE  LockInv'
  <2>1. /\ mutex_serial' = mutex_serial /\ telemetry_pc' = telemetry_pc
        /\ pc[c] \in Inside
    BY <1>5 DEF Write, Fail, ReadAnswer, ReadOther, ReadTimeout, ReadData, Inside
  <2>2. pc' = pc \/ \E p \in Inside : pc' = [pc EXCEPT ![c] = p]
    BY <1>5 DEF Write, Fail, ReadAnswer, ReadOther, ReadTimeout, ReadData,
                NextRead, Inside
  <2>3. \A d \in Callers : pc'[d] \in Inside <=> pc[d] \in Inside
    BY <1>1, <2>1, <2>2
  <2> QED
    BY <1>1, <2>1, <2>3 DEF LockInv
<1>6. ASSUME NEW c \in Callers, Leave(c)
      PROVE  LockInv'
  <2>1. /\ mutex_serial' = NoOne /\ pc[c] \in Inside
        /\ telemetry_pc' = telemetry_pc /\ pc' = [pc EXCEPT ![c] = "idle"]
    BY <1>6 DEF Leave, Inside
  <2> QED
    BY <1>1, <2>1 DEF LockInv, Inside
<1>7. CASE TelemetryLock
  BY <1>1, <1>7 DEF TelemetryLock, LockInv
<1>8. CASE TelemetryRead
  BY <1>1, <1>8 DEF TelemetryRead, LockInv
<1>9. CASE TelemetryPush
  BY <1>1, <1>9 DEF TelemetryPush, LockInv
<1>10. CASE \/ \E c \in Callers : WriteError(c)
            \/ parseTelemetry \/ Radio \/ UNCHANGED vars
  BY <1>2, <1>10 DEF WriteError, parseTelemetry, Radio, RadioAccept, RadioReject,
     RadioDrop, RadioData, RadioTelemetry, vars
<1> QED
  BY <1>3, <1>4, <1>5, <1>6, <1>7, <1>8, <1>9, <1>10 DEF Next, Caller

\* Every step leaves a waiting caller a try.
LEMMA TryStep ==
  ASSUME TypeOK, TryInv, [Next]_vars
  PROVE  TryInv'
<1>1. /\ pc \in [Callers -> HostStates] /\ tries \in [Callers -> 0..MaxTries]
      /\ MaxTries \in Nat \ {0}
      /\ \A c \in Callers : pc[c] = "read" => tries[c] < MaxTries
  BY LinkAssumption DEF TypeOK, TryInv
<1>2. CASE UNCHANGED <<pc, tries>>
  BY <1>2 DEF TryInv
<1>3. ASSUME NEW c \in Callers,
             Call(c) \/ Lock(c) \/ Fail(c) \/ ReadAnswer(c) \/ ReadData(c)
      PROVE  TryInv'
  <2>1. tries' = tries
    BY <1>3 DEF Call, Lock, Fail, ReadAnswer, ReadData, hostVars
  <2>2. \E p \in {"lock", "write", "data", "leave"} : pc' = [pc EXCEPT ![c] = p]
    BY <1>3 DEF Call, Lock, Fail, ReadAnswer, ReadData
  <2> QED
    BY <1>1, <2>1, <2>2 DEF TryInv
<1>4. ASSUME NEW c \in Callers, Write(c)
      PROVE  TryInv'
  BY <1>1, <1>4 DEF Write, TryInv
<1>5. ASSUME NEW c \in Callers, WriteError(c)
      PROVE  TryInv'
  BY <1>1, <1>5 DEF WriteError, TryInv
<1>6. ASSUME NEW c \in Callers, ReadOther(c) \/ ReadTimeout(c)
      PROVE  TryInv'
  <2>1. NextRead(c)
    BY <1>6 DEF ReadOther, ReadTimeout
  <2>2. \/ UNCHANGED <<pc, tries>>
        \/ /\ pc' = [pc EXCEPT ![c] = "write"]
           /\ tries' = [tries EXCEPT ![c] = @ + 1]
    BY <2>1 DEF NextRead
  <2> QED
    BY <1>1, <2>2 DEF TryInv
<1>7. ASSUME NEW c \in Callers, Leave(c)
      PROVE  TryInv'
  BY <1>1, <1>7 DEF Leave, TryInv
<1>8. CASE \/ TelemetryLock \/ TelemetryRead \/ TelemetryPush
           \/ parseTelemetry \/ Radio \/ UNCHANGED vars
  BY <1>2, <1>8 DEF TelemetryLock, TelemetryRead, TelemetryPush, parseTelemetry,
     Radio, RadioAccept, RadioReject, RadioDrop, RadioData, RadioTelemetry,
     vars, hostVars
<1> QED
  BY <1>3, <1>4, <1>5, <1>6, <1>7, <1>8 DEF Next, Caller

\* A step that issues no request keeps JobInv when it lets no caller back out
\* of its call with another request, and touches a request only for a caller
\* that has the lock.
LEMMA JobFrame ==
  ASSUME TypeOK, JobInv, issued' = issued,
         \A d \in Callers : pc'[d] # "idle" => pc[d] # "idle" /\ job'[d] = job[d],
         \A d \in Callers : pc'[d] = "lock" => pc[d] = "lock",
         \A r \in Requests :
           /\ Untouched(r)
           /\ \A d \in Callers : pc[d] \in Inside => job[d] # r
           => Untouched(r)'
  PROVE  JobInv'
<1>1. \A d \in Callers : pc[d] \in Inside => pc[d] # "idle" /\ pc[d] # "lock"
  BY DEF Inside
<1>2. ASSUME NEW c \in Callers, pc'[c] # "idle"
      PROVE  job'[c] \in 1..issued'
  BY <1>2 DEF JobInv
<1>3. ASSUME NEW c \in Callers, NEW d \in Callers, c # d,
             pc'[c] # "idle", pc'[d] # "idle"
      PROVE  job'[c] # job'[d]
  BY <1>3 DEF JobInv
<1>4. ASSUME NEW c \in Callers, pc'[c] = "lock"
      PROVE  Untouched(job[c])'
  <2>1. pc[c] = "lock" /\ job'[c] = job[c] /\ job[c] \in Requests
    BY <1>4 DEF JobInv, TypeOK, Requests
  <2>2. PICK r \in Requests : r = job[c]
    BY <2>1
  <2>3. \A d \in Callers : pc[d] \in Inside => job[d] # r
    BY <1>1, <2>1, <2>2 DEF JobInv
  <2>4. Untouched(r)'
    BY <2>1, <2>2, <2>3 DEF JobInv
  <2> QED
    BY <2>1, <2>2, <2>4 DEF Untouched
<1>5. ASSUME NEW r \in Requests, r > issued'
      PROVE  Untouched(r)'
  <2>1. \A d \in Callers : pc[d] \in Inside => job[d] # r
    BY <1>1, <1>5 DEF JobInv, TypeOK, Requests
  <2> QED
    BY <1>5, <2>1 DEF JobInv
<1> QED
  BY <1>2, <1>3, <1>4, <1>5 DEF JobInv

\* Every step keeps the requests apart.
LEMMA JobStep ==
  ASSUME TypeOK, JobInv, [Next]_vars
  PROVE  JobInv'
<1> USE DEF hostVars, radioVars, stackVars
<1> SUFFICES ASSUME ~ UNCHANGED <<issued, pc, job, accepted, rejected, toRadio>>
             PROVE  JobInv'
  BY DEF JobInv, Untouched
<1>1. ASSUME NEW c \in Callers, Call(c)
      PROVE  JobInv'
  <2>1. /\ issued' = issued + 1 /\ issued \in Nat /\ issued + 1 \in Requests
        /\ job' = [job EXCEPT ![c] = issued + 1]
        /\ pc' = [pc EXCEPT ![c] = "lock"] /\ pc[c] = "idle"
    BY <1>1, LinkAssumption DEF Call, TypeOK, Requests
  <2>2. \A r : Untouched(r)' <=> Untouched(r)
    BY <1>1 DEF Call, Untouched
  <2>3. job \in [Callers -> 0..MaxRequests] /\ pc \in [Callers -> HostStates]
    BY DEF TypeOK
  <2>4. \A d \in Callers : d # c => pc'[d] = pc[d] /\ job'[d] = job[d]
    BY <2>1, <2>3
  <2>5. pc'[c] = "lock" /\ job'[c] = issued + 1
    BY <2>1, <2>3
  <2>6. \A d \in Callers : pc[d] # "idle" => job[d] \in 1..issued
    BY DEF JobInv
  <2>7. \A d \in Callers : pc'[d] # "idle" => job'[d] \in 1..issued'
    BY <2>1, <2>4, <2>5, <2>6
  <2>8. \A d, e \in Callers :
          d # e /\ pc'[d] # "idle" /\ pc'[e] # "idle" => job'[d] # job'[e]
    BY <2>1, <2>4, <2>5, <2>6 DEF JobInv
  <2>9. Untouched(issued + 1) /\ \A r \in Requests : r > issued + 1 => Untouched(r)
    BY <2>1 DEF JobInv, Requests
  <2>10. ASSUME NEW d \in Callers, pc'[d] = "lock"
         PROVE  Untouched(job[d])'
    <3>1. PICK r : r = job'[d]
      OBVIOUS
    <3>2. Untouched(r)
      BY <2>4, <2>5, <2>9, <2>10, <3>1 DEF JobInv
    <3>3. Untouched(r)'
      BY <2>2, <3>2
    <3> QED
      BY <3>1, <3>3 DEF Untouched
  <2>11. \A r \in Requests : r > issued' => Untouched(r)'
    BY <2>1, <2>2, <2>9
  <2> QED
    BY <2>7, <2>8, <2>10, <2>11 DEF JobInv
<1>2. ASSUME NEW c \in Callers, Lock(c)
      PROVE  JobInv'
  <2>1. \A d \in Callers : (pc'[d] = "idle" <=> pc[d] = "idle") /\ job'[d] = job[d]
    BY <1>2 DEF Lock, TypeOK
  <2>2. \A d \in Callers : pc'[d] = "lock" => pc[d] = "lock"
    BY <1>2 DEF Lock, TypeOK
  <2>3. issued' = issued /\ \A r : Untouched(r) => Untouched(r)'
    BY <1>2 DEF Lock, Untouched
  <2> QED
    BY <2>1, <2>2, <2>3, JobFrame
<1>3. ASSUME NEW c \in Callers, Write(c)
      PROVE  JobInv'
  <2>1. \A d \in Callers : (pc'[d] = "idle" <=> pc[d] = "idle") /\ job'[d] = job[d]
    BY <1>3 DEF Write, TypeOK
  <2>2. \A d \in Callers : pc'[d] = "lock" => pc[d] = "lock"
    BY <1>3 DEF Write, TypeOK
  <2>3. pc[c] \in Inside /\ toRadio' = Append(toRadio, job[c]) /\ job[c] \in Requests
    BY <1>3 DEF Write, Inside, JobInv, TypeOK, Requests
  <2>4. ASSUME NEW r \in Requests, Untouched(r), job[c] # r
        PROVE  Untouched(r)'
    <3>1. toRadio \in Seq(Requests)
      BY DEF TypeOK
    <3>2. \A k \in 1..Len(toRadio') : toRadio'[k] # r
      BY <2>3, <2>4, <3>1 DEF Untouched
    <3> QED
      BY <1>3, <2>4, <3>2 DEF Write, Untouched
  <2>5. issued' = issued
    BY <1>3 DEF Write
  <2> QED
    BY <2>1, <2>2, <2>3, <2>4, <2>5, JobFrame
<1>4. ASSUME NEW c \in Callers,
             Fail(c) \/ ReadAnswer(c) \/ ReadOther(c) \/ ReadTimeout(c)
               \/ ReadData(c) \/ Leave(c)
      PROVE  JobInv'
  <2>1. UNCHANGED <<toRadio, accepted, rejected, issued>>
    BY <1>4 DEF Fail, ReadAnswer, ReadOther, ReadTimeout, ReadData, Leave
  <2>2. \A r : Untouched(r) => Untouched(r)'
    BY <2>1 DEF Untouched
  <2>3. /\ pc[c] \in Inside
        /\ \E p \in Inside \cup {"idle"} : pc' = [pc EXCEPT ![c] = p] \/ pc' = pc
    BY <1>4 DEF Fail, ReadAnswer, ReadOther, ReadTimeout, ReadData, Leave,
                NextRead, Inside
  <2>4. job' = job \/ Leave(c)
    BY <1>4 DEF Fail, ReadAnswer, ReadOther, ReadTimeout, ReadData
  <2>5. \A d \in Callers : pc'[d] # "idle" => pc[d] # "idle"
    BY <2>3 DEF TypeOK, Inside
  <2>6. \A d \in Callers : pc'[d] = "lock" => pc[d] = "lock"
    BY <2>3 DEF TypeOK, Inside
  <2>7. \A d \in Callers : pc'[d] # "idle" => job'[d] = job[d]
    <3>1. CASE job' = job
      BY <3>1
    <3>2. CASE Leave(c)
      BY <3>2 DEF Leave, TypeOK
    <3> QED
      BY <2>4, <3>1, <3>2
  <2> QED
    BY <2>1, <2>2, <2>5, <2>6, <2>7, JobFrame
<1>5. ASSUME RadioAccept \/ RadioReject \/ RadioDrop
      PROVE  JobInv'
  <2>1. UNCHANGED <<pc, job, issued>> /\ toRadio # <<>> /\ toRadio' = Tail(toRadio)
    BY <1>5 DEF RadioAccept, RadioReject, RadioDrop
  <2>2. toRadio \in Seq(Requests) /\ Head(toRadio) = toRadio[1]
    BY DEF TypeOK
  <2>3. \A r \in Requests :
          r # Head(toRadio) => accepted'[r] = accepted[r] /\ rejected'[r] = rejected[r]
    BY <1>5 DEF RadioAccept, RadioReject, RadioDrop, TypeOK
  <2>4. ASSUME NEW r \in Requests, Untouched(r)
        PROVE  Untouched(r)'
    <3>1. r # Head(toRadio)
      BY <2>1, <2>2, <2>4 DEF Untouched
    <3>2. \A k \in 1..Len(toRadio') : toRadio'[k] # r
      BY <2>1, <2>2, <2>4 DEF Untouched
    <3> QED
      BY <2>3, <2>4, <3>1, <3>2 DEF Untouched
  <2> QED
    BY <2>1, <2>4, JobFrame
<1>6. CASE \/ \E c \in Callers : WriteError(c)
           \/ TelemetryLock \/ TelemetryRead \/ TelemetryPush \/ parseTelemetry
           \/ RadioData \/ RadioTelemetry \/ UNCHANGED vars
  BY <1>6 DEF WriteError, TelemetryLock, TelemetryRead, TelemetryPush,
              parseTelemetry, RadioData, RadioTelemetry, vars
<1> QED
  BY <1>1, <1>2, <1>3, <1>4, <1>5, <1>6 DEF Next, Caller, Radio

\* A step takes the first byte off the line, adds one at its end, or leaves
\* the line alone; only telemetry is added as the answer to nothing.
LEMMA WireStep ==
  ASSUME TypeOK, WireInv, [Next]_vars
  PROVE  WireInv'
<1> DEFINE Genuine(b) == b.of = 0 => b.val = "T"
<1> USE DEF hostVars, radioVars, stackVars
<1>1. CASE fromRadio' = fromRadio
  BY <1>1 DEF WireInv
<1>2. CASE fromRadio # <<>> /\ fromRadio' = Tail(fromRadio)
  <2>1. fromRadio \in Seq(Byte)
    BY DEF TypeOK
  <2>2. \A k \in 1..Len(fromRadio') :
          k + 1 \in 1..Len(fromRadio) /\ fromRadio'[k] = fromRadio[k + 1]
    BY <1>2, <2>1
  <2> QED
    BY <2>2 DEF WireInv
<1>3. ASSUME NEW b \in Byte, Genuine(b), fromRadio' = Append(fromRadio, b)
      PROVE  WireInv'
  <2>1. fromRadio \in Seq(Byte)
    BY DEF TypeOK
  <2>2. \A k \in 1..Len(fromRadio') :
          \/ k \in 1..Len(fromRadio) /\ fromRadio'[k] = fromRadio[k]
          \/ fromRadio'[k] = b
    BY <1>3, <2>1
  <2> QED
    BY <1>3, <2>2 DEF WireInv
<1>4. ASSUME NEW v \in {"FF", "FE", "FD", "T"}, NEW r \in Requests,
             fromRadio' = Append(fromRadio, [val |-> v, of |-> r])
      PROVE  WireInv'
  <2>1. [val |-> v, of |-> r] \in Byte /\ Genuine([val |-> v, of |-> r])
    BY LinkAssumption DEF Byte, Requests
  <2> QED
    BY <1>3, <1>4, <2>1
<1>5. ASSUME NEW c \in Callers, Caller(c)
      PROVE  \/ fromRadio' = fromRadio
             \/ fromRadio # <<>> /\ fromRadio' = Tail(fromRadio)
  BY <1>5 DEF Caller, Call, Lock, Write, WriteError, Fail, ReadAnswer,
              ReadOther, ReadTimeout, ReadData, Leave
<1>6. ASSUME RadioAccept \/ RadioReject
      PROVE  WireInv'
  <2>1. Head(toRadio) \in Requests
    BY <1>6 DEF RadioAccept, RadioReject, TypeOK
  <2>2. \E v \in {"FF", "FD", "FE"} :
          fromRadio' = Append(fromRadio, [val |-> v, of |-> Head(toRadio)])
    BY <1>6 DEF RadioAccept, RadioReject
  <2> QED
    BY <1>4, <2>1, <2>2
<1>7. CASE RadioData
  <2>1. owed \in Requests
    BY <1>7 DEF RadioData, TypeOK, Requests
  <2>2. \E v \in DataVals : fromRadio' = Append(fromRadio, [val |-> v, of |-> owed])
    BY <1>7 DEF RadioData
  <2> QED
    BY <1>4, <2>1, <2>2, LinkAssumption
<1>8. CASE RadioTelemetry
  <2>1. /\ fromRadio' = Append(fromRadio, [val |-> "T", of |-> 0])
        /\ [val |-> "T", of |-> 0] \in Byte
    BY <1>8, LinkAssumption DEF RadioTelemetry, Byte
  <2> QED
    BY <1>3, <2>1
<1>9. CASE TelemetryLock \/ TelemetryRead \/ TelemetryPush \/ parseTelemetry
           \/ RadioDrop \/ UNCHANGED vars
  <2>1. \/ fromRadio' = fromRadio
        \/ fromRadio # <<>> /\ fromRadio' = Tail(fromRadio)
    BY <1>9 DEF TelemetryLock, TelemetryRead, TelemetryPush, parseTelemetry,
                RadioDrop, vars
  <2> QED
    BY <1>1, <1>2, <2>1
<1> QED
  BY <1>1, <1>2, <1>5, <1>6, <1>7, <1>8, <1>9 DEF Next, Radio

-----------------------------------------------------------------------------
(***************************************************************************)
(* A clean service: the line holds at most the one answer.                 *)
(***************************************************************************)
\* Taking the first byte off the line moves the others up by one.
LEMMA Shift ==
  ASSUME TypeOK, fromRadio # <<>>, fromRadio' = Tail(fromRadio)
  PROVE  /\ Head(fromRadio) = fromRadio[1] /\ Len(fromRadio) \in Nat \ {0}
         /\ Len(fromRadio') = Len(fromRadio) - 1
         /\ \A k \in 1..Len(fromRadio') : fromRadio'[k] = fromRadio[k + 1]
BY DEF TypeOK

\* A byte added to the line is the last one.
LEMMA Grow ==
  ASSUME TypeOK, NEW b, fromRadio' = Append(fromRadio, b), b \in Byte
  PROVE  /\ Len(fromRadio) \in Nat /\ Len(fromRadio') = Len(fromRadio) + 1
         /\ \A k \in 1..Len(fromRadio) : fromRadio'[k] = fromRadio[k]
         /\ fromRadio'[Len(fromRadio) + 1] = b
BY DEF TypeOK

\* While an answer is awaited, a first byte that is not telemetry is it.
LEMMA AnswerFirst ==
  ASSUME TypeOK, WireInv, NEW r \in Requests, Awaited(r),
         fromRadio # <<>>, Head(fromRadio).val # "T"
  PROVE  AnswerAt(r, 1)
<1>1. Head(fromRadio) = fromRadio[1] /\ 1 \in 1..Len(fromRadio) /\ Len(fromRadio) \in Nat
  BY DEF TypeOK
<1>2. fromRadio[1].of # 0
  BY <1>1 DEF WireInv
<1>3. ~ OnItsWay(r) /\ ~ Dropped(r)
  BY <1>1, <1>2 DEF OnItsWay, NoAnswers, Dropped, LineQuiet
<1>4. PICK k \in 1..Len(fromRadio) : AnswerAt(r, k)
  BY <1>3 DEF Awaited
<1>5. k = 1
  BY <1>1, <1>2, <1>4 DEF AnswerAt, AckAt, RejectAt, DataOwedAt, DataSentAt
<1> QED
  BY <1>4, <1>5

\* The answer to a command is the last there is to come.
LEMMA AnswerTaken ==
  ASSUME TypeOK, NEW r \in Requests, AnswerAt(r, 1), fromRadio # <<>>,
         fromRadio' = Tail(fromRadio), toRadio' = toRadio, owed' = owed,
         Head(fromRadio).val \in {"FF", "FE"}
  PROVE  LineQuiet'
<1>1. /\ toRadio' = <<>> /\ owed' = 0
      /\ \A j \in 1..Len(fromRadio) : j # 1 => fromRadio[j].of = 0
  BY Shift DEF AnswerAt, AckAt, RejectAt, DataOwedAt, DataSentAt
<1>2. \A k \in 1..Len(fromRadio') :
        k + 1 \in 1..Len(fromRadio) /\ k + 1 # 1 /\ fromRadio'[k] = fromRadio[k + 1]
  BY Shift
<1> QED
  BY <1>1, <1>2 DEF LineQuiet

\* After the "FD" comes the data block.
LEMMA DataTaken ==
  ASSUME TypeOK, NEW r \in Requests, AnswerAt(r, 1), fromRadio # <<>>,
         fromRadio' = Tail(fromRadio), Head(fromRadio).val = "FD",
         UNCHANGED <<toRadio, owed, accepted, rejected, kind>>
  PROVE  DataDue(r)'
<1> DEFINE n == Len(fromRadio)
<1>1. /\ fromRadio[1].val = "FD" /\ n \in Nat \ {0} /\ Len(fromRadio') = n - 1
      /\ \A k \in 1..(n - 1) : fromRadio'[k] = fromRadio[k + 1]
  BY Shift
<1>2. /\ toRadio = <<>> /\ kind[r] = "request" /\ accepted[r] = 1 /\ rejected[r] = 0
  BY <1>1 DEF AnswerAt, AckAt, RejectAt, DataOwedAt, DataSentAt
<1>3. \/ owed = r /\ n = 1
      \/ /\ owed = 0 /\ 1 < n /\ fromRadio[2].of = r
         /\ \A j \in 1..n : j # 1 /\ j # 2 => fromRadio[j].of = 0
  BY <1>1 DEF AnswerAt, AckAt, RejectAt, DataOwedAt, DataSentAt
<1>4. CASE owed = r /\ n = 1
  BY <1>1, <1>2, <1>4 DEF DataDue
<1>5. CASE /\ owed = 0 /\ 1 < n /\ fromRadio[2].of = r
           /\ \A j \in 1..n : j # 1 /\ j # 2 => fromRadio[j].of = 0
  <2>1. Len(fromRadio') > 0 /\ fromRadio'[1].of = r
    BY <1>1, <1>5
  <2>2. \A j \in 1..Len(fromRadio') : j # 1 => fromRadio'[j].of = 0
    BY <1>1, <1>5
  <2> QED
    BY <1>2, <1>5, <2>1, <2>2 DEF DataDue
<1> QED
  BY <1>3, <1>4, <1>5

\* The answer moves up with the line.
LEMMA AnswerMoves ==
  ASSUME NEW n \in Nat, NEW i \in 1..(n - 1), NEW k \in 1..n, k = i + 1, NEW r,
         Len(fromRadio) = n, Len(fromRadio') = n - 1,
         \A j \in 1..(n - 1) : fromRadio'[j] = fromRadio[j + 1],
         UNCHANGED <<toRadio, owed, accepted, rejected, kind>>, AnswerAt(r, k)
  PROVE  AnswerAt(r, i)'
<1>1. fromRadio'[i] = fromRadio[k]
  OBVIOUS
<1>2. ASSUME \A j \in 1..n : j # k => fromRadio[j].of = 0
      PROVE  \A j \in 1..(n - 1) : j # i => fromRadio'[j].of = 0
  BY <1>2
<1>3. AckAt(r, k) => AckAt(r, i)'
  BY <1>1, <1>2 DEF AckAt
<1>4. RejectAt(r, k) => RejectAt(r, i)'
  BY <1>1, <1>2 DEF RejectAt
<1>5. DataOwedAt(r, k) => DataOwedAt(r, i)'
  BY <1>1, <1>2 DEF DataOwedAt
<1>6. ASSUME DataSentAt(r, k)
      PROVE  DataSentAt(r, i)'
  <2>1. i < n - 1 /\ fromRadio'[i + 1].of = r
    BY <1>6 DEF DataSentAt
  <2>2. \A j \in 1..n : j # k /\ j # k + 1 => fromRadio[j].of = 0
    BY <1>6 DEF DataSentAt
  <2>3. \A j \in 1..(n - 1) : j # i /\ j # i + 1 => fromRadio'[j].of = 0
    BY <2>2
  <2> QED
    BY <1>1, <1>6, <2>1, <2>3 DEF DataSentAt
<1> QED
  BY <1>1, <1>3, <1>4, <1>5, <1>6 DEF AnswerAt

\* A byte that is not the answer can be taken off the line.
LEMMA OtherTaken ==
  ASSUME TypeOK, NEW r \in Requests, Awaited(r), ~ AnswerAt(r, 1),
         fromRadio # <<>>, fromRadio' = Tail(fromRadio),
         UNCHANGED <<toRadio, owed, accepted, rejected, kind>>
  PROVE  Awaited(r)'
<1> DEFINE n == Len(fromRadio)
<1>1. /\ n \in Nat \ {0} /\ Len(fromRadio') = n - 1
      /\ \A k \in 1..(n - 1) : fromRadio'[k] = fromRadio[k + 1]
  BY Shift
<1>2. CASE OnItsWay(r)
  BY <1>1, <1>2 DEF OnItsWay, NoAnswers, Undecided, Awaited
<1>3. CASE Dropped(r)
  BY <1>1, <1>3 DEF Dropped, LineQuiet, Undecided, Awaited
<1>4. ASSUME NEW k \in 1..n, AnswerAt(r, k)
      PROVE  Awaited(r)'
  <2>1. k # 1
    BY <1>4
  <2>2. PICK i \in 1..(n - 1) : k = i + 1
    BY <1>1, <1>4, <2>1
  <2>3. AnswerAt(r, i)'
    BY <1>1, <1>4, <2>2, AnswerMoves
  <2> QED
    BY <1>1, <2>3 DEF Awaited
<1> QED
  BY <1>2, <1>3, <1>4 DEF Awaited

\* A caller whose request is r has its part of CleanInv when the new state of
\* the line is the one its place in sendCmd calls for.
LEMMA CleanIntro ==
  ASSUME NEW c \in Callers, NEW r, mutex_serial' = c, job'[c] = r,
         pc'[c] = "write" => Dropped(r)',
         pc'[c] = "read"  => Awaited(r)',
         pc'[c] = "data"  => DataDue(r)',
         pc'[c] = "leave" => LineQuiet' /\ TrueVerdict(c, r)'
  PROVE  CleanInv'
<1>1. Dropped(r)' => Dropped(job[c])'
  BY DEF Dropped, LineQuiet, Undecided
<1>2. Awaited(r)' => Awaited(job[c])'
  BY DEF Awaited, OnItsWay, NoAnswers, Dropped, LineQuiet, Undecided, AnswerAt, AckAt, RejectAt,
     DataOwedAt, DataSentAt
<1>3. DataDue(r)' => DataDue(job[c])'
  BY DEF DataDue
<1>4. TrueVerdict(c, r)' => TrueVerdict(c, job[c])'
  BY DEF TrueVerdict
<1>5. CleanAt(c)'
  BY <1>1, <1>2, <1>3, <1>4 DEF CleanAt
<1>6. CleanAt(c)' => CleanAt(mutex_serial)'
  BY DEF CleanAt, Dropped, Awaited, OnItsWay, NoAnswers, LineQuiet, Undecided,
         AnswerAt, DataDue, TrueVerdict
<1> QED
  BY <1>5, <1>6 DEF CleanInv

\* What a clean service says of the caller that has the lock.
LEMMA CleanElim ==
  ASSUME TypeOK, LockInv, JobInv, CleanInv, clean
  PROVE  \E c \in Callers, r \in Requests :
           /\ mutex_serial = c /\ job[c] = r /\ pc[c] \in Inside /\ r <= issued
           /\ pc[c] = "write" => Dropped(r)
           /\ pc[c] = "read"  => Awaited(r)
           /\ pc[c] = "data"  => DataDue(r)
           /\ pc[c] = "leave" => LineQuiet /\ TrueVerdict(c, r)
<1>1. PICK c \in Callers : c = mutex_serial
  BY DEF CleanInv
<1>2. CleanAt(c)
  BY <1>1 DEF CleanInv
<1>3. pc[c] \in Inside
  BY <1>1 DEF LockInv
<1>4. PICK r \in Requests : r = job[c] /\ r <= issued
  <2>1. job[c] \in 1..issued /\ issued \in 0..MaxRequests
    BY <1>3 DEF JobInv, Inside, TypeOK
  <2>2. job[c] \in Requests /\ job[c] <= issued
    BY <2>1, LinkAssumption DEF Requests
  <2> QED
    BY <2>2
<1>5. /\ pc[c] = "write" => Dropped(r)
      /\ pc[c] = "read"  => Awaited(r)
      /\ pc[c] = "data"  => DataDue(r)
      /\ pc[c] = "leave" => LineQuiet /\ TrueVerdict(c, r)
  BY <1>2, <1>4 DEF CleanAt
<1> QED
  BY <1>1, <1>3, <1>4, <1>5

\* A step that leaves the line alone leaves what is on it.
LEMMA LineFrame ==
  ASSUME NEW r, UNCHANGED radioVars, kind'[r] = kind[r]
  PROVE  /\ Dropped(r)' <=> Dropped(r)
         /\ Awaited(r)' <=> Awaited(r)
         /\ DataDue(r)' <=> DataDue(r)
         /\ LineQuiet' <=> LineQuiet
         /\ \A c : verdict'[c] = verdict[c] /\ filled'[c] = filled[c] =>
              (TrueVerdict(c, r)' <=> TrueVerdict(c, r))
BY DEF radioVars, Dropped, Awaited, OnItsWay, NoAnswers, LineQuiet, Undecided,
       AnswerAt, AckAt, RejectAt, DataOwedAt, DataSentAt, DataDue, TrueVerdict

\* The radio answers the command in service.
LEMMA AnswerSent ==
  ASSUME TypeOK, NEW r \in Requests, OnItsWay(r), RadioAccept \/ RadioReject
  PROVE  Awaited(r)'
<1>1. Head(toRadio) = r /\ Tail(toRadio) = <<>> /\ owed = 0 /\ NoAnswers /\ Undecided(r)
  BY DEF OnItsWay
<1>2. toRadio' = <<>>
  BY <1>1 DEF RadioAccept, RadioReject
<1>3. /\ accepted \in [Requests -> Nat] /\ rejected \in [Requests -> Nat]
      /\ kind \in [Requests -> {"send", "request"}]
  BY DEF TypeOK
<1>4. PICK v \in {"FF", "FD", "FE"} :
        /\ fromRadio' = Append(fromRadio, [val |-> v, of |-> r])
        /\ \/ /\ v = "FF" /\ kind'[r] = "send" /\ owed' = 0
              /\ accepted'[r] = 1 /\ rejected'[r] = 0
           \/ /\ v = "FE" /\ owed' = 0
              /\ accepted'[r] = 0 /\ rejected'[r] = 1
           \/ /\ v = "FD" /\ kind'[r] = "request" /\ owed' = r
              /\ accepted'[r] = 1 /\ rejected'[r] = 0
  <2>1. CASE RadioAccept
    <3>1. accepted'[r] = 1 /\ rejected'[r] = 0 /\ kind' = kind
      BY <1>1, <1>3, <2>1 DEF RadioAccept, Undecided, hostVars
    <3>2. CASE kind[r] = "send"
      BY <1>1, <2>1, <3>1, <3>2 DEF RadioAccept
    <3>3. CASE kind[r] = "request"
      BY <1>1, <2>1, <3>1, <3>3 DEF RadioAccept
    <3> QED
      BY <1>3, <3>2, <3>3
  <2>2. CASE RadioReject
    <3>1. accepted'[r] = 0 /\ rejected'[r] = 1 /\ owed' = 0
      BY <1>1, <1>3, <2>2 DEF RadioReject, Undecided
    <3> QED
      BY <1>1, <2>2, <3>1 DEF RadioReject
  <2> QED
    BY <2>1, <2>2
<1> DEFINE b == [val |-> v, of |-> r]
<1>5. b \in Byte /\ b.val = v /\ b.of = r
  BY DEF Byte, Requests
<1>6. PICK last \in Nat \ {0} :
        /\ Len(fromRadio') = last /\ fromRadio'[last] = b
        /\ \A k \in 1..(last - 1) :
             k \in 1..Len(fromRadio) /\ fromRadio'[k] = fromRadio[k]
  <2>1. /\ Len(fromRadio) \in Nat /\ Len(fromRadio') = Len(fromRadio) + 1
        /\ fromRadio'[Len(fromRadio) + 1] = b
        /\ \A k \in 1..Len(fromRadio) : fromRadio'[k] = fromRadio[k]
    BY <1>4, <1>5, Grow
  <2> QED
    BY <2>1
<1>7. \A k \in 1..last : k # last => fromRadio'[k].of = 0
  BY <1>1, <1>6 DEF NoAnswers
<1>8. AnswerAt(r, last)'
  <2>1. fromRadio'[last].of = r /\ fromRadio'[last].val = v
    BY <1>5, <1>6
  <2>2. Len(fromRadio') = last
    BY <1>6
  <2> QED
    BY <1>2, <1>4, <1>7, <2>1, <2>2 DEF AnswerAt, AckAt, RejectAt,
       DataOwedAt, DataSentAt
<1>9. last \in 1..Len(fromRadio')
  BY <1>6
<1> QED
  BY <1>8, <1>9 DEF Awaited

\* The radio sends the data block the request in service is owed.
LEMMA DataSent ==
  ASSUME TypeOK, NEW r \in Requests, RadioData
  PROVE  /\ Awaited(r) => Awaited(r)'
         /\ DataDue(r) => DataDue(r)'
<1> DEFINE n == Len(fromRadio)
<1>1. PICK v \in DataVals : fromRadio' = Append(fromRadio, [val |-> v, of |-> owed])
  BY DEF RadioData
<1> DEFINE b == [val |-> v, of |-> owed]
<1>2. /\ owed # 0 /\ owed' = 0
      /\ UNCHANGED <<toRadio, accepted, rejected, kind>>
  BY DEF RadioData, hostVars
<1>3. b \in Byte /\ b.of = owed
  BY LinkAssumption DEF Byte, TypeOK
<1>4. /\ n \in Nat /\ Len(fromRadio') = n + 1 /\ fromRadio'[n + 1] = b
      /\ \A k \in 1..n : fromRadio'[k] = fromRadio[k]
  BY <1>1, <1>3, Grow
<1>5. ASSUME Awaited(r)
      PROVE  Awaited(r)'
  <2>1. PICK k \in 1..n : AnswerAt(r, k)
    BY <1>2, <1>5 DEF Awaited, OnItsWay, Dropped, LineQuiet
  <2>2. /\ toRadio' = <<>> /\ fromRadio[k].val = "FD" /\ kind'[r] = "request"
        /\ accepted'[r] = 1 /\ rejected'[r] = 0
        /\ owed = r /\ k = n /\ fromRadio[k].of = r
        /\ \A j \in 1..n : j # k => fromRadio[j].of = 0
    BY <1>2, <2>1 DEF AnswerAt, AckAt, RejectAt, DataOwedAt, DataSentAt
  <2>3. k < n + 1 /\ fromRadio'[k + 1].of = r /\ fromRadio'[k] = fromRadio[k]
    BY <1>3, <1>4, <2>2
  <2>4. \A j \in 1..(n + 1) : j # k /\ j # k + 1 => fromRadio'[j].of = 0
    BY <1>4, <2>2
  <2>5. AnswerAt(r, k)'
    BY <1>2, <1>4, <2>2, <2>3, <2>4 DEF AnswerAt, AckAt, RejectAt,
       DataOwedAt, DataSentAt
  <2> QED
    BY <1>4, <2>2, <2>5 DEF Awaited
<1>6. ASSUME DataDue(r)
      PROVE  DataDue(r)'
  <2>1. n = 0 /\ owed = r
    BY <1>2, <1>6 DEF DataDue
  <2>2. Len(fromRadio') = 1 /\ fromRadio'[1].of = r
    BY <1>3, <1>4, <2>1
  <2> QED
    BY <1>2, <1>6, <2>2 DEF DataDue
<1> QED
  BY <1>5, <1>6

\* Telemetry can come at any time.
LEMMA TelemetrySent ==
  ASSUME TypeOK, NEW r \in Requests, RadioTelemetry
  PROVE  /\ Dropped(r) => Dropped(r)'
         /\ Awaited(r) => Awaited(r)'
         /\ DataDue(r) => DataDue(r)'
         /\ LineQuiet => LineQuiet'
<1> DEFINE n == Len(fromRadio)
           b == [val |-> "T", of |-> 0]
<1>1. owed = 0 /\ UNCHANGED <<toRadio, owed, accepted, rejected, kind>>
  BY DEF RadioTelemetry, hostVars
<1>2. b \in Byte /\ b.of = 0 /\ fromRadio' = Append(fromRadio, b)
  BY LinkAssumption DEF RadioTelemetry, Byte
<1>3. /\ n \in Nat /\ Len(fromRadio') = n + 1 /\ fromRadio'[n + 1].of = 0
      /\ \A k \in 1..n : fromRadio'[k] = fromRadio[k]
  BY <1>2, Grow
<1>4. LineQuiet => LineQuiet'
  BY <1>1, <1>3 DEF LineQuiet
<1>5. Dropped(r) => Dropped(r)'
  BY <1>1, <1>4 DEF Dropped, Undecided
<1>6. DataDue(r) => DataDue(r)'
  BY <1>1, <1>3 DEF DataDue, Requests
<1>7. ASSUME NEW k \in 1..n, AnswerAt(r, k)
      PROVE  AnswerAt(r, k)'
  <2>1. /\ toRadio' = <<>> /\ fromRadio'[k] = fromRadio[k] /\ fromRadio[k].of = r
        /\ k \in 1..(n + 1)
    BY <1>1, <1>3, <1>7 DEF AnswerAt, AckAt, RejectAt, DataOwedAt, DataSentAt
  <2>2. CASE fromRadio[k].val = "FF" \/ fromRadio[k].val = "FE"
    <3>1. \A j \in 1..(n + 1) : j # k => fromRadio'[j].of = 0
      BY <1>3, <1>7, <2>2 DEF AnswerAt, AckAt, RejectAt, DataOwedAt, DataSentAt
    <3> QED
      BY <1>1, <1>3, <1>7, <2>1, <2>2, <3>1 DEF AnswerAt, AckAt, RejectAt,
         DataOwedAt, DataSentAt
  <2>3. CASE fromRadio[k].val = "FD"
    <3>1. /\ k < n /\ fromRadio[k + 1].of = r
          /\ \A j \in 1..n : j # k /\ j # k + 1 => fromRadio[j].of = 0
      BY <1>1, <1>7, <2>3 DEF AnswerAt, AckAt, RejectAt,
         DataOwedAt, DataSentAt, Requests
    <3>2. k < n + 1 /\ fromRadio'[k + 1].of = r
      BY <1>3, <3>1
    <3>3. \A j \in 1..(n + 1) : j # k /\ j # k + 1 => fromRadio'[j].of = 0
      BY <1>3, <3>1
    <3> QED
      BY <1>1, <1>3, <1>7, <2>1, <2>3, <3>2, <3>3 DEF AnswerAt, AckAt, RejectAt,
         DataOwedAt, DataSentAt
  <2> QED
    BY <1>7, <2>2, <2>3 DEF AnswerAt, AckAt, RejectAt, DataOwedAt, DataSentAt
<1>8. OnItsWay(r) => OnItsWay(r)'
  BY <1>1, <1>3 DEF OnItsWay, NoAnswers, Undecided
<1>9. Awaited(r) => Awaited(r)'
  BY <1>3, <1>5, <1>7, <1>8 DEF Awaited
<1> QED
  BY <1>4, <1>5, <1>6, <1>9

\* What a further read or the next try makes of a command that is waited for.
LEMMA NextReadClean ==
  ASSUME NEW c \in Callers, TypeOK, NEW r \in Requests, Awaited(r)',
         pc[c] = "read", NextRead(c), clean', job'[c] = r, mutex_serial' = c
  PROVE  CleanInv'
<1>1. CASE pc' = pc
  <2>1. pc'[c] = "read"
    BY <1>1
  <2> QED
    BY <2>1, CleanIntro
<1>2. CASE pc' # pc
  <2>1. pc'[c] = "write" /\ LineQuiet'
    BY <1>2 DEF NextRead, TypeOK
  <2>2. ~ OnItsWay(r)'
    BY <2>1 DEF OnItsWay, LineQuiet
  <2>3. \A k \in 1..Len(fromRadio') : ~ AnswerAt(r, k)'
    BY <2>1 DEF AnswerAt, AckAt, RejectAt,
       DataOwedAt, DataSentAt, LineQuiet, Requests
  <2>4. Dropped(r)'
    BY <2>2, <2>3 DEF Awaited
  <2> QED
    BY <2>1, <2>4, CleanIntro
<1> QED
  BY <1>1, <1>2

\* Every step keeps a clean service clean, or says that it no longer is.
LEMMA CleanStep ==
  ASSUME IInv, [Next]_vars
  PROVE  CleanInv'
<1> USE DEF hostVars, stackVars
<1> SUFFICES ASSUME clean'
             PROVE  CleanInv'
  BY DEF CleanInv
<1>0. TypeOK /\ LockInv /\ TryInv /\ JobInv /\ WireInv /\ CleanInv
  BY DEF IInv
<1>1. ASSUME NEW c \in Callers, Lock(c)
      PROVE  CleanInv'
  <2>1. LineQuiet /\ mutex_serial' = c /\ pc'[c] = "write" /\ job' = job
    BY <1>0, <1>1 DEF Lock, TypeOK
  <2>2. PICK r : r = job[c]
    OBVIOUS
  <2>3. Undecided(r)
    BY <1>0, <1>1, <2>2 DEF Lock, JobInv, Untouched, Undecided
  <2>4. Dropped(r)'
    BY <1>1, <2>1, <2>3, LineFrame DEF Lock, Dropped
  <2> QED
    BY <2>1, <2>2, <2>4, CleanIntro
<1>2. ASSUME ~ \E c \in Callers : Lock(c)
      PROVE  CleanInv'
  <2>1. clean
    BY <1>2 DEF Next, Caller, Radio, Call, Write, WriteError, Fail, ReadAnswer,
       ReadOther, ReadTimeout, ReadData, Leave, NextRead, TelemetryLock,
       TelemetryRead, TelemetryPush, parseTelemetry, RadioAccept, RadioReject,
       RadioDrop, RadioData, RadioTelemetry, vars
  <2>2. PICK c \in Callers, r \in Requests :
          /\ mutex_serial = c /\ job[c] = r /\ pc[c] \in Inside /\ r <= issued
          /\ pc[c] = "write" => Dropped(r)
          /\ pc[c] = "read"  => Awaited(r)
          /\ pc[c] = "data"  => DataDue(r)
          /\ pc[c] = "leave" => LineQuiet /\ TrueVerdict(c, r)
    BY <1>0, <2>1, CleanElim
  <2>3. ASSUME UNCHANGED <<mutex_serial, radioVars>>, kind'[r] = kind[r],
               pc'[c] = pc[c], job'[c] = job[c],
               verdict'[c] = verdict[c], filled'[c] = filled[c]
        PROVE  CleanInv'
    BY <2>2, <2>3, LineFrame, CleanIntro
  <2>4. ASSUME NEW d \in Callers, Caller(d), d # c
        PROVE  CleanInv'
    <3>1. pc[d] \notin Inside /\ mutex_serial # NoOne
      BY <1>0, <2>2, <2>4, LinkAssumption DEF LockInv
    <3>2. Call(d)
      BY <1>2, <2>4, <3>1 DEF Caller, Inside, Write, WriteError, Fail,
         ReadAnswer, ReadOther, ReadTimeout, ReadData, Leave
    <3>3. kind'[r] = kind[r] /\ pc'[c] = pc[c] /\ job'[c] = job[c]
      BY <1>0, <2>2, <2>4, <3>2 DEF Call, TypeOK, Requests
    <3> QED
      BY <2>3, <3>2, <3>3 DEF Call
  <2>5. ASSUME Caller(c)
        PROVE  CleanInv'
    <3>1. ~ Call(c)
      BY <2>2 DEF Call, Inside
    <3>2. CASE Write(c)
      <4>1. Dropped(r) /\ toRadio = <<>>
        BY <2>2, <3>2 DEF Write, Dropped, LineQuiet
      <4>2. toRadio' = <<r>>
        BY <2>2, <3>2, <4>1 DEF Write
      <4>3. OnItsWay(r)'
        BY <3>2, <4>1, <4>2 DEF Write, OnItsWay, NoAnswers, Dropped, LineQuiet,
                                Undecided
      <4>4. mutex_serial' = c /\ job'[c] = r /\ pc'[c] = "read"
        BY <1>0, <2>2, <3>2 DEF Write, TypeOK
      <4> QED
        BY <4>3, <4>4, CleanIntro DEF Awaited
    <3>3. CASE WriteError(c)
      BY <2>3, <3>3 DEF WriteError
    <3>4. CASE Fail(c)
      <4>1. Dropped(r) /\ UNCHANGED radioVars /\ kind' = kind
        BY <2>2, <3>4 DEF Fail
      <4>2. mutex_serial' = c /\ job'[c] = r /\ pc'[c] = "leave" /\ verdict'[c] = "FAIL"
        BY <1>0, <2>2, <3>4 DEF Fail, TypeOK
      <4>3. LineQuiet'
        BY <4>1, LineFrame DEF Dropped
      <4>4. TrueVerdict(c, r)'
        BY <4>1, <4>2 DEF TrueVerdict, Dropped, Undecided, radioVars
      <4> QED
        BY <4>2, <4>3, <4>4, CleanIntro
    <3>5. CASE ReadAnswer(c)
      <4>1. /\ Awaited(r) /\ fromRadio # <<>> /\ fromRadio' = Tail(fromRadio)
            /\ Head(fromRadio).val \in {IF kind[r] = "send" THEN "FF" ELSE "FD", "FE"}
            /\ UNCHANGED <<mutex_serial, job, kind, filled, toRadio, owed,
                           accepted, rejected>>
        BY <2>2, <3>5 DEF ReadAnswer, Good
      <4>2. AnswerAt(r, 1) /\ Head(fromRadio) = fromRadio[1]
        <5>1. Head(fromRadio).val # "T"
          BY <4>1
        <5>2. Head(fromRadio) = fromRadio[1]
          BY <1>0, <4>1 DEF TypeOK
        <5>3. AnswerAt(r, 1)
          BY <1>0, <4>1, <5>1, AnswerFirst
        <5> QED
          BY <5>2, <5>3
      <4>3. CASE Head(fromRadio).val = "FE"
        <5>1. pc'[c] = "leave" /\ verdict'[c] = "REJ"
          BY <1>0, <3>5, <4>3 DEF ReadAnswer, TypeOK
        <5>2. LineQuiet'
          BY <1>0, <4>1, <4>2, <4>3, AnswerTaken
        <5>3. TrueVerdict(c, r)'
          BY <4>1, <4>2, <4>3, <5>1 DEF AnswerAt, AckAt, RejectAt,
             DataOwedAt, DataSentAt, TrueVerdict
        <5> QED
          BY <2>2, <4>1, <5>1, <5>2, <5>3, CleanIntro
      <4>4. CASE Head(fromRadio).val = "FF"
        <5>1. pc'[c] = "leave" /\ verdict'[c] = "OK"
          BY <1>0, <2>2, <3>5, <4>1, <4>4 DEF ReadAnswer, TypeOK
        <5>2. LineQuiet'
          BY <1>0, <4>1, <4>2, <4>4, AnswerTaken
        <5>3. TrueVerdict(c, r)'
          BY <4>1, <4>2, <4>4, <5>1 DEF AnswerAt, AckAt, RejectAt,
             DataOwedAt, DataSentAt, TrueVerdict
        <5> QED
          BY <2>2, <4>1, <5>1, <5>2, <5>3, CleanIntro
      <4>5. CASE Head(fromRadio).val = "FD"
        <5>1. pc'[c] = "data"
          BY <1>0, <2>2, <3>5, <4>1, <4>5 DEF ReadAnswer, TypeOK
        <5>2. DataDue(r)'
          BY <1>0, <4>1, <4>2, <4>5, DataTaken
        <5> QED
          BY <2>2, <4>1, <5>1, <5>2, CleanIntro
      <4> QED
        BY <4>1, <4>3, <4>4, <4>5
    <3>6. CASE ReadOther(c)
      <4>1. /\ Awaited(r) /\ fromRadio # <<>> /\ fromRadio' = Tail(fromRadio)
            /\ Head(fromRadio).val \notin
                 {IF kind[r] = "send" THEN "FF" ELSE "FD", "FE"}
            /\ UNCHANGED <<mutex_serial, job, kind, toRadio, owed, accepted,
                           rejected>>
            /\ pc[c] = "read" /\ NextRead(c)
        BY <2>2, <3>6 DEF ReadOther, Good
      <4>2. ~ AnswerAt(r, 1)
        <5>1. Head(fromRadio) = fromRadio[1]
          BY <1>0, <4>1 DEF TypeOK
        <5> QED
          BY <4>1, <5>1 DEF AnswerAt, AckAt, RejectAt, DataOwedAt, DataSentAt
      <4>3. Awaited(r)'
        BY <1>0, <4>1, <4>2, OtherTaken
      <4> QED
        BY <1>0, <2>2, <4>1, <4>3, NextReadClean
    <3>7. CASE ReadTimeout(c)
      <4>1. /\ Awaited(r) /\ UNCHANGED <<mutex_serial, job, kind, radioVars>>
            /\ pc[c] = "read" /\ NextRead(c)
        BY <2>2, <3>7 DEF ReadTimeout, radioVars
      <4>2. Awaited(r)'
        BY <4>1, LineFrame
      <4> QED
        BY <1>0, <2>2, <4>1, <4>2, NextReadClean
    <3>8. CASE ReadData(c)
      <4>1. /\ DataDue(r) /\ UNCHANGED <<mutex_serial, job, kind, toRadio, owed,
                                         accepted, rejected>>
        BY <2>2, <3>8 DEF ReadData
      <4>2. /\ pc'[c] = "leave" /\ verdict'[c] = "DATA"
        BY <1>0, <3>8 DEF ReadData, TypeOK
      <4>3. fromRadio # <<>>
        <5>1. ASSUME fromRadio = <<>>
              PROVE  FALSE
          <6>1. LineQuiet
            BY <3>8, <5>1 DEF ReadData
          <6> QED
            BY <4>1, <5>1, <6>1 DEF DataDue, LineQuiet, Requests
        <5> QED
          BY <5>1
      <4>4. fromRadio' = Tail(fromRadio) /\ filled'[c] = TRUE
        BY <1>0, <3>8, <4>3 DEF ReadData, TypeOK
      <4>5. /\ Len(fromRadio) \in Nat \ {0} /\ Len(fromRadio') = Len(fromRadio) - 1
            /\ \A k \in 1..Len(fromRadio') : fromRadio'[k] = fromRadio[k + 1]
        BY <1>0, <4>3, <4>4, Shift
      <4>6. /\ owed = 0
            /\ \A j \in 1..Len(fromRadio) : j # 1 => fromRadio[j].of = 0
        BY <4>1, <4>5 DEF DataDue
      <4>7. LineQuiet'
        BY <4>1, <4>5, <4>6 DEF LineQuiet, DataDue
      <4>8. TrueVerdict(c, r)'
        BY <4>1, <4>2, <4>4 DEF TrueVerdict, DataDue
      <4> QED
        BY <2>2, <4>1, <4>2, <4>7, <4>8, CleanIntro
    <3>9. ~ Leave(c)
      BY DEF Leave
    <3> QED
      BY <1>2, <2>5, <3>1, <3>2, <3>3, <3>4, <3>5, <3>6, <3>7, <3>8, <3>9 DEF Caller
  <2>6. CASE TelemetryLock \/ TelemetryRead
    BY <1>0, <2>2, <2>6, LinkAssumption DEF TelemetryLock, TelemetryRead, LockInv
  <2>7. CASE TelemetryPush \/ parseTelemetry \/ UNCHANGED vars
    BY <2>3, <2>7 DEF TelemetryPush, parseTelemetry, vars
  <2>8. ASSUME Radio
        PROVE  CleanInv'
    <3>1. /\ UNCHANGED <<mutex_serial, pc, job, kind, verdict, filled>>
      BY <2>8 DEF Radio, RadioAccept, RadioReject, RadioDrop, RadioData,
                  RadioTelemetry
    <3>2. CASE RadioAccept \/ RadioReject \/ RadioDrop
      <4>1. toRadio # <<>>
        BY <3>2 DEF RadioAccept, RadioReject, RadioDrop
      <4>2. pc[c] = "read" /\ OnItsWay(r)
        BY <2>2, <4>1 DEF Inside, Awaited, OnItsWay, Dropped, DataDue,
                          AnswerAt, LineQuiet
      <4>3. RadioDrop => Dropped(r)'
        BY <4>2 DEF RadioDrop, OnItsWay, Dropped, LineQuiet, NoAnswers, Undecided
      <4>4. Awaited(r)'
        BY <1>0, <3>2, <4>2, <4>3, AnswerSent DEF Awaited
      <4> QED
        BY <2>2, <3>1, <4>2, <4>4, CleanIntro
    <3>3. CASE RadioData
      <4>1. owed # 0
        BY <3>3 DEF RadioData
      <4>2. pc[c] \in {"read", "data"}
        BY <2>2, <4>1 DEF Inside, Dropped, LineQuiet
      <4>3. /\ Awaited(r) => Awaited(r)'
            /\ DataDue(r) => DataDue(r)'
        BY <1>0, <3>3, DataSent
      <4> QED
        BY <2>2, <3>1, <4>2, <4>3, CleanIntro
    <3>4. CASE RadioTelemetry
      <4>1. /\ Dropped(r) => Dropped(r)'
            /\ Awaited(r) => Awaited(r)'
            /\ DataDue(r) => DataDue(r)'
            /\ LineQuiet => LineQuiet'
        BY <1>0, <3>4, TelemetrySent
      <4>2. TrueVerdict(c, r)' <=> TrueVerdict(c, r)
        BY <3>1, <3>4 DEF RadioTelemetry, TrueVerdict
      <4> QED
        BY <2>2, <3>1, <4>1, <4>2, CleanIntro
    <3> QED
      BY <2>8, <3>2, <3>3, <3>4 DEF Radio
  <2> QED
    BY <1>2, <2>4, <2>5, <2>6, <2>7, <2>8 DEF Next
<1> QED
  BY <1>1, <1>2

-----------------------------------------------------------------------------
(***************************************************************************)
(* The theorems.                                                           *)
(***************************************************************************)
\* The initial state satisfies the invariant.
LEMMA InitInv == Init => IInv
<1> SUFFICES ASSUME Init
             PROVE  IInv
  OBVIOUS
<1>1. TypeOK
  <2>1. /\ 0 \in 0..MaxRequests /\ 0 \in 0..MaxTries /\ 0 \in 0..(Loops - 1)
        /\ 0 <= StackSize
    BY LinkAssumption
  <2>2. pc \in [Callers -> HostStates] /\ verdict \in [Callers -> Verdicts]
    BY DEF Init, HostStates, Verdicts
  <2>3. /\ job \in [Callers -> 0..MaxRequests]
        /\ tries \in [Callers -> 0..MaxTries]
        /\ loopcnt \in [Callers -> 0..(Loops - 1)]
    BY <2>1 DEF Init
  <2>4. /\ commstack \in Seq(StackVals) /\ Len(commstack) <= StackSize
        /\ toRadio \in Seq(Requests) /\ fromRadio \in Seq(Byte)
    BY <2>1 DEF Init
  <2>5. /\ filled \in [Callers -> BOOLEAN]
        /\ kind \in [Requests -> {"send", "request"}]
        /\ accepted \in [Requests -> Nat] /\ rejected \in [Requests -> Nat]
    BY DEF Init
  <2> QED
    BY <2>1, <2>2, <2>3, <2>4, <2>5 DEF Init, TypeOK
<1>2. LockInv /\ TryInv
  BY LinkAssumption DEF Init, LockInv, TryInv, Inside
<1>3. JobInv
  BY DEF Init, JobInv, Untouched
<1>4. WireInv /\ CleanInv
  BY DEF Init, WireInv, CleanInv
<1> QED
  BY <1>1, <1>2, <1>3, <1>4 DEF IInv

\* The invariant is inductive.
LEMMA Inductive == IInv /\ [Next]_vars => IInv'
<1> SUFFICES ASSUME IInv, [Next]_vars
             PROVE  IInv'
  OBVIOUS
<1>1. TypeOK /\ LockInv /\ TryInv /\ JobInv /\ WireInv /\ CleanInv
  BY DEF IInv
<1>2. TypeOK' /\ LockInv' /\ TryInv'
  BY <1>1, TypeStep, LockStep, TryStep
<1>3. JobInv' /\ WireInv' /\ CleanInv'
  BY <1>1, JobStep, WireStep, CleanStep
<1> QED
  BY <1>2, <1>3 DEF IInv

\* The invariant holds throughout every behaviour of the link.
THEOREM Invariance == Spec => []IInv
BY InitInv, Inductive, PTL DEF Spec

\* Whatever the number of threads, tries and reads: every variable keeps its
\* type, no loop of sendCmd runs over its bound, commstack fits its array.
THEOREM TypeCorrect == Spec => []TypeOK
<1>1. IInv => TypeOK
  BY DEF IInv
<1> QED
  BY <1>1, Invariance, PTL

\* mutex_serial does its work: one thread at a time is between the first
\* write of a command and its verdict, and the telemetry thread reads the port
\* only while there is none.
PortExclusive ==
  /\ \A c, d \in Callers : pc[c] \in Inside /\ pc[d] \in Inside => c = d
  /\ telemetry_pc = "read" => \A c \in Callers : pc[c] \notin Inside

\* The port is exclusive in every reachable state of every instance.
THEOREM PortIsExclusive == Spec => []PortExclusive
<1>1. IInv => PortExclusive
  BY LinkAssumption DEF IInv, LockInv, PortExclusive
<1> QED
  BY <1>1, Invariance, PTL

\* The verdicts of sendCmd and RequestData are the radio's own, for any number
\* of threads, requests, tries and reads, whatever a data block looks like and
\* however much telemetry comes in between.
THEOREM VerdictsAreSound == Spec => []VerdictSound
<1>1. IInv => VerdictSound
  BY DEF IInv, LockInv, CleanInv, CleanAt, VerdictSound, Inside
<1> QED
  BY <1>1, Invariance, PTL

-----------------------------------------------------------------------------
(***************************************************************************)
(* MAXTRIES.  The invariant counts the writes of a command against what    *)
(* the radio has done with them, on top of the invariant above.            *)
(***************************************************************************)
\* The radio has worked on request r so often, and has so many copies of it still on the
\* line, that n writes account for both.  The copies of a request follow one another on
\* the line, so that the places of two of them say how many there are.
Worked(r) == accepted[r] + rejected[r]
WithinWrites(r, n) ==
  /\ Worked(r) <= n
  /\ \A i, j \in 1..Len(toRadio) :
       toRadio[i] = r /\ toRadio[j] = r => Worked(r) + (j - i) + 1 <= n

\* Once request r is on the line, it is the last there.
LastOnLine(r) ==
  \A k \in 1..Len(toRadio) : toRadio[k] = r => toRadio[Len(toRadio)] = r

\* No caller has written more often than its loop variable says.
CopiesAt(c) ==
  /\ pc[c] = "write" => WithinWrites(job[c], tries[c])
  /\ pc[c] = "read" => WithinWrites(job[c], tries[c] + 1)
  /\ pc[c] \in Inside => LastOnLine(job[c])

CopiesInv ==
  /\ \A r \in Requests : WithinWrites(r, MaxTries)
  /\ \A c \in Callers : CopiesAt(c)

\* A further try only adds to what the writes account for.
LEMMA MoreTries ==
  ASSUME TypeOK, NEW r \in Requests, NEW m \in Nat, NEW n \in Nat, m <= n,
         WithinWrites(r, m)
  PROVE  WithinWrites(r, n)
<1>1. Worked(r) \in Nat /\ Len(toRadio) \in Nat
  BY DEF TypeOK, Worked
<1> QED
  BY <1>1 DEF WithinWrites

\* A request that nobody has written is within any number of writes.
LEMMA NoWrites ==
  ASSUME TypeOK, NEW r \in Requests, Untouched(r), NEW n \in Nat
  PROVE  WithinWrites(r, n) /\ LastOnLine(r)
<1>1. Worked(r) = 0
  BY DEF Untouched, Worked
<1>2. \A k \in 1..Len(toRadio) : toRadio[k] # r
  BY DEF Untouched
<1> QED
  BY <1>1, <1>2 DEF WithinWrites, LastOnLine

\* A step that leaves the radio and its line alone keeps CopiesInv when a caller that
\* goes back to its write has counted the try.
LEMMA CopiesFrame ==
  ASSUME IInv, CopiesInv, UNCHANGED <<toRadio, accepted, rejected>>, TypeOK',
         \A d \in Callers : pc'[d] \in Inside =>
           /\ job'[d] = job[d]
           /\ pc[d] \in Inside \/ pc[d] = "lock",
         \A d \in Callers : pc'[d] = "write" =>
           \/ pc[d] = "lock"
           \/ pc[d] = "write" /\ tries'[d] >= tries[d]
           \/ pc[d] = "read" /\ tries'[d] >= tries[d] + 1,
         \A d \in Callers : pc'[d] = "read" => pc[d] = "read" /\ tries'[d] = tries[d]
  PROVE  CopiesInv'
<1>1. \A r, n : (WithinWrites(r, n)' <=> WithinWrites(r, n))
                /\ (LastOnLine(r)' <=> LastOnLine(r))
  BY DEF WithinWrites, LastOnLine, Worked
<1>2. \A r \in Requests : WithinWrites(r, MaxTries)'
  BY <1>1 DEF CopiesInv
<1>3. ASSUME NEW d \in Callers
      PROVE  CopiesAt(d)'
  <2>1. CopiesAt(d) /\ TypeOK /\ JobInv
    BY DEF CopiesInv, IInv
  <2>2. CASE pc'[d] \notin Inside
    BY <2>2 DEF CopiesAt, Inside
  <2>3. CASE pc'[d] \in Inside
    <3>1. PICK r : r = job[d]
      OBVIOUS
    <3>2. job'[d] = r /\ pc[d] # "idle"
      BY <2>3, <3>1 DEF Inside
    <3>3. r \in Requests
      BY <2>1, <3>1, <3>2 DEF JobInv, TypeOK, Requests
    <3>4. tries[d] \in Nat /\ tries'[d] \in Nat
      BY <2>1, LinkAssumption DEF TypeOK
    <3>5. pc[d] = "lock" => Untouched(r)
      BY <2>1, <3>1 DEF JobInv
    <3>6. LastOnLine(r)'
      BY <1>1, <2>1, <2>3, <3>1, <3>3, <3>4, <3>5, NoWrites DEF CopiesAt
    <3>7. ASSUME pc'[d] = "write"
          PROVE  WithinWrites(r, tries'[d])
      <4>1. CASE pc[d] = "lock"
        BY <2>1, <3>3, <3>4, <3>5, <4>1, NoWrites
      <4>2. CASE pc[d] = "write" /\ tries'[d] >= tries[d]
        <5>1. WithinWrites(r, tries[d])
          BY <2>1, <3>1, <4>2 DEF CopiesAt
        <5> QED
          BY <2>1, <3>3, <3>4, <4>2, <5>1, MoreTries
      <4>3. CASE pc[d] = "read" /\ tries'[d] >= tries[d] + 1
        <5>1. WithinWrites(r, tries[d] + 1)
          BY <2>1, <3>1, <4>3 DEF CopiesAt
        <5> QED
          BY <2>1, <3>3, <3>4, <4>3, <5>1, MoreTries
      <4> QED
        BY <3>7, <4>1, <4>2, <4>3
    <3>8. ASSUME pc'[d] = "read"
          PROVE  WithinWrites(r, tries'[d] + 1)
      <4>1. pc[d] = "read" /\ tries'[d] = tries[d]
        BY <3>8
      <4> QED
        BY <2>1, <3>1, <4>1 DEF CopiesAt
    <3>9. PICK n, m : n = tries'[d] /\ m = tries'[d] + 1
      OBVIOUS
    <3>10. /\ pc'[d] = "write" => WithinWrites(r, n)'
           /\ pc'[d] = "read" => WithinWrites(r, m)'
      BY <1>1, <3>7, <3>8, <3>9
    <3> QED
      BY <3>2, <3>6, <3>9, <3>10 DEF CopiesAt, WithinWrites, LastOnLine, Worked
  <2> QED
    BY <2>2, <2>3
<1> QED
  BY <1>2, <1>3 DEF CopiesInv

\* A write adds one copy behind the others.
LEMMA CopyWritten ==
  ASSUME TypeOK, NEW r \in Requests, toRadio' = Append(toRadio, r),
         UNCHANGED <<accepted, rejected>>
  PROVE  /\ \A n \in Nat : LastOnLine(r) /\ WithinWrites(r, n) => WithinWrites(r, n + 1)'
         /\ \A q \in Requests, n \in Nat :
              q # r /\ WithinWrites(q, n) => WithinWrites(q, n)'
         /\ LastOnLine(r)'
<1>1. /\ toRadio \in Seq(Requests) /\ Len(toRadio) \in Nat
      /\ Len(toRadio') = Len(toRadio) + 1
      /\ toRadio'[Len(toRadio) + 1] = r
      /\ \A k \in 1..Len(toRadio) : toRadio'[k] = toRadio[k]
  BY DEF TypeOK
<1>2. \A q \in Requests : Worked(q) \in Nat /\ Worked(q)' = Worked(q)
  BY SMTT(30) DEF TypeOK, Worked
<1>3. ASSUME NEW n \in Nat, LastOnLine(r), WithinWrites(r, n)
      PROVE  WithinWrites(r, n + 1)'
  <2>1. Worked(r)' <= n + 1
    BY <1>2, <1>3 DEF WithinWrites
  <2>2. ASSUME NEW i \in 1..Len(toRadio'), NEW j \in 1..Len(toRadio'),
               toRadio'[i] = r, toRadio'[j] = r
        PROVE  Worked(r)' + (j - i) + 1 <= n + 1
    <3>1. CASE i = Len(toRadio) + 1
      BY <1>1, <1>2, <1>3, <2>2, <3>1 DEF WithinWrites
    <3>2. CASE i # Len(toRadio) + 1
      <4>1. i \in 1..Len(toRadio) /\ toRadio[i] = r
        BY <1>1, <2>2, <3>2
      <4>2. /\ Len(toRadio) \in 1..Len(toRadio)
            /\ toRadio[Len(toRadio)] = r
        BY <1>1, <1>3, <4>1 DEF LastOnLine
      <4>3. Worked(r) + (Len(toRadio) - i) + 1 <= n
        BY <1>3, <4>1, <4>2 DEF WithinWrites
      <4> QED
        BY <1>1, <1>2, <2>2, <4>1, <4>3, SMTT(30)
    <3> QED
      BY <3>1, <3>2
  <2> QED
    BY <2>1, <2>2 DEF WithinWrites
<1>4. ASSUME NEW q \in Requests, NEW n \in Nat, q # r, WithinWrites(q, n)
      PROVE  WithinWrites(q, n)'
  <2>1. \A k \in 1..Len(toRadio') : toRadio'[k] = q => k \in 1..Len(toRadio)
    BY <1>1, <1>4
  <2> QED
    BY <1>1, <1>2, <1>4, <2>1 DEF WithinWrites
<1>5. LastOnLine(r)'
  BY <1>1 DEF LastOnLine
<1> QED
  BY <1>3, <1>4, <1>5

\* The radio takes a copy off the front of the line and works on it at most once.
LEMMA CopyTaken ==
  ASSUME TypeOK, toRadio # <<>>, toRadio' = Tail(toRadio),
         \A q \in Requests :
           Worked(q)' = Worked(q) \/ (q = Head(toRadio) /\ Worked(q)' = Worked(q) + 1),
         NEW r \in Requests
  PROVE  /\ \A n \in Nat : WithinWrites(r, n) => WithinWrites(r, n)'
         /\ LastOnLine(r) => LastOnLine(r)'
<1>1. /\ toRadio \in Seq(Requests) /\ Len(toRadio) \in Nat \ {0}
      /\ Head(toRadio) = toRadio[1]
      /\ Len(toRadio') = Len(toRadio) - 1
      /\ \A k \in 1..Len(toRadio') : k + 1 \in 1..Len(toRadio) /\ toRadio'[k] = toRadio[k + 1]
  BY SMTT(30) DEF TypeOK
<1>2. Worked(r) \in Nat
  BY SMTT(30) DEF TypeOK, Worked
<1>3. ASSUME NEW n \in Nat, WithinWrites(r, n)
      PROVE  WithinWrites(r, n)'
  <2>1. CASE Worked(r)' = Worked(r)
    <3>1. ASSUME NEW i \in 1..Len(toRadio'), NEW j \in 1..Len(toRadio'),
                 toRadio'[i] = r, toRadio'[j] = r
          PROVE  Worked(r)' + (j - i) + 1 <= n
      <4>1. Worked(r) + ((j + 1) - (i + 1)) + 1 <= n
        BY <1>1, <1>3, <3>1 DEF WithinWrites
      <4> QED
        BY <1>2, <2>1, <4>1
    <3> QED
      BY <1>3, <2>1, <3>1 DEF WithinWrites
  <2>2. CASE toRadio[1] = r /\ Worked(r)' = Worked(r) + 1
    <3>1. Worked(r)' <= n
      <4>1. 1 \in 1..Len(toRadio)
        BY <1>1
      <4>2. Worked(r) + (1 - 1) + 1 <= n
        BY <1>3, <2>2, <4>1 DEF WithinWrites
      <4> QED
        BY <1>2, <2>2, <4>2
    <3>2. ASSUME NEW i \in 1..Len(toRadio'), NEW j \in 1..Len(toRadio'),
                 toRadio'[i] = r, toRadio'[j] = r
          PROVE  Worked(r)' + (j - i) + 1 <= n
      <4>1. 1 \in 1..Len(toRadio) /\ j + 1 \in 1..Len(toRadio) /\ toRadio[j + 1] = r
        BY <1>1, <3>2
      <4>2. Worked(r) + ((j + 1) - 1) + 1 <= n
        BY <1>3, <2>2, <4>1 DEF WithinWrites
      <4> QED
        BY <1>2, <2>2, <4>2
    <3> QED
      BY <3>1, <3>2 DEF WithinWrites
  <2> QED
    BY <1>1, <2>1, <2>2
<1>4. ASSUME LastOnLine(r)
      PROVE  LastOnLine(r)'
  <2>1. ASSUME NEW k \in 1..Len(toRadio'), toRadio'[k] = r
        PROVE  toRadio'[Len(toRadio')] = r
    <3>1. toRadio[Len(toRadio)] = r
      BY <1>1, <1>4, <2>1 DEF LastOnLine
    <3> QED
      BY <1>1, <2>1, <3>1
  <2> QED
    BY <2>1 DEF LastOnLine
<1> QED
  BY <1>3, <1>4

\* Every step keeps the copies within the tries.
LEMMA CopiesStep ==
  ASSUME IInv, CopiesInv, [Next]_vars
  PROVE  CopiesInv'
<1> USE DEF hostVars, radioVars, stackVars
<1>1. TypeOK /\ TryInv /\ JobInv
  BY DEF IInv
<1>2. /\ pc \in [Callers -> HostStates] /\ tries \in [Callers -> 0..MaxTries]
      /\ job \in [Callers -> 0..MaxRequests] /\ MaxTries \in Nat
      /\ toRadio \in Seq(Requests)
      /\ accepted \in [Requests -> Nat] /\ rejected \in [Requests -> Nat]
  BY <1>1, LinkAssumption DEF TypeOK
<1>9. \A d \in Callers : tries[d] \in Nat
  BY <1>2
<1>10. \A d \in Callers : pc[d] # "idle" => job[d] \in Requests
  BY <1>1 DEF JobInv, TypeOK, Requests
<1>11. TypeOK'
  BY <1>1, TypeStep
<1>3. CASE UNCHANGED <<pc, job, tries, toRadio, accepted, rejected>>
  <2>1. \A d \in Callers : tries[d] >= tries[d]
    BY <1>9
  <2> QED
    BY <1>1, <1>3, <1>11, <2>1, CopiesFrame
<1>4. ASSUME NEW c \in Callers,
             \/ Call(c) \/ Lock(c) \/ WriteError(c) \/ Fail(c) \/ ReadAnswer(c)
             \/ ReadOther(c) \/ ReadTimeout(c) \/ ReadData(c) \/ Leave(c)
      PROVE  CopiesInv'
  <2>1. UNCHANGED <<toRadio, accepted, rejected>>
    BY <1>4 DEF Call, Lock, WriteError, Fail, ReadAnswer, ReadOther, ReadTimeout,
                ReadData, Leave
  <2>2. \A d \in Callers : d # c =>
          pc'[d] = pc[d] /\ job'[d] = job[d] /\ tries'[d] = tries[d]
    BY <1>2, <1>4 DEF Call, Lock, WriteError, Fail, ReadAnswer, ReadOther, ReadTimeout,
                ReadData, Leave, NextRead
  <2>3. pc'[c] \in Inside =>
          job'[c] = job[c] /\ (pc[c] \in Inside \/ pc[c] = "lock")
    BY <1>2, <1>4 DEF Call, Lock, WriteError, Fail, ReadAnswer, ReadOther, ReadTimeout,
                ReadData, Leave, NextRead, Inside
  <2>4. pc'[c] = "write" =>
          \/ pc[c] = "lock"
          \/ pc[c] = "write" /\ tries'[c] >= tries[c]
          \/ pc[c] = "read" /\ tries'[c] >= tries[c] + 1
    BY <1>2, <1>4 DEF Call, Lock, WriteError, Fail, ReadAnswer, ReadOther, ReadTimeout,
                ReadData, Leave, NextRead
  <2>5. pc'[c] = "read" => pc[c] = "read" /\ tries'[c] = tries[c]
    BY <1>2, <1>4 DEF Call, Lock, WriteError, Fail, ReadAnswer, ReadOther, ReadTimeout,
                ReadData, Leave, NextRead
  <2>6. \A d \in Callers : tries[d] >= tries[d]
    BY <1>9
  <2>7. \A d \in Callers : pc'[d] \in Inside =>
           job'[d] = job[d] /\ (pc[d] \in Inside \/ pc[d] = "lock")
    BY <2>2, <2>3
  <2>8. \A d \in Callers : pc'[d] = "write" =>
          \/ pc[d] = "lock"
          \/ pc[d] = "write" /\ tries'[d] >= tries[d]
          \/ pc[d] = "read" /\ tries'[d] >= tries[d] + 1
    BY <2>2, <2>4, <2>6
  <2>9. \A d \in Callers : pc'[d] = "read" => pc[d] = "read" /\ tries'[d] = tries[d]
    BY <2>2, <2>5
  <2> QED
    BY <1>1, <1>11, <2>1, <2>7, <2>8, <2>9, CopiesFrame
<1>5. ASSUME NEW c \in Callers, Write(c)
      PROVE  CopiesInv'
  <2>1. PICK r \in Requests : r = job[c]
    BY <1>10, <1>5 DEF Write
  <2>2. /\ pc[c] = "write" /\ pc' = [pc EXCEPT ![c] = "read"]
        /\ tries[c] < MaxTries /\ UNCHANGED <<job, tries, accepted, rejected>>
        /\ toRadio' = Append(toRadio, r)
    BY <1>5, <2>1 DEF Write
  <2>3. WithinWrites(r, tries[c]) /\ LastOnLine(r)
    BY <2>1, <2>2 DEF CopiesInv, CopiesAt, Inside
  <2>4. PICK n \in Nat : n = tries[c]
    BY <1>9
  <2>5. WithinWrites(r, n + 1)' /\ LastOnLine(r)'
    BY <1>1, <2>2, <2>3, <2>4, CopyWritten
  <2>6. \A q \in Requests, m \in Nat :
          q # r /\ WithinWrites(q, m) => WithinWrites(q, m)'
    BY <1>1, <2>2, CopyWritten
  <2>7. ASSUME NEW q \in Requests
        PROVE  WithinWrites(q, MaxTries)'
    <3>1. CASE q = r
      <4>1. n + 1 <= MaxTries /\ n + 1 \in Nat
        BY <1>2, <2>2, <2>4
      <4>2. PICK m \in Nat : m = n + 1
        BY <4>1
      <4>3. /\ Worked(r)' \in Nat /\ Len(toRadio') \in Nat
            /\ Worked(r)' <= m
        BY <1>2, <2>2, <2>5, <4>2 DEF WithinWrites, Worked
      <4>4. \A i, j \in 1..Len(toRadio') :
              toRadio'[i] = r /\ toRadio'[j] = r => Worked(r)' + (j - i) + 1 <= m
        BY <2>5, <4>2 DEF WithinWrites
      <4>5. \A i, j \in 1..Len(toRadio') :
              toRadio'[i] = r /\ toRadio'[j] = r => Worked(r)' + (j - i) + 1 <= MaxTries
        <5>1. ASSUME NEW i \in 1..Len(toRadio'), NEW j \in 1..Len(toRadio'),
                     Worked(r)' + (j - i) + 1 <= m
              PROVE  Worked(r)' + (j - i) + 1 <= MaxTries
          BY <1>2, <4>1, <4>2, <4>3, <5>1, SMTT(30)
        <5> QED
          BY <4>4, <5>1
      <4>6. Worked(r)' <= MaxTries
        BY <1>2, <4>1, <4>2, <4>3
      <4> QED
        BY <3>1, <4>5, <4>6 DEF WithinWrites
    <3>2. CASE q # r
      <4>1. WithinWrites(q, MaxTries)
        BY DEF CopiesInv
      <4> QED
        BY <1>2, <2>6, <3>2, <4>1
    <3> QED
      BY <3>1, <3>2
  <2>8. CopiesAt(c)'
    BY <1>2, <2>1, <2>2, <2>4, <2>5, ZenonT(30) DEF CopiesAt, Inside, WithinWrites, LastOnLine, Worked
  <2>9. ASSUME NEW d \in Callers, d # c
        PROVE  CopiesAt(d)'
    <3>1. pc'[d] = pc[d] /\ pc[d] \notin Inside
      BY <1>2, <2>2, <2>9 DEF IInv, LockInv, Inside
    <3> QED
      BY <3>1 DEF CopiesAt, Inside
  <2> QED
    BY <2>7, <2>8, <2>9 DEF CopiesInv
<1>6. CASE RadioAccept \/ RadioReject \/ RadioDrop
  <2>1. /\ toRadio # <<>> /\ toRadio' = Tail(toRadio)
        /\ UNCHANGED <<pc, job, tries>>
    BY <1>6 DEF RadioAccept, RadioReject, RadioDrop
  <2>2. Head(toRadio) \in Requests
    BY <1>2, <2>1
  <2>3. accepted \in [Requests -> Nat] /\ rejected \in [Requests -> Nat]
    BY <1>1 DEF TypeOK
  <2>4. \A q \in Requests :
          Worked(q)' = Worked(q) \/ (q = Head(toRadio) /\ Worked(q)' = Worked(q) + 1)
    <3>1. CASE RadioAccept
      BY <2>2, <2>3, <3>1 DEF RadioAccept, Worked
    <3>2. CASE RadioReject
      BY <2>2, <2>3, <3>2 DEF RadioReject, Worked
    <3>3. CASE RadioDrop
      BY <3>3 DEF RadioDrop, Worked
    <3> QED
      BY <1>6, <3>1, <3>2, <3>3
  <2>5. \A q \in Requests :
          /\ \A n \in Nat : WithinWrites(q, n) => WithinWrites(q, n)'
          /\ LastOnLine(q) => LastOnLine(q)'
    BY <1>1, <2>1, <2>4, CopyTaken
  <2>6. \A q \in Requests : WithinWrites(q, MaxTries)'
    BY <1>2, <2>5 DEF CopiesInv
  <2>7. ASSUME NEW d \in Callers, pc[d] \in Inside
        PROVE  CopiesAt(d)'
    <3>1. PICK r \in Requests : r = job[d]
      BY <1>10, <2>7 DEF Inside
    <3>2. PICK n \in Nat : n = tries[d]
      BY <1>9
    <3>3. /\ pc[d] = "write" => WithinWrites(r, n)'
          /\ pc[d] = "read" => WithinWrites(r, n + 1)'
          /\ LastOnLine(r)'
      BY <2>5, <2>7, <3>1, <3>2 DEF CopiesInv, CopiesAt
    <3> QED
      BY <2>1, <3>1, <3>2, <3>3 DEF CopiesAt, WithinWrites, LastOnLine, Worked
  <2>8. ASSUME NEW d \in Callers, pc[d] \notin Inside
        PROVE  CopiesAt(d)'
    BY <2>1, <2>8 DEF CopiesAt, Inside
  <2> QED
    BY <2>6, <2>7, <2>8 DEF CopiesInv
<1>7. CASE \/ TelemetryLock \/ TelemetryRead \/ TelemetryPush \/ parseTelemetry
           \/ RadioData \/ RadioTelemetry \/ UNCHANGED vars
  BY <1>3, <1>7 DEF TelemetryLock, TelemetryRead, TelemetryPush, parseTelemetry,
     RadioData, RadioTelemetry, vars
<1>8. ASSUME NEW c \in Callers, Caller(c)
      PROVE  CopiesInv'
  BY <1>4, <1>5, <1>8 DEF Caller
<1> QED
  BY <1>6, <1>7, <1>8 DEF Next, Radio

\* At the start nothing has been written.
LEMMA CopiesInit == Init => CopiesInv
BY LinkAssumption DEF Init, CopiesInv, CopiesAt, WithinWrites, LastOnLine, Worked, Inside

\* For any number of threads, requests, tries and reads, and however late the answers
\* come: the radio works on a command at most MAXTRIES times.
THEOREM MaxTriesAreKept == Spec => []AtMostMaxTries
<1>1. CopiesInv => AtMostMaxTries
  BY DEF CopiesInv, WithinWrites, Worked, AtMostMaxTries
<1>2. IInv /\ CopiesInv /\ [Next]_vars => CopiesInv'
  BY CopiesStep
<1> QED
  BY <1>1, <1>2, CopiesInit, Invariance, PTL DEF Spec

-----------------------------------------------------------------------------
(***************************************************************************)
(* The refinement of CommandChannel, step by step.                         *)
(***************************************************************************)
\* Which phase a caller is in.
LEMMA PhaseIs ==
  ASSUME pc \in [Callers -> HostStates], NEW c \in Callers
  PROVE  /\ Phase[c] = "idle" <=> pc[c] = "idle"
         /\ Phase[c] = "asked" <=> pc[c] = "lock"
         /\ Phase[c] = "answered" <=> pc[c] = "leave"
         /\ Phase[c] = "served" <=> pc[c] \in {"write", "read", "data"}
BY DEF Phase, HostStates

\* The channel serves the one caller that has mutex_serial.
LEMMA InServiceIs ==
  ASSUME TypeOK, LockInv
  PROVE  Channel!InService = {c \in Callers : mutex_serial = c}
<1>1. pc \in [Callers -> HostStates]
  BY DEF TypeOK
<1>2. \A c \in Callers : Phase[c] \in {"served", "answered"} <=> pc[c] \in Inside
  BY <1>1, PhaseIs DEF Inside
<1> QED
  BY <1>2 DEF Channel!InService, LockInv

\* The fate of the request of the caller in service.
FateOf(r) == IF accepted[r] > 0 THEN "accepted"
             ELSE IF rejected[r] > 0 THEN "rejected" ELSE "none"

\* The two maps stay when the variables they read stay.
LEMMA MapsStay ==
  /\ pc' = pc => Phase' = Phase
  /\ UNCHANGED <<mutex_serial, accepted, rejected, job>> => Fate' = Fate
BY DEF Phase, Fate, ServedBy

\* The initial states of the link are initial states of the channel.
LEMMA ChannelInit == Init => Channel!Init
<1> SUFFICES ASSUME Init
             PROVE  Channel!Init
  OBVIOUS
<1>1. Phase = [c \in Callers |-> "idle"]
  BY DEF Init, Phase
<1>2. Fate = [c \in Callers |-> "none"]
  BY LinkAssumption DEF Init, Fate, ServedBy
<1> QED
  BY <1>1, <1>2 DEF Init, Channel!Init, Channel!Undecided

\* A step that leaves the phases, the fate and the verdicts of the callers alone is a
\* stutter of the channel, or an answer that came too late.
LEMMA LateOrStutter ==
  ASSUME clean \in BOOLEAN, clean' \in BOOLEAN, clean' => clean,
         Phase' = Phase, Fate' = Fate, verdict' = verdict
  PROVE  [Channel!Next]_Channel!vars
<1>1. CASE clean' = clean
  BY <1>1 DEF Channel!vars
<1>2. CASE clean' # clean
  <2>1. clean /\ clean' = FALSE
    BY <1>2
  <2> QED
    BY <2>1 DEF Channel!Next, Channel!AnswerLate
<1> QED
  BY <1>1, <1>2

\* A step that ends the command of caller c with the verdict the radio gave it, if no
\* answer is late, is an answer of the channel.
LEMMA AnswerStep ==
  ASSUME TypeOK, LockInv, VerdictSound', NEW c \in Callers, NEW v \in Verdicts, v # "none",
         pc[c] \in {"write", "read", "data"}, pc' = [pc EXCEPT ![c] = "leave"],
         verdict' = [verdict EXCEPT ![c] = v],
         UNCHANGED <<mutex_serial, accepted, rejected, job>>,
         clean' \in BOOLEAN, clean' => clean
  PROVE  Channel!Answer(c)
<1>1. /\ pc \in [Callers -> HostStates] /\ "leave" \in HostStates
      /\ verdict \in [Callers -> Verdicts]
  BY DEF TypeOK, HostStates
<1>2. Phase[c] = "served" /\ Phase' = [Phase EXCEPT ![c] = "answered"]
  <2>1. Phase[c] = "served"
    BY <1>1, PhaseIs
  <2>2. Phase' = [Phase EXCEPT ![c] = "answered"]
    BY <1>1 DEF Phase
  <2> QED
    BY <2>1, <2>2
<1>3. Fate' = Fate /\ Fate[c] = FateOf(job[c])
  <2>1. mutex_serial = c
    BY DEF LockInv, Inside
  <2> QED
    BY <2>1, MapsStay DEF Fate, FateOf, ServedBy
<1>4. clean' => Channel!Matches(v, Fate[c])
  <2>1. pc'[c] = "leave" /\ verdict'[c] = v /\ job'[c] = job[c]
    BY <1>1
  <2>2. clean' => TrueVerdict(c, job[c])'
    BY <2>1 DEF VerdictSound
  <2> QED
    BY <1>3, <2>1, <2>2 DEF TrueVerdict, Channel!Matches, FateOf, Channel!Undecided
<1>5. v \in Channel!Verdicts \ {"none"}
  BY DEF Verdicts, Channel!Verdicts
<1> QED
  BY <1>2, <1>3, <1>4, <1>5 DEF Channel!Answer

\* A step of the radio that takes a command off the line decides the fate of the command
\* in service, or leaves the channel as it is; as long as no answer is late it decides
\* once.
LEMMA DecideStep ==
  ASSUME IInv, RadioAccept \/ RadioReject
  PROVE  [Channel!Next]_Channel!vars
<1>1. /\ UNCHANGED <<mutex_serial, pc, job, verdict, clean>>
      /\ toRadio # <<>>
  BY DEF RadioAccept, RadioReject, hostVars
<1>2. Phase' = Phase
  BY <1>1, MapsStay
<1>3. PICK q \in Requests : q = Head(toRadio)
  <2>1. toRadio \in Seq(Requests)
    BY DEF IInv, TypeOK
  <2> QED
    BY <1>1, <2>1
<1>4. \A r \in Requests : r # q => FateOf(r)' = FateOf(r)
  <2>1. accepted \in [Requests -> Nat] /\ rejected \in [Requests -> Nat]
    BY DEF IInv, TypeOK
  <2> QED
    BY <1>3, <2>1 DEF RadioAccept, RadioReject, FateOf
<1>5. \A r \in Requests : Undecided(r) \/ FateOf(r) \in {"accepted", "rejected"}
  <2>1. accepted \in [Requests -> Nat] /\ rejected \in [Requests -> Nat]
    BY DEF IInv, TypeOK
  <2> QED
    BY <2>1 DEF FateOf, Undecided
<1>6. FateOf(q)' \in {"accepted", "rejected"}
  <2>1. accepted \in [Requests -> Nat] /\ rejected \in [Requests -> Nat]
    BY DEF IInv, TypeOK
  <2>2. accepted'[q] > 0 \/ rejected'[q] > 0
    BY <1>3, <2>1 DEF RadioAccept, RadioReject
  <2> QED
    BY <2>2 DEF FateOf
<1>7. CASE mutex_serial \notin Callers
  <2>1. Fate' = Fate
    BY <1>1, <1>7 DEF Fate, ServedBy
  <2> QED
    BY <1>1, <1>2, <2>1 DEF Channel!vars
<1>8. CASE mutex_serial \in Callers
  <2>1. PICK c \in Callers : mutex_serial = c
    BY <1>8
  <2>2. PICK r \in Requests : r = job[c]
    <3>1. pc[c] # "idle"
      BY <2>1 DEF IInv, LockInv, Inside
    <3>2. job[c] \in 1..issued /\ issued \in 0..MaxRequests
      BY <3>1 DEF IInv, JobInv, TypeOK
    <3> QED
      BY <3>2, LinkAssumption DEF Requests
  <2>3. /\ Fate = [d \in Callers |-> IF d = c THEN FateOf(r) ELSE "none"]
        /\ Fate' = [d \in Callers |-> IF d = c THEN FateOf(r)' ELSE "none"]
    BY <1>1, <2>1, <2>2 DEF Fate, ServedBy, FateOf
  <2>4. CASE FateOf(r)' = FateOf(r)
    <3>1. Fate' = Fate
      BY <2>3, <2>4
    <3> QED
      BY <1>1, <1>2, <3>1 DEF Channel!vars
  <2>5. CASE r = q
    <3>1. Fate' = [Fate EXCEPT ![c] = FateOf(r)']
      BY <2>3
    <3>2. c \in Channel!InService
      BY <2>1, InServiceIs DEF IInv
    <3>3. clean => Fate[c] = "none"
      <4>1. clean => CleanAt(c) /\ pc[c] \in Inside
        BY <2>1 DEF IInv, CleanInv, LockInv
      <4>2. clean => Undecided(r)
        BY <1>1, <2>2, <4>1 DEF CleanAt, Inside, Awaited, AnswerAt, OnItsWay, Dropped,
           DataDue, LineQuiet
      <4> QED
        BY <2>3, <4>2 DEF Undecided, FateOf
    <3>4. Channel!Decide(c)
      BY <1>1, <1>2, <1>6, <2>5, <3>1, <3>2, <3>3 DEF Channel!Decide, Channel!Undecided
    <3> QED
      BY <3>4 DEF Channel!Next
  <2> QED
    BY <1>4, <2>4, <2>5
<1> QED
  BY <1>7, <1>8

\* Every step of the link is a step of the channel, or a stutter.
LEMMA ChannelStep ==
  ASSUME IInv, IInv', [Next]_vars
  PROVE  [Channel!Next]_Channel!vars
<1> USE DEF hostVars, radioVars, stackVars
<1>1. TypeOK /\ LockInv
  BY DEF IInv
<1>2. /\ pc \in [Callers -> HostStates] /\ verdict \in [Callers -> Verdicts]
      /\ job \in [Callers -> 0..MaxRequests]
      /\ clean \in BOOLEAN /\ clean' \in BOOLEAN
  BY DEF IInv, TypeOK
<1>3. VerdictSound'
  BY DEF IInv, LockInv, CleanInv, CleanAt, VerdictSound, Inside
<1>4. ASSUME NEW c \in Callers, Call(c)
      PROVE  Channel!Ask(c)
  <2>1. /\ pc[c] = "idle" /\ pc' = [pc EXCEPT ![c] = "lock"]
        /\ job' = [job EXCEPT ![c] = issued + 1]
        /\ UNCHANGED <<mutex_serial, verdict, clean, accepted, rejected>>
    BY <1>4 DEF Call
  <2>2. Phase[c] = "idle"
    BY <1>2, <2>1, PhaseIs
  <2>3. Phase' = [Phase EXCEPT ![c] = "asked"]
    BY <1>2, <2>1 DEF Phase
  <2>4. mutex_serial # c
    BY <1>1, <2>1 DEF LockInv, Inside
  <2>5. Fate' = Fate
    BY <1>2, <2>1, <2>4 DEF Fate, ServedBy
  <2> QED
    BY <2>1, <2>2, <2>3, <2>5 DEF Channel!Ask
<1>5. ASSUME NEW c \in Callers, Lock(c)
      PROVE  Channel!Begin(c)
  <2>1. /\ pc[c] = "lock" /\ pc' = [pc EXCEPT ![c] = "write"]
        /\ mutex_serial = NoOne /\ mutex_serial' = c
        /\ UNCHANGED <<job, verdict, accepted, rejected>>
    BY <1>5 DEF Lock
  <2>2. Phase[c] = "asked"
    BY <1>2, <2>1, PhaseIs
  <2>3. Phase' = [Phase EXCEPT ![c] = "served"]
    BY <1>2, <2>1 DEF Phase
  <2>4. Channel!InService = {}
    BY <1>1, <2>1, InServiceIs, LinkAssumption
  <2>5. Fate' = Fate
    <3>1. accepted[job[c]] = 0 /\ rejected[job[c]] = 0
      BY <2>1 DEF IInv, JobInv, Untouched
    <3>2. NoOne \notin Callers
      BY LinkAssumption
    <3> QED
      BY <2>1, <3>1, <3>2 DEF Fate, ServedBy
  <2> QED
    BY <1>2, <2>1, <2>2, <2>3, <2>4, <2>5 DEF Channel!Begin
<1>6. ASSUME NEW c \in Callers,
             Write(c) \/ WriteError(c) \/ ReadOther(c) \/ ReadTimeout(c)
      PROVE  [Channel!Next]_Channel!vars
  <2>1. UNCHANGED <<mutex_serial, job, verdict, accepted, rejected>>
    BY <1>6 DEF Write, WriteError, ReadOther, ReadTimeout
  <2>2. clean' => clean
    BY <1>6 DEF Write, WriteError, ReadOther, ReadTimeout, NextRead
  <2>3. /\ pc[c] \in {"write", "read"}
        /\ pc' = pc \/ \E p \in {"write", "read"} : pc' = [pc EXCEPT ![c] = p]
    BY <1>6 DEF Write, WriteError, ReadOther, ReadTimeout, NextRead
  <2>4. Phase' = Phase
    BY <1>2, <2>3 DEF Phase
  <2> QED
    BY <1>2, <2>1, <2>2, <2>4, MapsStay, LateOrStutter
<1>7. ASSUME NEW c \in Callers, Fail(c)
      PROVE  Channel!Answer(c)
  <2>1. "FAIL" \in Verdicts
    BY DEF Verdicts
  <2> QED
    BY <1>1, <1>2, <1>3, <1>7, <2>1, AnswerStep DEF Fail
<1>8. ASSUME NEW c \in Callers, ReadAnswer(c)
      PROVE  [Channel!Next]_Channel!vars
  <2>1. /\ pc[c] = "read"
        /\ UNCHANGED <<mutex_serial, job, accepted, rejected, clean>>
    BY <1>8 DEF ReadAnswer
  <2>2. CASE pc' = [pc EXCEPT ![c] = "data"] /\ UNCHANGED verdict
    <3>1. Phase' = Phase
      BY <1>2, <2>1, <2>2 DEF Phase
    <3> QED
      BY <1>2, <2>1, <2>2, <3>1, MapsStay, LateOrStutter
  <2>3. ASSUME NEW v \in {"REJ", "OK"}, pc' = [pc EXCEPT ![c] = "leave"],
               verdict' = [verdict EXCEPT ![c] = v]
        PROVE  Channel!Answer(c)
    <3>1. v \in Verdicts /\ v # "none"
      BY DEF Verdicts
    <3> QED
      BY <1>1, <1>2, <1>3, <2>1, <2>3, <3>1, AnswerStep
  <2>4. \/ pc' = [pc EXCEPT ![c] = "data"] /\ UNCHANGED verdict
        \/ \E v \in {"REJ", "OK"} :
             pc' = [pc EXCEPT ![c] = "leave"] /\ verdict' = [verdict EXCEPT ![c] = v]
    BY <1>8 DEF ReadAnswer
  <2> QED
    BY <2>2, <2>3, <2>4 DEF Channel!Next
<1>9. ASSUME NEW c \in Callers, ReadData(c)
      PROVE  Channel!Answer(c)
  <2>1. "DATA" \in Verdicts
    BY DEF Verdicts
  <2>2. clean' => clean
    BY <1>9 DEF ReadData
  <2> QED
    BY <1>1, <1>2, <1>3, <1>9, <2>1, <2>2, AnswerStep DEF ReadData
<1>10. ASSUME NEW c \in Callers, Leave(c)
       PROVE  Channel!Return(c)
  <2>1. /\ pc[c] = "leave" /\ pc' = [pc EXCEPT ![c] = "idle"]
        /\ mutex_serial' = NoOne /\ clean' = FALSE
        /\ verdict' = [verdict EXCEPT ![c] = "none"]
    BY <1>10 DEF Leave
  <2>2. Phase[c] = "answered"
    BY <1>2, <2>1, PhaseIs
  <2>3. Phase' = [Phase EXCEPT ![c] = "idle"]
    BY <1>2, <2>1 DEF Phase
  <2>4. Fate' = [Fate EXCEPT ![c] = "none"]
    <3>1. mutex_serial = c
      BY <1>1, <2>1 DEF LockInv, Inside
    <3>2. NoOne \notin Callers
      BY LinkAssumption
    <3> QED
      BY <2>1, <3>1, <3>2 DEF Fate, ServedBy
  <2> QED
    BY <2>1, <2>2, <2>3, <2>4 DEF Channel!Return, Channel!Undecided
<1>11. CASE TelemetryLock \/ TelemetryRead
  <2>1. UNCHANGED <<pc, job, verdict, accepted, rejected, clean>>
    BY <1>11 DEF TelemetryLock, TelemetryRead
  <2>2. mutex_serial \notin Callers /\ mutex_serial' \notin Callers
    BY <1>1, <1>11, LinkAssumption DEF TelemetryLock, TelemetryRead, LockInv
  <2>3. Fate' = Fate
    BY <2>2 DEF Fate, ServedBy
  <2> QED
    BY <1>2, <2>1, <2>3, MapsStay, LateOrStutter
<1>12. CASE \/ TelemetryPush \/ parseTelemetry
            \/ RadioDrop \/ RadioData \/ RadioTelemetry \/ UNCHANGED vars
  <2>1. UNCHANGED <<mutex_serial, pc, job, verdict, accepted, rejected, clean>>
    BY <1>12 DEF TelemetryPush, parseTelemetry, RadioDrop, RadioData, RadioTelemetry, vars
  <2> QED
    BY <1>2, <2>1, MapsStay, LateOrStutter
<1>13. CASE RadioAccept \/ RadioReject
  BY <1>13, DecideStep
<1>14. ASSUME NEW c \in Callers, Caller(c)
       PROVE  [Channel!Next]_Channel!vars
  <2>1. CASE Call(c) \/ Lock(c) \/ Fail(c) \/ ReadData(c) \/ Leave(c)
    BY <1>4, <1>5, <1>7, <1>9, <1>10, <2>1 DEF Channel!Next
  <2> QED
    BY <1>6, <1>8, <1>14, <2>1 DEF Caller
<1> QED
  BY <1>11, <1>12, <1>13, <1>14 DEF Next, Radio

\* The link keeps the promise of CommandChannel in every instance: every behaviour of the
\* threads, the line and the radio is one of a channel that serves one command at a time
\* and, as long as no answer is late, tells each caller the one fate its command had.
THEOREM LinkServesCommands == Spec => ChannelSpec
<1>1. IInv /\ [Next]_vars => [Channel!Next]_Channel!vars
  BY Inductive, ChannelStep
<1> QED
  BY <1>1, ChannelInit, Invariance, PTL DEF Spec, ChannelSpec, Channel!Spec

=============================================================================
