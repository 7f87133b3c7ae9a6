----------------------------- MODULE SerialLink -----------------------------
(***************************************************************************)
(* The serial link between kcat and the Kachina 505DSP                     *)
(* (src/support/kcat_io.cxx, src/support/serialcomm.cxx and the telemetry  *)
(* thread of src/support/support.cxx).                                     *)
(*                                                                         *)
(* Several threads call sendCmd (the GUI, the watchdog, the CW keyboard),  *)
(* the GUI also calls RequestData, and the telemetry thread reads the same *)
(* port.  mutex_serial is held from the first write of a command to the    *)
(* verdict.  The radio answers a command with one byte, "FF" for accepted  *)
(* or "FE" for rejected ("FD" and a block of data for a data request), and *)
(* puts telemetry bytes on the line at any time.  Nothing in an answer     *)
(* says which command it answers: the host takes the next one it reads.    *)
(*                                                                         *)
(* A request has a number that only the properties read: the field "of" of *)
(* a byte is the request it answers, 0 for telemetry.                      *)
(***************************************************************************)
EXTENDS Integers, Sequences

CONSTANTS
  Callers,       \* the threads that call sendCmd
  Gui,           \* the one of them that calls RequestData and parseTelemetry
  Telemetry,     \* the telemetry thread
  MaxTries,      \* MAXTRIES: how often a command is written
  Loops,         \* LOOPS: how many single-byte reads wait for its answer
  DataVals,      \* what a byte of a data block may look like to a 1-byte read
  StackSize,     \* the capacity of commstack
  MaxRequests,   \* bound: requests issued in one behaviour
  MaxOnLine      \* bound: telemetry waits while this many bytes are unread

NoOne == "no one"

ASSUME LinkAssumption ==
  /\ Gui \in Callers /\ Telemetry \notin Callers
  /\ NoOne \notin Callers \cup {Telemetry}
  /\ MaxTries \in Nat \ {0} /\ Loops \in Nat \ {0}
  /\ DataVals \subseteq {"FF", "FE", "FD", "T"}
  /\ StackSize \in Nat \ {0}
  /\ MaxRequests \in Nat /\ MaxOnLine \in Nat

VARIABLES
  mutex_serial,  \* the thread that holds it, or NoOne
  pc,            \* where each caller is: see TypeOK
  telemetry_pc,  \* where telemetry_thread_loop is
  job,           \* the number of the request each caller is working on
  kind,          \* per request: "send" (sendCmd) or "request" (RequestData)
  tries,         \* the loop variable i of a caller
  loopcnt,       \* reads since the last write
  verdict,       \* per caller: how its command ended (retval and ret)
  filled,        \* RequestData: the whole data block was read into buff
  buff,          \* the byte the telemetry thread has read, or "none"
  commstack,     \* telemetry bytes for the GUI, top at the end
  awake,         \* a parseTelemetry call is queued for the GUI thread
  toRadio,       \* commands on the line that the radio has not looked at
  owed,          \* the request whose data block the radio has still to send
  fromRadio,     \* bytes on the line that the host has not read
  accepted,      \* per request: how often the radio accepted it
  rejected,      \* per request: how often the radio rejected it
  issued,        \* the number of requests issued
  clean          \* the request in service has had no late answer around it

hostVars  == <<job, kind, tries, loopcnt, verdict, filled>>
radioVars == <<toRadio, owed, fromRadio, accepted, rejected>>
stackVars == <<buff, commstack, awake>>
vars == <<mutex_serial, pc, telemetry_pc, hostVars, radioVars, stackVars,
          issued, clean>>

Requests == 1..MaxRequests
Byte     == [val : {"FF", "FE", "FD", "T"}, of : 0..MaxRequests]

\* Nothing on the line answers a request, and nothing will.
LineQuiet ==
  /\ toRadio = <<>>
  /\ owed = 0
  /\ \A k \in 1..Len(fromRadio) : fromRadio[k].of = 0

\* A fault: push without the test of isFull.
PushedUnchecked(s, v) == Append(s, v)

\* commstack.push: a full stack drops the byte.
Pushed(s, v) == IF Len(s) < StackSize THEN Append(s, v) ELSE s
Push(v) == commstack' = Pushed(commstack, v)

Init ==
  /\ mutex_serial = NoOne
  /\ pc = [c \in Callers |-> "idle"]
  /\ telemetry_pc = "sleep"
  /\ job = [c \in Callers |-> 0]
  /\ kind = [r \in Requests |-> "send"]
  /\ tries = [c \in Callers |-> 0]
  /\ loopcnt = [c \in Callers |-> 0]
  /\ verdict = [c \in Callers |-> "none"]
  /\ filled = [c \in Callers |-> FALSE]
  /\ buff = "none" /\ commstack = <<>> /\ awake = FALSE
  /\ toRadio = <<>> /\ owed = 0 /\ fromRadio = <<>>
  /\ accepted = [r \in Requests |-> 0]
  /\ rejected = [r \in Requests |-> 0]
  /\ issued = 0
  /\ clean = FALSE

-----------------------------------------------------------------------------
(***************************************************************************)
(* sendCmd and RequestData, step by step.  The two have the same loop and  *)
(* differ in the byte that ends it well.                                   *)
(***************************************************************************)
Good(c) == IF kind[job[c]] = "send" THEN "FF" ELSE "FD"

\* A thread enters sendCmd, or the GUI RequestData.
Call(c) ==
  /\ pc[c] = "idle"
  /\ issued < MaxRequests
  /\ issued' = issued + 1
  /\ job' = [job EXCEPT ![c] = issued + 1]
  /\ \E k \in IF c = Gui THEN {"send", "request"} ELSE {"send"} :
       kind' = [kind EXCEPT ![issued + 1] = k]
  /\ pc' = [pc EXCEPT ![c] = "lock"]
  /\ UNCHANGED <<mutex_serial, telemetry_pc, tries, loopcnt, verdict, filled,
                 radioVars, stackVars, clean>>

\* A fault: the guard_lock of sendCmd is missing, every caller goes ahead.
LockNoWait(c) ==
  /\ pc[c] = "lock"
  /\ mutex_serial' = c
  /\ pc' = [pc EXCEPT ![c] = "write"]
  /\ clean' = LineQuiet
  /\ UNCHANGED <<telemetry_pc, hostVars, radioVars, stackVars, issued>>

Lock(c) ==
  /\ pc[c] = "lock"
  /\ mutex_serial = NoOne
  /\ mutex_serial' = c
  /\ pc' = [pc EXCEPT ![c] = "write"]
  /\ clean' = LineQuiet
  /\ UNCHANGED <<telemetry_pc, hostVars, radioVars, stackVars, issued>>

\* A fault: i <= MAXTRIES.
WriteOnceMore(c) ==
  /\ pc[c] = "write"
  /\ tries[c] <= MaxTries
  /\ toRadio' = Append(toRadio, job[c])
  /\ loopcnt' = [loopcnt EXCEPT ![c] = 0]
  /\ pc' = [pc EXCEPT ![c] = "read"]
  /\ UNCHANGED <<mutex_serial, telemetry_pc, job, kind, tries, verdict, filled,
                 owed, fromRadio, accepted, rejected, stackVars, issued, clean>>

\* WriteBuffer wrote the whole command.
Write(c) ==
  /\ pc[c] = "write"
  /\ tries[c] < MaxTries
  /\ toRadio' = Append(toRadio, job[c])
  /\ loopcnt' = [loopcnt EXCEPT ![c] = 0]
  /\ pc' = [pc EXCEPT ![c] = "read"]
  /\ UNCHANGED <<mutex_serial, telemetry_pc, job, kind, tries, verdict, filled,
                 owed, fromRadio, accepted, rejected, stackVars, issued, clean>>

\* WriteBuffer failed or fell short: the next try.
WriteError(c) ==
  /\ pc[c] = "write"
  /\ tries[c] < MaxTries
  /\ tries' = [tries EXCEPT ![c] = @ + 1]
  /\ UNCHANGED <<mutex_serial, pc, telemetry_pc, job, kind, loopcnt, verdict,
                 filled, radioVars, stackVars, issued, clean>>

\* The tries are used up: retval = "FAIL".
Fail(c) ==
  /\ pc[c] = "write"
  /\ tries[c] = MaxTries
  /\ verdict' = [verdict EXCEPT ![c] = "FAIL"]
  /\ pc' = [pc EXCEPT ![c] = "leave"]
  /\ UNCHANGED <<mutex_serial, telemetry_pc, job, kind, tries, loopcnt, filled,
                 radioVars, stackVars, issued, clean>>

\* ReadBuffer returned the byte that ends the wait, or the rejection.
ReadAnswer(c) ==
  /\ pc[c] = "read"
  /\ fromRadio # <<>>
  /\ Head(fromRadio).val \in {Good(c), "FE"}
  /\ fromRadio' = Tail(fromRadio)
  /\ IF Head(fromRadio).val = "FE"
     THEN /\ verdict' = [verdict EXCEPT ![c] = "REJ"]
          /\ pc' = [pc EXCEPT ![c] = "leave"]
     ELSE IF kind[job[c]] = "send"
     THEN /\ verdict' = [verdict EXCEPT ![c] = "OK"]
          /\ pc' = [pc EXCEPT ![c] = "leave"]
     ELSE /\ pc' = [pc EXCEPT ![c] = "data"]
          /\ UNCHANGED verdict
  /\ UNCHANGED <<mutex_serial, telemetry_pc, job, kind, tries, loopcnt, filled,
                 toRadio, owed, accepted, rejected, stackVars, issued, clean>>

\* while (++loopcnt < LOOPS), then the next try.  A try that is given up while
\* an answer is still due leaves that answer behind.
NextRead(c) ==
  IF loopcnt[c] + 1 < Loops
  THEN /\ loopcnt' = [loopcnt EXCEPT ![c] = @ + 1]
       /\ UNCHANGED <<pc, tries, clean>>
  ELSE /\ loopcnt' = [loopcnt EXCEPT ![c] = 0]
       /\ tries' = [tries EXCEPT ![c] = @ + 1]
       /\ pc' = [pc EXCEPT ![c] = "write"]
       /\ clean' = (clean /\ LineQuiet')

\* Any other byte goes to the telemetry stack.
ReadOther(c) ==
  /\ pc[c] = "read"
  /\ fromRadio # <<>>
  /\ Head(fromRadio).val \notin {Good(c), "FE"}
  /\ fromRadio' = Tail(fromRadio)
  /\ Push(Head(fromRadio).val)
  /\ UNCHANGED <<toRadio, owed>>
  /\ NextRead(c)
  /\ UNCHANGED <<mutex_serial, telemetry_pc, job, kind, verdict, filled,
                 accepted, rejected, buff, awake, issued>>

\* Nothing came within the 50 msec of a read: the zero of the cleared buffer
\* is pushed as if it had been read.
ReadTimeout(c) ==
  /\ pc[c] = "read"
  /\ fromRadio = <<>>
  /\ Push("0")
  /\ UNCHANGED <<toRadio, owed, fromRadio>>
  /\ NextRead(c)
  /\ UNCHANGED <<mutex_serial, telemetry_pc, job, kind, verdict, filled,
                 accepted, rejected, buff, awake, issued>>

\* RequestData reads the data block.  Whatever is next on the line is taken
\* for it, and a read that ends early is not noticed.
ReadData(c) ==
  /\ pc[c] = "data"
  /\ \/ /\ fromRadio # <<>>
        /\ fromRadio' = Tail(fromRadio)
        /\ filled' = [filled EXCEPT ![c] = TRUE]
        /\ UNCHANGED clean
     \/ /\ fromRadio = <<>>
        /\ clean' = (clean /\ LineQuiet)
        /\ UNCHANGED <<fromRadio, filled>>
  /\ verdict' = [verdict EXCEPT ![c] = "DATA"]
  /\ pc' = [pc EXCEPT ![c] = "leave"]
  /\ UNCHANGED <<mutex_serial, telemetry_pc, job, kind, tries, loopcnt, toRadio,
                 owed, accepted, rejected, stackVars, issued>>

\* The guard_lock goes out of scope, and with it the locals of the call.
Leave(c) ==
  /\ pc[c] = "leave"
  /\ mutex_serial' = NoOne
  /\ pc' = [pc EXCEPT ![c] = "idle"]
  /\ job' = [job EXCEPT ![c] = 0]
  /\ tries' = [tries EXCEPT ![c] = 0]
  /\ loopcnt' = [loopcnt EXCEPT ![c] = 0]
  /\ verdict' = [verdict EXCEPT ![c] = "none"]
  /\ filled' = [filled EXCEPT ![c] = FALSE]
  /\ clean' = FALSE
  /\ UNCHANGED <<telemetry_pc, kind, radioVars, stackVars, issued>>

-----------------------------------------------------------------------------
(***************************************************************************)
(* telemetry_thread_loop, and the GUI's parseTelemetry.                    *)
(***************************************************************************)
\* A fault: the telemetry thread reads without the lock.
TelemetryLockNoWait ==
  /\ telemetry_pc = "sleep"
  /\ telemetry_pc' = "read"
  /\ UNCHANGED <<mutex_serial, pc, hostVars, radioVars, stackVars, issued, clean>>

TelemetryLock ==
  /\ telemetry_pc = "sleep"
  /\ mutex_serial = NoOne
  /\ mutex_serial' = Telemetry
  /\ telemetry_pc' = "read"
  /\ UNCHANGED <<pc, hostVars, radioVars, stackVars, issued, clean>>

\* A fault: a read that times out leaves without the unlock.
TelemetryReadKeepsLock ==
  /\ telemetry_pc = "read"
  /\ IF fromRadio # <<>>
     THEN /\ buff' = Head(fromRadio).val
          /\ fromRadio' = Tail(fromRadio)
          /\ mutex_serial' = NoOne
     ELSE UNCHANGED <<buff, fromRadio, mutex_serial>>
  /\ telemetry_pc' = "push"
  /\ UNCHANGED <<pc, hostVars, toRadio, owed, accepted, rejected, commstack,
                 awake, issued, clean>>

\* One byte, or a timeout; the lock is released before the byte is pushed.
TelemetryRead ==
  /\ telemetry_pc = "read"
  /\ IF fromRadio # <<>>
     THEN /\ buff' = Head(fromRadio).val
          /\ fromRadio' = Tail(fromRadio)
     ELSE UNCHANGED <<buff, fromRadio>>
  /\ mutex_serial' = NoOne
  /\ telemetry_pc' = "push"
  /\ UNCHANGED <<pc, hostVars, toRadio, owed, accepted, rejected, commstack,
                 awake, issued, clean>>

TelemetryPush ==
  /\ telemetry_pc = "push"
  /\ IF buff # "none" THEN Push(buff) ELSE UNCHANGED commstack
  /\ awake' = (awake \/ commstack' # <<>>)
  /\ buff' = "none"
  /\ telemetry_pc' = "sleep"
  /\ UNCHANGED <<mutex_serial, pc, hostVars, radioVars, issued, clean>>

\* The GUI thread, back in its event loop, pops the stack until it is empty.
parseTelemetry ==
  /\ awake
  /\ pc[Gui] = "idle"
  /\ commstack' = <<>>
  /\ awake' = FALSE
  /\ UNCHANGED <<mutex_serial, pc, telemetry_pc, hostVars, radioVars, buff,
                 issued, clean>>

-----------------------------------------------------------------------------
(***************************************************************************)
(* The radio, as the code in src/ and cat_doc/InterfaceSpec.txt use it.    *)
(***************************************************************************)
RadioAccept ==
  /\ toRadio # <<>> /\ owed = 0
  /\ LET r == Head(toRadio) IN
       /\ accepted' = [accepted EXCEPT ![r] = @ + 1]
       /\ IF kind[r] = "send"
          THEN /\ fromRadio' = Append(fromRadio, [val |-> "FF", of |-> r])
               /\ UNCHANGED owed
          ELSE /\ fromRadio' = Append(fromRadio, [val |-> "FD", of |-> r])
               /\ owed' = r
  /\ toRadio' = Tail(toRadio)
  /\ UNCHANGED <<mutex_serial, pc, telemetry_pc, hostVars, rejected, stackVars,
                 issued, clean>>

RadioReject ==
  /\ toRadio # <<>> /\ owed = 0
  /\ LET r == Head(toRadio) IN
       /\ rejected' = [rejected EXCEPT ![r] = @ + 1]
       /\ fromRadio' = Append(fromRadio, [val |-> "FE", of |-> r])
  /\ toRadio' = Tail(toRadio)
  /\ UNCHANGED <<mutex_serial, pc, telemetry_pc, hostVars, owed, accepted,
                 stackVars, issued, clean>>

\* A packet that arrives damaged is dropped without an answer.
RadioDrop ==
  /\ toRadio # <<>> /\ owed = 0
  /\ toRadio' = Tail(toRadio)
  /\ UNCHANGED <<mutex_serial, pc, telemetry_pc, hostVars, owed, fromRadio,
                 accepted, rejected, stackVars, issued, clean>>

RadioData ==
  /\ owed # 0
  /\ \E v \in DataVals :
       fromRadio' = Append(fromRadio, [val |-> v, of |-> owed])
  /\ owed' = 0
  /\ UNCHANGED <<mutex_serial, pc, telemetry_pc, hostVars, toRadio, accepted,
                 rejected, stackVars, issued, clean>>

RadioTelemetry ==
  /\ owed = 0
  /\ Len(fromRadio) < MaxOnLine
  /\ fromRadio' = Append(fromRadio, [val |-> "T", of |-> 0])
  /\ UNCHANGED <<mutex_serial, pc, telemetry_pc, hostVars, toRadio, owed,
                 accepted, rejected, stackVars, issued, clean>>

-----------------------------------------------------------------------------
Caller(c) ==
  \/ Call(c) \/ Lock(c) \/ Write(c) \/ WriteError(c) \/ Fail(c)
  \/ ReadAnswer(c) \/ ReadOther(c) \/ ReadTimeout(c) \/ ReadData(c) \/ Leave(c)

Radio == RadioAccept \/ RadioReject \/ RadioDrop \/ RadioData \/ RadioTelemetry

Next ==
  \/ \E c \in Callers : Caller(c)
  \/ TelemetryLock \/ TelemetryRead \/ TelemetryPush
  \/ parseTelemetry
  \/ Radio

(***************************************************************************)
(* A running thread keeps running; a read ends by its timeout whatever the *)
(* radio does.  mutex_serial is handed back and forth between threads that *)
(* sleep 10 msec or more outside of it, so a thread that waits for it gets *)
(* it: strong fairness.  Nothing is assumed of the radio.                  *)
(***************************************************************************)
HostStep(c) ==
  \/ Write(c) \/ WriteError(c) \/ Fail(c) \/ ReadAnswer(c) \/ ReadOther(c)
  \/ ReadTimeout(c) \/ ReadData(c) \/ Leave(c)

Fairness ==
  /\ \A c \in Callers : WF_vars(HostStep(c)) /\ SF_vars(Lock(c))
  /\ WF_vars(TelemetryRead) /\ WF_vars(TelemetryPush)

Spec == Init /\ [][Next]_vars
FairSpec == Spec /\ Fairness

-----------------------------------------------------------------------------
(***************************************************************************)
(* Properties                                                              *)
(***************************************************************************)
HostStates == {"idle", "lock", "write", "read", "data", "leave"}
Verdicts   == {"none", "OK", "DATA", "REJ", "FAIL"}
StackVals  == {"0", "FF", "FE", "FD", "T"}

\* Every variable keeps its type, and the loops of sendCmd keep their bounds.
TypeOK ==
  /\ mutex_serial \in Callers \cup {Telemetry, NoOne}
  /\ pc \in [Callers -> HostStates]
  /\ telemetry_pc \in {"sleep", "read", "push"}
  /\ job \in [Callers -> 0..MaxRequests]
  /\ kind \in [Requests -> {"send", "request"}]
  /\ tries \in [Callers -> 0..MaxTries]
  /\ loopcnt \in [Callers -> 0..(Loops - 1)]
  /\ verdict \in [Callers -> Verdicts]
  /\ filled \in [Callers -> BOOLEAN]
  /\ buff \in StackVals \cup {"none"}
  /\ commstack \in Seq(StackVals) /\ Len(commstack) <= StackSize
  /\ awake \in BOOLEAN
  /\ toRadio \in Seq(Requests)
  /\ owed \in 0..MaxRequests
  /\ fromRadio \in Seq(Byte)
  /\ accepted \in [Requests -> Nat]
  /\ rejected \in [Requests -> Nat]
  /\ issued \in 0..MaxRequests
  /\ clean \in BOOLEAN

\* The verdict that matches what the radio did with request r of caller c.
TrueVerdict(c, r) ==
  CASE verdict[c] = "OK"   -> accepted[r] = 1 /\ rejected[r] = 0
    [] verdict[c] = "DATA" -> accepted[r] = 1 /\ rejected[r] = 0 /\ filled[c]
    [] verdict[c] = "REJ"  -> accepted[r] = 0 /\ rejected[r] = 1
    [] verdict[c] = "FAIL" -> accepted[r] = 0 /\ rejected[r] = 0
    [] OTHER -> FALSE

\* sendCmd and RequestData tell the truth: a command that was started on a
\* quiet line and whose answer was not given up on ends with the verdict the
\* radio gave to this very command, given once, although an answer does not
\* say what it answers, several threads share the line and the telemetry
\* thread takes bytes off it as well.
VerdictSound ==
  \A c \in Callers : pc[c] = "leave" /\ clean => TrueVerdict(c, job[c])

\* However late the answers come, the radio never works on a command more
\* often than MAXTRIES times.
AtMostMaxTries ==
  \A r \in Requests : accepted[r] + rejected[r] <= MaxTries

\* No thread is left inside sendCmd or RequestData, whatever the radio does:
\* every call ends.
EveryCallReturns ==
  \A c \in Callers : pc[c] = "lock" ~> pc[c] = "idle"

\* What the callers of the channel see of the link: the caller in service, where each
\* call is, and what the radio last made of the command in service.
ServedBy == IF mutex_serial \in Callers THEN {mutex_serial} ELSE {}

Phase ==
  [c \in Callers |->
     CASE pc[c] = "idle"  -> "idle"
       [] pc[c] = "lock"  -> "asked"
       [] pc[c] = "leave" -> "answered"
       [] OTHER           -> "served"]

Fate ==
  [c \in Callers |->
     IF c \notin ServedBy THEN "none"
     ELSE IF accepted[job[c]] > 0 THEN "accepted"
     ELSE IF rejected[job[c]] > 0 THEN "rejected"
     ELSE "none"]

Channel == INSTANCE CommandChannel WITH
  phase <- Phase, fate <- Fate, verdict <- verdict, trusted <- clean

\* The link serves commands as CommandChannel promises: one at a time, one
\* verdict each, a true one as long as no answer is late.
ChannelSpec == Channel!Spec
=============================================================================
