---------------------------- MODULE ShutdownProofs ----------------------------
(***************************************************************************)
(* The end of the program, for any number of packets and requests a thread *)
(* sends in a round: when cbExit closes the port, every thread that uses   *)
(* it has ended.                                                           *)
(***************************************************************************)
EXTENDS Shutdown, TLAPS

PcTypes   == {"loop", "test", "go", "inside", "port", "request", "gone"}
GuiStates == {"running", "lock", "flag", "unlock", "join"}
MaxLeft   == MaxElements + MaxRequests

\* A worker in the port or in a request has that packet or request still to count.
BusyInv ==
    /\ \A w \in Workers : pc[w] = "port" => left[w] > 0
    /\ \A w \in Workers : pc[w] = "request" => w = "xmlrpc" /\ left[w] > 0

\* cbExit is inside a section only in the first four, and a section that is over has
\* joined its thread.
SectionInv ==
    /\ gui \in {"flag", "unlock", "join"} => stage \in 1..4
    /\ stage > 1 => gui # "running"
    /\ \A i \in 1..4 : i < stage => pc[JoinedIn[i]] = "gone"
    /\ ~port => stage >= 8

IInv == TypeOK /\ BusyInv /\ SectionInv

-----------------------------------------------------------------------------
\* The sections and the threads that are joined in them.
LEMMA Sections ==
    /\ \A i \in 1..4 : Section[i] \in Workers /\ JoinedIn[i] \in Workers
    /\ \A i, j \in 1..4 : Section[i] = Section[j] => i = j
    /\ \A w \in PortUsers : \E i \in 1..3 : JoinedIn[i] = w
<1>1. \A i \in 1..4 : i = 1 \/ i = 2 \/ i = 3 \/ i = 4
  OBVIOUS
<1>2. \A i \in 1..4 : Section[i] \in Workers /\ JoinedIn[i] \in Workers
  BY <1>1 DEF Section, JoinedIn, Workers
<1>3. \A i, j \in 1..4 : Section[i] = Section[j] => i = j
  BY <1>1 DEF Section
<1>4. JoinedIn[1] = "watchdog" /\ JoinedIn[2] = "telemetry" /\ JoinedIn[3] = "cw"
  BY DEF JoinedIn
<1>5. 1 \in 1..3 /\ 2 \in 1..3 /\ 3 \in 1..3
  OBVIOUS
<1>6. \A w \in PortUsers : \E i \in 1..3 : JoinedIn[i] = w
  BY <1>4, <1>5, Zenon DEF PortUsers
<1> QED
  BY <1>2, <1>3, <1>6

\* At the start every worker is in its loop and no section has begun.
LEMMA InitHolds == Init => IInv
<1> SUFFICES ASSUME Init
             PROVE  IInv
  OBVIOUS
<1>1. TypeOK
  <2>1. 0 \in 0..MaxLeft
    BY BoundAssumption DEF MaxLeft
  <2>2. pc \in [Workers -> PcTypes] /\ left \in [Workers -> 0..MaxLeft]
    BY <2>1 DEF Init, PcTypes
  <2>3. mutex \in [Locks -> Workers \cup {Gui, Free}] /\ exit \in [Workers -> BOOLEAN]
    BY DEF Init
  <2>4. stage \in 1..9 /\ gui \in GuiStates /\ {client, port} \subseteq BOOLEAN
    BY DEF Init, GuiStates
  <2>5. \A i \in 1..4 : ~exit[Section[i]]
    BY Sections DEF Init
  <2> QED
    BY <2>2, <2>3, <2>4, <2>5 DEF TypeOK, PcTypes, GuiStates, MaxLeft
<1>2. BusyInv /\ SectionInv
  BY DEF Init, BusyInv, SectionInv
<1> QED
  BY <1>1, <1>2 DEF IInv

\* A step of a worker: it moves that worker alone, never out of the end of its thread, and
\* leaves cbExit and the port alone.
LEMMA WorkerStep ==
    ASSUME IInv, NEW w \in Workers, Worker(w)
    PROVE  IInv'
<1> USE BoundAssumption
<1>1. /\ pc \in [Workers -> PcTypes] /\ left \in [Workers -> 0..MaxLeft]
      /\ mutex \in [Locks -> Workers \cup {Gui, Free}] /\ client \in BOOLEAN
  BY DEF IInv, TypeOK, PcTypes, MaxLeft
<1>2. UNCHANGED <<exit, stage, gui, port>>
  BY DEF Worker, CheckExit, TestWork, Enter, TakePort, LeavePort, Leave, StartRequest,
     EndRequest
<1>3. pc[w] # "gone" /\ \E p \in PcTypes : pc' = [pc EXCEPT ![w] = p]
  <2>1. CASE CheckExit(w) \/ TestWork(w) \/ Enter(w)
    BY <1>1, <2>1 DEF CheckExit, TestWork, Enter, Goes, PcTypes
  <2>2. CASE TakePort(w) \/ LeavePort(w) \/ Leave(w)
    BY <1>1, <2>2 DEF TakePort, LeavePort, Leave, Goes, PcTypes
  <2>3. CASE w = "xmlrpc" /\ (StartRequest \/ EndRequest)
    BY <1>1, <2>3 DEF StartRequest, EndRequest, Goes, PcTypes
  <2> QED
    BY <2>1, <2>2, <2>3 DEF Worker
<1>4. mutex' \in [Locks -> Workers \cup {Gui, Free}]
  <2>1. mutex' = mutex \/ \E l \in Locks, t \in Workers \cup {Free} : mutex' = [mutex EXCEPT ![l] = t]
    BY DEF Worker, CheckExit, TestWork, Enter, TakePort, LeavePort, Leave, StartRequest,
       EndRequest, Takes, Releases, Locks
  <2> QED
    BY <1>1, <2>1
<1>5. client' \in BOOLEAN
  BY <1>1 DEF Worker, CheckExit, TestWork, Enter, TakePort, LeavePort, Leave, StartRequest,
     EndRequest
<1>6. left' \in [Workers -> 0..MaxLeft] /\ BusyInv'
  <2>1. CASE CheckExit(w) \/ TestWork(w)
    BY <1>1, <2>1 DEF CheckExit, TestWork, Goes, IInv, BusyInv
  <2>2. CASE Enter(w)
    <3>1. PICK n \in Uses(w) : left' = [left EXCEPT ![w] = n]
      BY <2>2 DEF Enter
    <3>2. n \in 0..MaxLeft
      BY <3>1 DEF Uses, MaxLeft
    <3> QED
      BY <1>1, <2>2, <3>1, <3>2 DEF Enter, Goes, IInv, BusyInv
  <2>3. CASE TakePort(w) \/ Leave(w)
    BY <1>1, <2>3 DEF TakePort, Leave, Goes, IInv, BusyInv
  <2>4. CASE LeavePort(w)
    <3>1. left[w] \in 0..MaxLeft /\ left[w] > 0
      BY <1>1, <2>4 DEF LeavePort, IInv, BusyInv
    <3>2. left[w] - 1 \in 0..MaxLeft
      BY <3>1 DEF MaxLeft
    <3> QED
      BY <1>1, <2>4, <3>2 DEF LeavePort, Goes, IInv, BusyInv
  <2>5. CASE w = "xmlrpc" /\ StartRequest
    BY <1>1, <2>5 DEF StartRequest, Goes, IInv, BusyInv
  <2>6. CASE w = "xmlrpc" /\ EndRequest
    <3>1. left[w] \in 0..MaxLeft /\ left[w] > 0
      BY <1>1, <2>6 DEF EndRequest, IInv, BusyInv
    <3>2. left[w] - 1 \in 0..MaxLeft /\ 0 \in 0..MaxLeft
      BY <3>1 DEF MaxLeft
    <3>3. \E n \in 0..MaxLeft : left' = [left EXCEPT ![w] = n]
      BY <2>6, <3>2 DEF EndRequest
    <3> QED
      BY <1>1, <2>6, <3>3 DEF EndRequest, Goes, IInv, BusyInv
  <2> QED
    BY <2>1, <2>2, <2>3, <2>4, <2>5, <2>6 DEF Worker
<1>7. \A v \in Workers : pc[v] = "gone" => pc'[v] = "gone"
  BY <1>1, <1>3
<1>8. TypeOK'
  <2>1. pc' \in [Workers -> PcTypes]
    BY <1>1, <1>3
  <2>2. /\ exit' \in [Workers -> BOOLEAN] /\ stage' \in 1..9 /\ gui' \in GuiStates
        /\ port' \in BOOLEAN
        /\ \A i \in 1..4 : exit'[Section[i]] => i <= stage'
    BY <1>2 DEF IInv, TypeOK, GuiStates
  <2> QED
    BY <1>4, <1>5, <1>6, <2>1, <2>2 DEF TypeOK, PcTypes, GuiStates, MaxLeft
<1>9. SectionInv'
  BY <1>2, <1>7, Sections DEF IInv, SectionInv
<1> QED
  BY <1>6, <1>8, <1>9 DEF IInv

\* A step of cbExit inside one of the four sections, and the wish to leave.
LEMMA SectionStep ==
    ASSUME IInv, Quit \/ LockWorker \/ SetFlag \/ UnlockWorker \/ Join
    PROVE  IInv'
<1>1. /\ mutex \in [Locks -> Workers \cup {Gui, Free}] /\ exit \in [Workers -> BOOLEAN]
      /\ stage \in 1..9 /\ gui \in GuiStates /\ port \in BOOLEAN
      /\ \A i \in 1..4 : exit[Section[i]] => i <= stage
  BY DEF IInv, TypeOK, GuiStates
<1>2. UNCHANGED <<pc, left, client, port>>
  BY DEF Quit, LockWorker, SetFlag, UnlockWorker, Join
<1>3. BusyInv'
  BY <1>2 DEF IInv, BusyInv
<1>4. mutex' \in [Locks -> Workers \cup {Gui, Free}]
  <2>1. gui = "unlock" => stage \in 1..4
    BY DEF IInv, SectionInv
  <2>2. mutex' = mutex \/ \E l \in Locks, t \in {Gui, Free} : mutex' = [mutex EXCEPT ![l] = t]
    BY <2>1, Sections DEF Quit, LockWorker, SetFlag, UnlockWorker, Join, Takes, Releases, Locks
  <2> QED
    BY <1>1, <2>2
<1>5. /\ exit' \in [Workers -> BOOLEAN] /\ stage' \in 1..9 /\ gui' \in GuiStates
      /\ \A i \in 1..4 : exit'[Section[i]] => i <= stage'
  <2>1. CASE Quit \/ LockWorker \/ UnlockWorker
    BY <1>1, <2>1 DEF Quit, LockWorker, UnlockWorker, GuiStates
  <2>2. CASE SetFlag
    <3>1. stage \in 1..4 /\ Section[stage] \in Workers
      BY <2>2, Sections DEF SetFlag, IInv, SectionInv
    <3>2. exit' = [exit EXCEPT ![Section[stage]] = TRUE] /\ stage' = stage /\ gui' = "unlock"
      BY <2>2 DEF SetFlag
    <3>3. ASSUME NEW i \in 1..4, exit'[Section[i]]
          PROVE  i <= stage
      <4>1. CASE i = stage
        BY <1>1, <4>1
      <4>2. CASE i # stage
        <5>1. Section[i] # Section[stage] /\ Section[i] \in Workers
          BY <3>1, <4>2, Sections
        <5>2. exit[Section[i]]
          BY <1>1, <3>2, <3>3, <5>1
        <5> QED
          BY <1>1, <5>2
      <4> QED
        BY <4>1, <4>2
    <3> QED
      BY <1>1, <3>2, <3>3 DEF GuiStates
  <2>3. CASE Join
    <3>1. stage \in 1..4
      BY <2>3 DEF Join, IInv, SectionInv
    <3> QED
      BY <1>1, <2>3, <3>1 DEF Join, GuiStates
  <2> QED
    BY <2>1, <2>2, <2>3
<1>6. TypeOK'
  BY <1>2, <1>4, <1>5 DEF IInv, TypeOK, GuiStates
<1>7. SectionInv'
  <2>1. CASE Quit \/ LockWorker \/ SetFlag \/ UnlockWorker
    BY <1>1, <1>2, <2>1 DEF Quit, LockWorker, SetFlag, UnlockWorker, IInv, SectionInv
  <2>2. CASE Join
    <3>1. /\ stage \in 1..4 /\ stage' = stage + 1 /\ gui' = "lock"
          /\ pc[JoinedIn[stage]] = "gone"
      BY <2>2 DEF Join, IInv, SectionInv
    <3>2. \A i \in 1..4 : i < stage' => i = stage \/ i < stage
      BY <3>1
    <3> QED
      BY <1>2, <3>1, <3>2 DEF IInv, SectionInv
  <2> QED
    BY <2>1, <2>2
<1> QED
  BY <1>3, <1>6, <1>7 DEF IInv

\* A step of cbExit after the four sections.
LEMMA CloseStep ==
    ASSUME IInv, SendNoRig \/ CloseRig \/ ClosePort \/ Exit
    PROVE  IInv'
<1>1. /\ stage \in {5, 6, 7, 8} /\ stage' = stage + 1
      /\ UNCHANGED <<left, mutex, exit, gui>>
  BY DEF SendNoRig, CloseRig, ClosePort, Exit
<1>2. pc' \in [Workers -> PcTypes]
      /\ (pc' = pc \/ pc' = [w \in Workers |-> "gone"])
  BY DEF SendNoRig, CloseRig, ClosePort, Exit, IInv, TypeOK, PcTypes
<1>3. client' \in BOOLEAN /\ port' \in BOOLEAN /\ (~port' => ~port \/ stage = 7)
  <2>1. client \in BOOLEAN /\ port \in BOOLEAN
    BY DEF IInv, TypeOK
  <2>2. client' \in BOOLEAN /\ (port' = port \/ (port' = FALSE /\ stage = 7))
    BY <2>1 DEF SendNoRig, CloseRig, ClosePort, Exit
  <2>3. CASE port' = port
    BY <2>1, <2>2, <2>3
  <2>4. CASE port' = FALSE /\ stage = 7
    BY <2>2, <2>4
  <2> QED
    BY <2>2, <2>3, <2>4
<1>4. TypeOK'
  <2>1. stage' \in 1..9 /\ \A i \in 1..4 : i <= stage'
    BY <1>1
  <2> QED
    BY <1>1, <1>2, <1>3, <2>1 DEF IInv, TypeOK, PcTypes
<1>5. BusyInv'
  BY <1>1, <1>2 DEF IInv, BusyInv
<1>6. SectionInv'
  <2>1. gui \notin {"flag", "unlock", "join"} /\ gui # "running"
    BY <1>1 DEF IInv, SectionInv
  <2>2. \A i \in 1..4 : i < stage /\ pc[JoinedIn[i]] = "gone"
    BY <1>1 DEF IInv, SectionInv
  <2>3. \A i \in 1..4 : pc'[JoinedIn[i]] = "gone"
    BY <1>2, <2>2, Sections
  <2>4. ~port' => stage' >= 8
    BY <1>1, <1>3 DEF IInv, SectionInv
  <2> QED
    BY <1>1, <2>1, <2>3, <2>4 DEF SectionInv
<1> QED
  BY <1>4, <1>5, <1>6 DEF IInv

\* cbExit and the four threads: the inductive invariant of the end of the program.
THEOREM ShutdownInvariance == Spec => []IInv
<1>1. IInv /\ [Next]_vars => IInv'
  <2>1. ASSUME IInv, UNCHANGED vars
        PROVE  IInv'
    BY <2>1 DEF vars, IInv, TypeOK, BusyInv, SectionInv
  <2> QED
    BY <2>1, WorkerStep, SectionStep, CloseStep DEF Next, cbExit
<1> QED
  BY <1>1, InitHolds, PTL DEF Spec

\* startProcessing and cbExit: types, and each exit flag is set in its own section.
THEOREM ShutdownTypes == Spec => []TypeOK
<1>1. IInv => TypeOK
  BY DEF IInv
<1> QED
  BY <1>1, ShutdownInvariance, PTL

\* cbExit: when the port is closed, the watchdog, telemetry and CW threads have ended, for
\* any number of packets they send in a round and however far they are when the operator
\* leaves.
THEOREM PortClosesLast == Spec => []PortClosedAfterLastUse
<1>1. ASSUME IInv, ~port, NEW w \in PortUsers
      PROVE  pc[w] = "gone"
  <2>1. stage >= 8 /\ stage \in 1..9
    BY <1>1 DEF IInv, SectionInv, TypeOK
  <2>2. PICK i \in 1..3 : JoinedIn[i] = w
    BY Sections
  <2>3. i \in 1..4 /\ i < stage
    BY <2>1
  <2> QED
    BY <1>1, <2>2, <2>3 DEF IInv, SectionInv
<1>2. IInv => PortClosedAfterLastUse
  BY <1>1 DEF PortClosedAfterLastUse
<1> QED
  BY <1>2, ShutdownInvariance, PTL
=============================================================================
