------------------------------ MODULE Shutdown ------------------------------
(***************************************************************************)
(* The end of the program: cbExit of support.cxx against the four threads  *)
(* that startProcessing created.                                           *)
(*                                                                         *)
(* cbExit runs in the GUI thread.  For one thread after the other it takes *)
(* that thread's mutex, sets its exit flag, gives the mutex back and joins *)
(* a thread; then it tells fldigi that there is no rig, deletes the        *)
(* XML-RPC client and closes the port.  The watchdog, telemetry and CW     *)
(* threads use the port under mutex_serial, the first and the last of them *)
(* inside their own mutex; the xmlrpc thread uses the client inside its    *)
(* own.  The telemetry thread never takes mutex_telemetry.                 *)
(***************************************************************************)
EXTENDS Naturals

CONSTANTS MaxElements,  \* bound: packets the CW thread sends for one character
          MaxRequests   \* bound: requests the xmlrpc thread makes in one round

ASSUME BoundAssumption == MaxElements \in Nat \ {0} /\ MaxRequests \in Nat \ {0}

Workers   == {"watchdog", "telemetry", "cw", "xmlrpc"}
PortUsers == {"watchdog", "telemetry", "cw"}
Locks     == Workers \cup {"serial"}
Gui       == "gui"
Free      == "free"

VARIABLES
    pc,       \* where each worker is: see TypeOK
    left,     \* packets or requests the worker has still to send in this round
    mutex,    \* per lock: the thread that holds it, or Free
    exit,     \* per worker: its exit flag
    stage,    \* the section of cbExit: 1..4 for a worker, 5 and more for the rest
    gui,      \* where cbExit is in that section
    client,   \* the XML-RPC client exists
    port      \* the port is open

vars == <<pc, left, mutex, exit, stage, gui, client, port>>

\* The worker whose flag is set in each section of cbExit ...
Section == <<"watchdog", "telemetry", "cw", "xmlrpc">>
\* ... and the thread that is joined there.
JoinedIn == <<"watchdog", "telemetry", "cw", "telemetry">>

Takes(l, t)    == mutex[l] = Free /\ mutex' = [mutex EXCEPT ![l] = t]
Releases(l)    == mutex' = [mutex EXCEPT ![l] = Free]
Goes(w, place) == pc' = [pc EXCEPT ![w] = place]

-----------------------------------------------------------------------------
(* The workers.                                                            *)

\* The test of the exit flag, once in every round of the loop.
CheckExit(w) ==
    /\ pc[w] = "loop"
    /\ Goes(w, IF exit[w] THEN "gone" ELSE "test")
    /\ UNCHANGED <<left, mutex, exit, stage, gui, client, port>>

\* Is there work in this round?  The watchdog's count may not be zero, and no text
\* may wait to be sent; the other two always go on.
TestWork(w) ==
    /\ pc[w] = "test"
    /\ \E place \in IF w \in {"watchdog", "cw"} THEN {"loop", "go"} ELSE {"go"} : Goes(w, place)
    /\ UNCHANGED <<left, mutex, exit, stage, gui, client, port>>

\* How often a round uses the port or the client: the CW thread once for every element
\* of a character and for the space after it, the xmlrpc thread not at all while it
\* counts down to a new try.
Uses(w) == CASE w = "cw"     -> 1..MaxElements
             [] w = "xmlrpc" -> 0..MaxRequests
             [] OTHER        -> {1}

\* The guard_lock of the round.  The telemetry thread has none.
Enter(w) ==
    /\ pc[w] = "go"
    /\ \/ w = "telemetry" /\ UNCHANGED mutex
       \/ w # "telemetry" /\ Takes(w, w)
    /\ \E n \in Uses(w) : left' = [left EXCEPT ![w] = n]
    /\ Goes(w, "inside")
    /\ UNCHANGED <<exit, stage, gui, client, port>>

\* sendCmd, or the read of the telemetry thread: the port is used under mutex_serial.
TakePort(w) ==
    /\ w \in PortUsers /\ pc[w] = "inside" /\ left[w] > 0
    /\ Takes("serial", w)
    /\ Goes(w, "port")
    /\ UNCHANGED <<left, exit, stage, gui, client, port>>

LeavePort(w) ==
    /\ pc[w] = "port"
    /\ Releases("serial")
    /\ left' = [left EXCEPT ![w] = @ - 1]
    /\ Goes(w, "inside")
    /\ UNCHANGED <<exit, stage, gui, client, port>>

\* execute: a client is created when there is none.
StartRequest ==
    /\ pc["xmlrpc"] = "inside" /\ left["xmlrpc"] > 0
    /\ client' = TRUE
    /\ Goes("xmlrpc", "request")
    /\ UNCHANGED <<left, mutex, exit, stage, gui, port>>

\* A request that fails ends the round.
EndRequest ==
    /\ pc["xmlrpc"] = "request"
    /\ \E n \in {0, left["xmlrpc"] - 1} : left' = [left EXCEPT !["xmlrpc"] = n]
    /\ Goes("xmlrpc", "inside")
    /\ UNCHANGED <<mutex, exit, stage, gui, client, port>>

Leave(w) ==
    /\ pc[w] = "inside" /\ left[w] = 0
    /\ IF w = "telemetry" THEN UNCHANGED mutex ELSE Releases(w)
    /\ Goes(w, "loop")
    /\ UNCHANGED <<left, exit, stage, gui, client, port>>

-----------------------------------------------------------------------------
(* cbExit.                                                                 *)

\* The operator leaves the program.
Quit ==
    /\ gui = "running"
    /\ gui' = "lock"
    /\ UNCHANGED <<pc, left, mutex, exit, stage, client, port>>

LockWorker ==
    /\ gui = "lock" /\ stage \in 1..4
    /\ Takes(Section[stage], Gui)
    /\ gui' = "flag"
    /\ UNCHANGED <<pc, left, exit, stage, client, port>>

\* Variant of SetFlag: one flag for all threads.
SetSharedFlag ==
    /\ gui = "flag"
    /\ exit' = [w \in Workers |-> TRUE]
    /\ gui' = "unlock"
    /\ UNCHANGED <<pc, left, mutex, stage, client, port>>

SetFlag ==
    /\ gui = "flag"
    /\ exit' = [exit EXCEPT ![Section[stage]] = TRUE]
    /\ gui' = "unlock"
    /\ UNCHANGED <<pc, left, mutex, stage, client, port>>

\* Variant of UnlockWorker: the mutex is kept while the thread is joined.
UnlockLate ==
    /\ gui = "unlock"
    /\ gui' = "join"
    /\ UNCHANGED <<pc, left, mutex, exit, stage, client, port>>

UnlockWorker ==
    /\ gui = "unlock"
    /\ Releases(Section[stage])
    /\ gui' = "join"
    /\ UNCHANGED <<pc, left, exit, stage, client, port>>

\* Variant of Join: the threads are told to end but not waited for.
JoinNoWait ==
    /\ gui = "join"
    /\ stage' = stage + 1
    /\ gui' = "lock"
    /\ UNCHANGED <<pc, left, mutex, exit, client, port>>

\* pthread_join returns when the thread has ended.  The second join of a thread is
\* undefined; with the C library kcat is built on it returns at once with an error.
Join ==
    /\ gui = "join"
    /\ pc[JoinedIn[stage]] = "gone"
    /\ stage' = stage + 1
    /\ gui' = "lock"
    /\ UNCHANGED <<pc, left, mutex, exit, client, port>>

\* send_no_rig makes its requests without mutex_xmlrpc; they create a client.
SendNoRig ==
    /\ gui = "lock" /\ stage = 5
    /\ client' = TRUE
    /\ stage' = 6
    /\ UNCHANGED <<pc, left, mutex, exit, gui, port>>

CloseRig ==
    /\ stage = 6
    /\ client' = FALSE
    /\ stage' = 7
    /\ UNCHANGED <<pc, left, mutex, exit, gui, port>>

ClosePort ==
    /\ stage = 7
    /\ port' = FALSE
    /\ stage' = 8
    /\ UNCHANGED <<pc, left, mutex, exit, gui, client>>

\* saveState and exit: the process ends, and every thread with it.
Exit ==
    /\ stage = 8
    /\ stage' = 9
    /\ pc' = [w \in Workers |-> "gone"]
    /\ UNCHANGED <<left, mutex, exit, gui, client, port>>

-----------------------------------------------------------------------------
Init ==
    /\ pc = [w \in Workers |-> "loop"]
    /\ left = [w \in Workers |-> 0]
    /\ mutex = [l \in Locks |-> Free]
    /\ exit = [w \in Workers |-> FALSE]
    /\ stage = 1 /\ gui = "running"
    /\ client \in BOOLEAN /\ port = TRUE

Worker(w) ==
    \/ CheckExit(w) \/ TestWork(w) \/ Enter(w) \/ TakePort(w) \/ LeavePort(w) \/ Leave(w)
    \/ w = "xmlrpc" /\ (StartRequest \/ EndRequest)

cbExit ==
    \/ LockWorker \/ SetFlag \/ UnlockWorker \/ Join
    \/ SendNoRig \/ CloseRig \/ ClosePort \/ Exit

Next == Quit \/ cbExit \/ \E w \in Workers : Worker(w)

Spec == Init /\ [][Next]_vars

\* Every thread runs.  A worker sleeps outside its mutex in every round and outside
\* mutex_serial, so cbExit and the other workers get them: strong fairness.
FairSpec ==
    /\ Spec
    /\ SF_vars(cbExit)
    /\ \A w \in Workers : SF_vars(Worker(w))

-----------------------------------------------------------------------------
(* Properties.                                                             *)

\* Types, and the flags are set in the order of the sections.
TypeOK ==
    /\ pc \in [Workers -> {"loop", "test", "go", "inside", "port", "request", "gone"}]
    /\ left \in [Workers -> 0..(MaxElements + MaxRequests)]
    /\ mutex \in [Locks -> Workers \cup {Gui, Free}]
    /\ exit \in [Workers -> BOOLEAN]
    /\ stage \in 1..9
    /\ gui \in {"running", "lock", "flag", "unlock", "join"}
    /\ {client, port} \subseteq BOOLEAN
    /\ \A i \in 1..4 : exit[Section[i]] => i <= stage

\* The port is closed only when every thread that uses it has ended: no command is
\* cut off after its first byte and no thread reads from a closed descriptor.
PortClosedAfterLastUse == ~port => \A w \in PortUsers : pc[w] = "gone"

\* The operator's wish to leave the program is granted: no section of cbExit waits
\* for ever for a mutex or for a thread.
QuitEnds == (gui = "lock") ~> (stage = 9)

\* support.cxx: "close xmlrpc".  When the client is deleted, the thread that uses
\* it is not in the middle of a request.
ClientClosedAfterLastUse == stage = 7 => pc["xmlrpc"] # "request"
=============================================================================
