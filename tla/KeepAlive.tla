----------------------------- MODULE KeepAlive ------------------------------
(***************************************************************************)
(* How the radio is kept awake: watchdog_thread_loop of support.cxx and    *)
(* the reload of watchdog_count at the end of sendCmd (kcat_io.cxx).       *)
(*                                                                         *)
(* watchdog_count is an int that the watchdog decrements and every caller  *)
(* of sendCmd overwrites; no lock covers both, so the decrement is a load  *)
(* and a store that a reload may fall between.                             *)
(*                                                                         *)
(* One tick is the MilliSleep(100) of the watchdog.  Time passes only      *)
(* while threads sleep or wait: the load, the store and the reload take    *)
(* none, a free mutex is taken at once, and a call that has the line is    *)
(* done with it after CallTicks ticks (its MAXTRIES times LOOPS reads).    *)
(* A call none of whose writes gets through sends nothing and reads        *)
(* nothing, and a sendCmd reloads the count all the same.                  *)
(***************************************************************************)
EXTENDS Integers

CONSTANTS
  Senders,      \* the other threads that send commands
  Watchdog,     \* the watchdog thread
  WdReload,     \* 150: the watchdog's own reload
  SendReload,   \* 1500: the reload of sendCmd
  CallTicks,    \* bound: ticks between the first write of a call and its end
  MaxDeaf       \* bound: calls in succession that cannot be written

Threads == Senders \cup {Watchdog}
Free == "free"

ASSUME KeepAliveAssumption ==
  /\ Watchdog \notin Senders /\ Free \notin Threads
  /\ WdReload \in Nat \ {0} /\ SendReload \in Nat \ {0}
  /\ WdReload <= SendReload
  /\ CallTicks \in Nat /\ MaxDeaf \in Nat

VARIABLES
  watchdog_count,
  loaded,        \* the value the watchdog has loaded to decrement
  pc,            \* where each thread is
  reloads,       \* per thread: the call is a sendCmd, not a RequestData
  mutex_serial,  \* the thread that has the line, or Free
  age,           \* ticks since that thread wrote its command
  silence,       \* ticks since the last command was written, counted up to
                 \* one more than the longest silence
  deaf           \* the calls since then that could not be written

vars == <<watchdog_count, loaded, pc, reloads, mutex_serial, age, silence, deaf>>

\* The longest the radio may be left alone when n calls could not be written: see
\* SilenceBounded.
SilenceLimit(n) == SendReload + CallTicks + n * SendReload

Init ==
  /\ watchdog_count = WdReload
  /\ loaded = 0
  /\ pc = [t \in Threads |-> IF t = Watchdog THEN "sleep" ELSE "idle"]
  /\ reloads = [t \in Threads |-> TRUE]
  /\ mutex_serial = Free
  /\ age = 0
  /\ silence = 0
  /\ deaf = 0

-----------------------------------------------------------------------------
(***************************************************************************)
(* A call of sendCmd or RequestData by any thread.                         *)
(***************************************************************************)
Call(s) ==
  /\ pc[s] = "idle"
  /\ pc' = [pc EXCEPT ![s] = "lock"]
  /\ \E send \in BOOLEAN : reloads' = [reloads EXCEPT ![s] = send]
  /\ UNCHANGED <<watchdog_count, loaded, mutex_serial, age, silence, deaf>>

\* The lock, and the first write behind it that gets through.
Lock(t) ==
  /\ pc[t] = "lock"
  /\ mutex_serial = Free
  /\ mutex_serial' = t
  /\ pc' = [pc EXCEPT ![t] = "wait"]
  /\ age' = 0
  /\ silence' = 0 /\ deaf' = 0
  /\ UNCHANGED <<watchdog_count, loaded, reloads>>

\* WriteBuffer fails on every try: the radio hears nothing, and there is nothing to wait for.
WritesFail(t) ==
  /\ pc[t] = "lock"
  /\ mutex_serial = Free
  /\ deaf < MaxDeaf
  /\ mutex_serial' = t
  /\ pc' = [pc EXCEPT ![t] = "wait"]
  /\ age' = CallTicks
  /\ deaf' = deaf + 1
  /\ UNCHANGED <<watchdog_count, loaded, reloads, silence>>

\* A fault: watchdog_count += 1500.
DoneAdds(t) ==
  /\ pc[t] = "wait"
  /\ watchdog_count' = IF reloads[t] THEN watchdog_count + SendReload ELSE watchdog_count
  /\ mutex_serial' = Free
  /\ age' = 0
  /\ pc' = [pc EXCEPT ![t] = IF t = Watchdog THEN "reload" ELSE "idle"]
  /\ UNCHANGED <<loaded, reloads, silence, deaf>>

\* cmddone: sendCmd reloads the count before it gives the mutex back,
\* RequestData leaves it alone.
Done(t) ==
  /\ pc[t] = "wait"
  /\ watchdog_count' = IF reloads[t] THEN SendReload ELSE watchdog_count
  /\ mutex_serial' = Free
  /\ age' = 0
  /\ pc' = [pc EXCEPT ![t] = IF t = Watchdog THEN "reload" ELSE "idle"]
  /\ UNCHANGED <<loaded, reloads, silence, deaf>>

-----------------------------------------------------------------------------
(***************************************************************************)
(* watchdog_thread_loop                                                    *)
(***************************************************************************)
\* if (--watchdog_count == 0): first the load ...
LoadCount ==
  /\ pc[Watchdog] = "load"
  /\ loaded' = watchdog_count
  /\ pc' = [pc EXCEPT ![Watchdog] = "store"]
  /\ UNCHANGED <<watchdog_count, reloads, mutex_serial, age, silence, deaf>>

\* A fault: if (watchdog_count-- == 0).
StoreCountPost ==
  /\ pc[Watchdog] = "store"
  /\ watchdog_count' = loaded - 1
  /\ loaded' = 0
  /\ pc' = [pc EXCEPT ![Watchdog] = IF loaded = 0 THEN "lock" ELSE "sleep"]
  /\ UNCHANGED <<reloads, mutex_serial, age, silence, deaf>>

\* ... then the store, and setXcvrNOOP when the new value is zero.
StoreCount ==
  /\ pc[Watchdog] = "store"
  /\ watchdog_count' = loaded - 1
  /\ loaded' = 0
  /\ pc' = [pc EXCEPT ![Watchdog] = IF loaded - 1 = 0 THEN "lock" ELSE "sleep"]
  /\ UNCHANGED <<reloads, mutex_serial, age, silence, deaf>>

\* A fault: the loop is left after the first NOOP.
ReloadAndLeave ==
  /\ pc[Watchdog] = "reload"
  /\ watchdog_count' = WdReload
  /\ pc' = [pc EXCEPT ![Watchdog] = "idle"]
  /\ UNCHANGED <<loaded, reloads, mutex_serial, age, silence, deaf>>

\* watchdog_count = 150, after the NOOP.
Reload ==
  /\ pc[Watchdog] = "reload"
  /\ watchdog_count' = WdReload
  /\ pc' = [pc EXCEPT ![Watchdog] = "sleep"]
  /\ UNCHANGED <<loaded, reloads, mutex_serial, age, silence, deaf>>

\* Nobody has anything to do at once.
Waiting ==
  /\ pc[Watchdog] \notin {"load", "store", "reload"}
  /\ mutex_serial = Free => \A t \in Threads : pc[t] # "lock"
  /\ mutex_serial # Free => age < CallTicks

\* 100 msec pass, and the watchdog's MilliSleep ends.
Tick ==
  /\ Waiting
  /\ silence' = IF silence <= SilenceLimit(MaxDeaf) THEN silence + 1 ELSE silence
  /\ age' = IF mutex_serial = Free THEN age ELSE age + 1
  /\ pc' = IF pc[Watchdog] = "sleep" THEN [pc EXCEPT ![Watchdog] = "load"] ELSE pc
  /\ UNCHANGED <<watchdog_count, loaded, reloads, mutex_serial, deaf>>

Next ==
  \/ \E s \in Senders : Call(s)
  \/ \E t \in Threads : Lock(t) \/ WritesFail(t) \/ Done(t)
  \/ LoadCount \/ StoreCount \/ Reload
  \/ Tick

(***************************************************************************)
(* Time goes on and the threads run.  The senders sleep between two calls, *)
(* so a watchdog that waits for the mutex gets it: strong fairness.        *)
(***************************************************************************)
Fairness ==
  /\ WF_vars(Tick) /\ WF_vars(LoadCount \/ StoreCount \/ Reload)
  /\ \A t \in Threads : WF_vars(Done(t)) /\ SF_vars(Lock(t) \/ WritesFail(t))

Spec == Init /\ [][Next]_vars
FairSpec == Spec /\ Fairness

-----------------------------------------------------------------------------
(***************************************************************************)
(* Properties                                                              *)
(***************************************************************************)
\* Types.  The count stays between zero and the larger reload.
TypeOK ==
  /\ watchdog_count \in 0..SendReload
  /\ loaded \in 0..SendReload
  /\ pc \in [Threads -> {"idle", "lock", "wait", "sleep", "load", "store", "reload"}]
  /\ reloads \in [Threads -> BOOLEAN]
  /\ mutex_serial \in Threads \cup {Free}
  /\ age \in 0..CallTicks
  /\ silence \in 0..(SilenceLimit(MaxDeaf) + 1)
  /\ deaf \in 0..MaxDeaf

\* The decrement never steps over zero, whatever reload it loses: a count of
\* zero is one the watchdog is about to send for.  Past zero the comparison
\* would not hold again for 2^32 ticks.
ZeroIsSeen ==
  watchdog_count = 0 => pc[Watchdog] \in {"lock", "wait"}

\* The radio hears from the host at least once in the longer reload plus the
\* length of one call, whoever reloads the count and whichever reload is lost; a
\* call that could not be written postpones that by one longer reload, no more,
\* because it reloads the count as well.
SilenceBounded == silence <= SilenceLimit(deaf)

\* The radio is never left alone: commands keep coming although no thread but
\* the watchdog has to send any, as long as no more than MaxDeaf calls in
\* succession cannot be written.
RadioHearsFromUs == []<>(silence = 0)
=============================================================================
