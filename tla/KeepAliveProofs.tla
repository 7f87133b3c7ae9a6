--------------------------- MODULE KeepAliveProofs ---------------------------
(***************************************************************************)
(* Theorems about KeepAlive, for every pair of reloads, every length of a  *)
(* call and every set of sending threads.                                  *)
(***************************************************************************)
EXTENDS KeepAlive, TLAPS

\* The watchdog itself only ever calls sendCmd, and never leaves its loop.
WatchdogInv == pc[Watchdog] # "idle" /\ reloads[Watchdog]

\* The thread that has the line is the one that waits for its answer.  Either the radio
\* has heard from it when it took the line, or it has postponed the limit of the silence
\* and no time passes before it is done.
LineInv ==
  /\ \A t \in Threads : pc[t] = "wait" <=> mutex_serial = t
  /\ mutex_serial # Free => /\ age < CallTicks => silence = age
                            /\ silence + SendReload <= SilenceLimit(deaf)

\* Neither the count nor what the watchdog has loaded of it is zero before the
\* watchdog has seen the zero.
ZeroInv ==
  /\ pc[Watchdog] \notin {"lock", "wait"} => watchdog_count >= 1
  /\ pc[Watchdog] = "store" => loaded >= 1

\* What is left of the count makes up for the silence so far: a tick moves one
\* from the first to the second, and a reload by any thread comes either with a silence
\* no longer than a call or with a limit that is one reload further away.
SumInv ==
  /\ pc[Watchdog] = "sleep"  => silence + watchdog_count <= SilenceLimit(deaf)
  /\ pc[Watchdog] = "load"   => silence + watchdog_count <= SilenceLimit(deaf) + 1
  /\ pc[Watchdog] = "store"  => silence + loaded <= SilenceLimit(deaf) + 1
  /\ pc[Watchdog] = "reload" => silence + SendReload <= SilenceLimit(deaf)
  /\ silence <= SilenceLimit(deaf)

KInv == TypeOK /\ WatchdogInv /\ LineInv /\ ZeroInv /\ SumInv

USE DEF Threads

\* The limit is a number, at least as long as a call and a reload; each call that cannot be
\* written adds a reload.
LEMMA LimitGrows ==
  /\ SilenceLimit(0) = SendReload + CallTicks
  /\ \A n \in Nat : /\ SilenceLimit(n) \in Nat
                    /\ SilenceLimit(n) >= SendReload + CallTicks
                    /\ SilenceLimit(n + 1) = SilenceLimit(n) + SendReload
<1>1. SendReload \in Nat /\ CallTicks \in Nat
  BY KeepAliveAssumption
<1>2. ASSUME NEW n \in Nat
      PROVE  n * SendReload \in Nat /\ (n + 1) * SendReload = n * SendReload + SendReload
  BY <1>1
<1>3. 0 * SendReload = 0
  BY <1>1
<1> QED
  BY <1>1, <1>2, <1>3 DEF SilenceLimit

\* Fewer such calls have an earlier limit.
LEMMA LimitOrder ==
  ASSUME NEW m \in Nat, NEW n \in Nat, m <= n
  PROVE  SilenceLimit(m) <= SilenceLimit(n)
<1>1. SendReload \in Nat /\ CallTicks \in Nat
  BY KeepAliveAssumption
<1>2. PICK k \in Nat : n = m + k
  BY Z3
<1>3. k * SendReload \in Nat /\ n * SendReload = m * SendReload + k * SendReload
  BY <1>1, <1>2
<1>4. m * SendReload \in Nat
  BY <1>1
<1> QED
  BY <1>1, <1>3, <1>4 DEF SilenceLimit

\* The first state: the count is the watchdog's own reload, and nobody has the line.
LEMMA InitKInv == Init => KInv
<1> SUFFICES ASSUME Init PROVE KInv
  OBVIOUS
<1>1. Free \notin Threads /\ Watchdog \in Threads
  BY KeepAliveAssumption
<1>2. TypeOK /\ WatchdogInv /\ ZeroInv /\ SumInv
  BY <1>1, KeepAliveAssumption, LimitGrows DEF Init, TypeOK, WatchdogInv, ZeroInv, SumInv
<1>3. LineInv
  BY <1>1 DEF Init, LineInv
<1> QED
  BY <1>2, <1>3 DEF KInv

\* A sender that asks for the line leaves count and silence alone.
LEMMA CallStep == ASSUME KInv, NEW s \in Senders, Call(s) PROVE KInv'
  BY KeepAliveAssumption, LimitGrows DEF Call, KInv, TypeOK, WatchdogInv, LineInv, ZeroInv, SumInv

\* The first write of a call ends the silence.
LEMMA LockStep == ASSUME KInv, NEW t \in Threads, Lock(t) PROVE KInv'
<1> USE KeepAliveAssumption
<1>1. TypeOK'
  BY LimitGrows DEF Lock, KInv, TypeOK
<1>2. WatchdogInv' /\ ZeroInv'
  BY DEF Lock, KInv, TypeOK, WatchdogInv, ZeroInv
<1>3. LineInv'
  BY LimitGrows DEF Lock, KInv, TypeOK, LineInv
<1>4. SumInv'
  BY LimitGrows DEF Lock, KInv, TypeOK, LineInv, ZeroInv, SumInv
<1> QED
  BY <1>1, <1>2, <1>3, <1>4 DEF KInv

\* A call that cannot be written leaves the silence alone and moves its limit.
LEMMA WritesFailStep == ASSUME KInv, NEW t \in Threads, WritesFail(t) PROVE KInv'
<1> USE KeepAliveAssumption
<1>1. SilenceLimit(deaf') = SilenceLimit(deaf) + SendReload /\ SilenceLimit(deaf) \in Nat
  BY LimitGrows DEF WritesFail, KInv, TypeOK
<1>2. TypeOK'
  BY DEF WritesFail, KInv, TypeOK
<1>3. WatchdogInv' /\ ZeroInv'
  BY DEF WritesFail, KInv, TypeOK, WatchdogInv, ZeroInv
<1>4. silence' = silence /\ silence + SendReload <= SilenceLimit(deaf')
  BY <1>1 DEF WritesFail, KInv, TypeOK, SumInv
<1>5. LineInv'
  BY <1>4 DEF WritesFail, KInv, TypeOK, LineInv
<1>6. SumInv'
  BY <1>1, <1>4 DEF WritesFail, KInv, TypeOK, SumInv
<1> QED
  BY <1>2, <1>3, <1>5, <1>6 DEF KInv

\* The end of a call: the reload comes with a silence that leaves room for it.
LEMMA DoneStep == ASSUME KInv, NEW t \in Threads, Done(t) PROVE KInv'
<1> USE KeepAliveAssumption
<1>1. mutex_serial = t /\ t # Free /\ silence + SendReload <= SilenceLimit(deaf)
  BY DEF Done, KInv, LineInv
<1>2. TypeOK'
  BY DEF Done, KInv, TypeOK
<1>3. WatchdogInv'
  BY DEF Done, KInv, TypeOK, WatchdogInv
<1>4. LineInv'
  BY <1>1 DEF Done, KInv, TypeOK, LineInv
<1>5. ZeroInv'
  BY DEF Done, KInv, TypeOK, WatchdogInv, ZeroInv
<1>6. SumInv'
  BY <1>1, LimitGrows DEF Done, KInv, TypeOK, SumInv
<1> QED
  BY <1>2, <1>3, <1>4, <1>5, <1>6 DEF KInv

\* The steps of the watchdog between two ticks.
LEMMA WatchdogStep == ASSUME KInv, LoadCount \/ StoreCount \/ Reload PROVE KInv'
<1> USE KeepAliveAssumption, LimitGrows DEF KInv, TypeOK, WatchdogInv, LineInv, ZeroInv, SumInv
<1>1. CASE LoadCount
  BY <1>1 DEF LoadCount
<1>2. CASE StoreCount
  BY <1>2 DEF StoreCount
<1>3. CASE Reload
  BY <1>3 DEF Reload
<1> QED
  BY <1>1, <1>2, <1>3

\* A tick moves one from the count to the silence, or adds to the age of a call.
LEMMA TickStep == ASSUME KInv, Tick PROVE KInv'
<1> USE KeepAliveAssumption
<1>0. SilenceLimit(deaf) <= SilenceLimit(MaxDeaf) /\ SilenceLimit(deaf) \in Nat
      /\ SilenceLimit(MaxDeaf) \in Nat /\ SilenceLimit(deaf) >= SendReload + CallTicks
  <2>1. deaf \in Nat /\ MaxDeaf \in Nat /\ deaf <= MaxDeaf
    BY DEF KInv, TypeOK
  <2> QED
    BY <2>1, LimitGrows, LimitOrder
<1>1. /\ silence' = silence + 1 /\ deaf' = deaf
      /\ watchdog_count' = watchdog_count /\ loaded' = loaded
      /\ reloads' = reloads /\ mutex_serial' = mutex_serial
  BY <1>0 DEF Tick, KInv, TypeOK, SumInv
<1>2. pc[Watchdog] \in {"sleep", "lock", "wait"}
  BY DEF Tick, Waiting, KInv, TypeOK, WatchdogInv
<1>3. pc[Watchdog] # "sleep" => mutex_serial # Free
  BY <1>2 DEF Tick, Waiting, KInv, LineInv
<1>4. mutex_serial # Free => silence + 1 <= CallTicks /\ silence = age
  BY DEF Tick, Waiting, KInv, TypeOK, LineInv
<1>5. silence + 1 <= SilenceLimit(deaf)
  BY <1>0, <1>2, <1>3, <1>4 DEF KInv, TypeOK, ZeroInv, SumInv
<1>6. TypeOK'
  BY <1>0, <1>1, <1>5 DEF Tick, Waiting, KInv, TypeOK
<1>7. WatchdogInv' /\ ZeroInv'
  BY <1>1 DEF Tick, KInv, TypeOK, WatchdogInv, ZeroInv
<1>8. LineInv'
  BY <1>0, <1>1, <1>4 DEF Tick, KInv, TypeOK, LineInv
<1>9. SumInv'
  BY <1>0, <1>1, <1>2, <1>5 DEF Tick, KInv, TypeOK, SumInv
<1> QED
  BY <1>6, <1>7, <1>8, <1>9 DEF KInv

\* Every step keeps the invariant.
LEMMA KInvInductive == KInv /\ [Next]_vars => KInv'
<1>1. ASSUME KInv, UNCHANGED vars PROVE KInv'
  BY <1>1 DEF vars, KInv, TypeOK, WatchdogInv, LineInv, ZeroInv, SumInv
<1> QED
  BY <1>1, CallStep, LockStep, WritesFailStep, DoneStep, WatchdogStep, TickStep DEF Next

\* The invariant holds throughout every behaviour.
THEOREM KeepAliveInvariance == Spec => []KInv
  BY InitKInv, KInvInductive, PTL DEF Spec

\* watchdog_count, an int without a lock, stays between zero and the larger reload, and
\* the age of a call and the silence stay within what the bounds allow.
THEOREM CountStaysInRange == Spec => []TypeOK
<1>1. KInv => TypeOK
  BY DEF KInv
<1> QED
  BY <1>1, KeepAliveInvariance, PTL

\* Whichever reload of sendCmd is lost between the load and the store of the
\* watchdog's decrement, a count of zero is always one the watchdog has seen.
THEOREM ZeroIsAlwaysSeen == Spec => []ZeroIsSeen
<1>1. KInv => ZeroIsSeen
  BY KeepAliveAssumption DEF KInv, TypeOK, ZeroInv, ZeroIsSeen
<1> QED
  BY <1>1, KeepAliveInvariance, PTL

\* The radio hears from the host at least once in the reload of sendCmd plus the
\* length of one call and one more reload for each call that could not be written,
\* whoever reloads the count and whichever reload is lost.
THEOREM SilenceIsBounded == Spec => []SilenceBounded
<1>1. KInv => SilenceBounded
  BY DEF KInv, SumInv, SilenceBounded
<1> QED
  BY <1>1, KeepAliveInvariance, PTL
=============================================================================
