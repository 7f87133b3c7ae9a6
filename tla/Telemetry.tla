------------------------------ MODULE Telemetry ------------------------------
(***************************************************************************)
(* The stack of telemetry readings, cStack, and the meters it drives.      *)
(*                                                                         *)
(* The telemetry thread pushes what it reads after it has given up the     *)
(* port; sendCmd pushes what it reads while it waits for its answer, with  *)
(* the port held, in whichever thread called it.  parseTelemetry pops in   *)
(* the GUI thread.  The stack has no lock of its own: each operation is a  *)
(* test, a load and a store of top, and an access to the array.            *)
(*                                                                         *)
(* What the entries hold is left out: a pop returns any reading.           *)
(***************************************************************************)
EXTENDS Integers

CONSTANT StackSize   \* entries of the stack

ASSUME StackAssumption == StackSize \in Nat

Pushers  == {"telemetry", "sender"}
Readings == {"signal", "power", "other"}   \* what the ranges of a reading mean

VARIABLES
    top,
    ppc, loaded,       \* per pusher: where it is, the value of top it has loaded
    gpc, gtop,         \* the same for parseTelemetry
    smeter_active, pwrmtr_active,
    smeter, pwrmeter,  \* the meters show something else than zero
    raced              \* history: one push began during another

pusher == <<ppc, loaded, raced>>
popper == <<gpc, gtop>>
meters == <<smeter_active, pwrmtr_active, smeter, pwrmeter>>
stackVars   == <<top, pusher, popper, meters>>

-----------------------------------------------------------------------------
\* Variant of isFull: one entry too late.
isFullLate == top = StackSize

isFull == top = StackSize - 1

isEmpty == top = -1

\* push begins: a full stack drops the reading.
PushBegins(p) ==
    /\ ppc[p] = "idle" /\ ~isFull
    /\ ppc' = [ppc EXCEPT ![p] = "load"]
    /\ raced' = (raced \/ \E q \in Pushers \ {p} : ppc[q] # "idle")
    /\ UNCHANGED <<loaded, top, popper, meters>>

\* ++top.
PushLoads(p) ==
    /\ ppc[p] = "load"
    /\ top <= StackSize   \* bound: far enough beyond the array
    /\ ppc' = [ppc EXCEPT ![p] = "store"]
    /\ loaded' = [loaded EXCEPT ![p] = top]
    /\ UNCHANGED <<raced, top, popper, meters>>

PushStores(p) ==
    /\ ppc[p] = "store"
    /\ ppc' = [ppc EXCEPT ![p] = "write"]
    /\ top' = loaded[p] + 1
    /\ UNCHANGED <<loaded, raced, popper, meters>>

\* stackPtr[top] = val, with the value of top just stored.
PushWrites(p) ==
    /\ ppc[p] = "write"
    /\ ppc' = [ppc EXCEPT ![p] = "idle"]
    /\ loaded' = [loaded EXCEPT ![p] = 0]
    /\ UNCHANGED <<raced, top, popper, meters>>

-----------------------------------------------------------------------------
(* parseTelemetry: it pops until the stack is empty.                       *)

PopBegins ==
    /\ gpc = "idle" /\ ~isEmpty
    /\ gpc' = "load"
    /\ UNCHANGED <<gtop, top, pusher, meters>>

\* top--.
PopLoads ==
    /\ gpc = "load" /\ gpc' = "store"
    /\ gtop' = top
    /\ UNCHANGED <<top, pusher, meters>>

PopStores ==
    /\ gpc = "store" /\ gpc' = "read"
    /\ top' = gtop - 1
    /\ UNCHANGED <<gtop, pusher, meters>>

\* Variant of ReceiveReading: the power meter keeps its last value.
ReceiveReadingOnly ==
    /\ smeter_active' = TRUE /\ pwrmtr_active' = FALSE
    /\ smeter' \in BOOLEAN
    /\ UNCHANGED pwrmeter

\* A signal strength puts the transmit meters to rest, zeroXmtMeters.
ReceiveReading ==
    /\ smeter_active' = TRUE /\ pwrmtr_active' = FALSE
    /\ smeter' \in BOOLEAN
    /\ pwrmeter' = (pwrmeter /\ ~pwrmtr_active)

\* A transmit reading puts the signal meter to rest, zeroSmeter.
TransmitReading ==
    /\ pwrmeter' \in BOOLEAN
    /\ IF smeter_active
       THEN /\ smeter' = FALSE
            /\ smeter_active' = FALSE /\ pwrmtr_active' = TRUE
       ELSE UNCHANGED <<smeter, smeter_active, pwrmtr_active>>

\* data = stackPtr[gtop], and what parseTelemetry does with it.
PopParses(data) ==
    /\ gpc = "read" /\ gpc' = "idle"
    /\ gtop' = 0
    /\ CASE data = "signal" -> ReceiveReading
         [] data = "power"  -> TransmitReading
         [] OTHER           -> UNCHANGED meters
    /\ UNCHANGED <<top, pusher>>

-----------------------------------------------------------------------------
StackInit ==
    /\ top = -1
    /\ ppc = [p \in Pushers |-> "idle"]
    /\ loaded = [p \in Pushers |-> 0]
    /\ gpc = "idle" /\ gtop = 0
    /\ smeter_active = TRUE /\ pwrmtr_active = FALSE
    /\ smeter = FALSE /\ pwrmeter = FALSE
    /\ raced = FALSE

StackNext ==
    \/ \E p \in Pushers : PushBegins(p) \/ PushLoads(p) \/ PushStores(p) \/ PushWrites(p)
    \/ PopBegins \/ PopLoads \/ PopStores
    \/ \E data \in Readings : PopParses(data)

StackSpec == StackInit /\ [][StackNext]_stackVars

-----------------------------------------------------------------------------
(* Properties.                                                             *)

\* The counters stay within one of the bounds of the array, however top is raced for.
StackTypeOK ==
    /\ top \in -1..(StackSize + 1)
    /\ ppc \in [Pushers -> {"idle", "load", "store", "write"}]
    /\ loaded \in [Pushers -> -1..StackSize]
    /\ gpc \in {"idle", "load", "store", "read"} /\ gtop \in -1..(StackSize + 1)
    /\ {smeter_active, pwrmtr_active, smeter, pwrmeter, raced} \subseteq BOOLEAN

\* Whatever the threads lose of each other's changes of top, no pop reads below the array.
NeverBelowEmpty == gpc = "read" => gtop >= 0

\* Only two pushes at the same time can take the stack beyond its size: a push writes and a
\* pop reads outside the array only after that.
OverflowNeedsTwoPushes ==
    \/ raced
    \/ /\ top < StackSize
       /\ \A p \in Pushers : ppc[p] = "write" => loaded[p] + 1 < StackSize
       /\ gpc = "read" => gtop < StackSize

\* Without a lock, the stack stays inside its array, but for two pushes at the same time.
StaysInArray == NeverBelowEmpty /\ OverflowNeedsTwoPushes

\* Newest first, repeated or lost: the meter of the direction that is not in use shows
\* zero, and one direction is in use.
RestingMeterShowsZero ==
    /\ smeter_active # pwrmtr_active
    /\ smeter_active \/ ~smeter
    /\ pwrmtr_active \/ ~pwrmeter
=============================================================================
