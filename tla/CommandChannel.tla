--------------------------- MODULE CommandChannel ---------------------------
(***************************************************************************)
(* What sendCmd and RequestData promise the threads that call them, with   *)
(* the line, the tries and the telemetry left out: commands are served one *)
(* at a time, the radio decides the fate of the one in service, and each   *)
(* call ends with one verdict.  While the channel is trusted the radio     *)
(* decides at most once and the verdict says what it decided; an answer    *)
(* that comes too late costs the trust until the command is done.          *)
(***************************************************************************)
CONSTANT Callers

VARIABLES
  phase,    \* per caller: "idle", "asked", "served" or "answered"
  fate,     \* per caller: what the radio did with its command in service
  verdict,  \* per caller: what its call is told
  trusted   \* no answer of this service has been late

vars == <<phase, fate, verdict, trusted>>

Undecided == "none"
Fates     == {Undecided, "accepted", "rejected"}
Verdicts  == {"none", "OK", "DATA", "REJ", "FAIL"}

Matches(v, f) ==
  \/ v \in {"OK", "DATA"} /\ f = "accepted"
  \/ v = "REJ" /\ f = "rejected"
  \/ v = "FAIL" /\ f = Undecided

InService == {c \in Callers : phase[c] \in {"served", "answered"}}

Init ==
  /\ phase = [c \in Callers |-> "idle"]
  /\ fate = [c \in Callers |-> Undecided]
  /\ verdict = [c \in Callers |-> "none"]
  /\ trusted = FALSE

Ask(c) ==
  /\ phase[c] = "idle"
  /\ phase' = [phase EXCEPT ![c] = "asked"]
  /\ UNCHANGED <<fate, verdict, trusted>>

Begin(c) ==
  /\ phase[c] = "asked"
  /\ InService = {}
  /\ phase' = [phase EXCEPT ![c] = "served"]
  /\ trusted' \in BOOLEAN
  /\ UNCHANGED <<fate, verdict>>

Decide(c) ==
  /\ c \in InService
  /\ trusted => fate[c] = Undecided
  /\ \E f \in {"accepted", "rejected"} : fate' = [fate EXCEPT ![c] = f]
  /\ UNCHANGED <<phase, verdict, trusted>>

AnswerLate ==
  /\ trusted
  /\ trusted' = FALSE
  /\ UNCHANGED <<phase, fate, verdict>>

Answer(c) ==
  /\ phase[c] = "served"
  /\ phase' = [phase EXCEPT ![c] = "answered"]
  /\ \E v \in Verdicts \ {"none"}, t \in BOOLEAN :
       /\ t => trusted /\ Matches(v, fate[c])
       /\ verdict' = [verdict EXCEPT ![c] = v]
       /\ trusted' = t
  /\ UNCHANGED fate

Return(c) ==
  /\ phase[c] = "answered"
  /\ phase' = [phase EXCEPT ![c] = "idle"]
  /\ fate' = [fate EXCEPT ![c] = Undecided]
  /\ verdict' = [verdict EXCEPT ![c] = "none"]
  /\ trusted' = FALSE

Next ==
  \/ AnswerLate
  \/ \E c \in Callers :
       Ask(c) \/ Begin(c) \/ Decide(c) \/ Answer(c) \/ Return(c)

Spec == Init /\ [][Next]_vars
=============================================================================
