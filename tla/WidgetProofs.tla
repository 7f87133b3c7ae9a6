---------------------------- MODULE WidgetProofs ----------------------------
(***************************************************************************)
(* What the callbacks of the GUI thread keep, each of them run to its end: *)
(* the frequency display, the contest log, the list of stored frequencies  *)
(* and the table of antenna ranges, with the sort these two share, and the *)
(* controls of the receiver.                                               *)
(***************************************************************************)
EXTENDS FreqControl, Contest, MemoryList, AntennaPorts, Receiver, WellFoundedInduction, TLAPS

(***************************************************************************)
(* The frequency display, for any number of digits, base and length of an  *)
(* entry: unless an unfinished entry was sent or one pasted, the radio is  *)
(* on the frequency shown or on the one Escape goes back to.               *)
(***************************************************************************)

DisplayInv == blinking \in BOOLEAN /\ ShownIsTuned

-----------------------------------------------------------------------------
\* freq_input_cb: an entry goes on with the radio where it was, or ends with the radio on it.
LEMMA InputKeeps ==
    ASSUME NEW keys, freq_input_cb(keys), strayed \/ radioFreq = oldval'
    PROVE  DisplayInv'
<1>1. CASE Number(keys) > maxVal
  BY <1>1 DEF freq_input_cb, DisplayInv, ShownIsTuned
<1>2. CASE ~(Number(keys) > maxVal)
  BY <1>2 DEF freq_input_cb, DisplayInv, ShownIsTuned
<1>3. QED
  BY <1>1, <1>2

\* A step, a wheel turn or another control's movFreq: in step unless an entry is going on.
LEMMA RetuneKeeps ==
    ASSUME DisplayInv, NEW v, CallBack(v)
    PROVE  DisplayInv'
  BY DEF CallBack, DisplayInv, ShownIsTuned

\* Every step of the display keeps the invariant.
LEMMA DisplayStepKeeps ==
    ASSUME DisplayInv, [DisplayNext]_displayVars
    PROVE  DisplayInv'
<1>1. ASSUME NEW d \in 0..(Base - 1), Digit(d) PROVE DisplayInv'
  <2>1. strayed \/ radioFreq = oldval'
    BY <1>1 DEF Digit, DisplayInv, ShownIsTuned
  <2>2. QED
    BY <1>1, <2>1, InputKeeps DEF Digit
<1>2. ASSUME NEW d \in 0..(Base - 1), Paste(d) PROVE DisplayInv'
  BY <1>2 DEF Paste, DisplayInv, ShownIsTuned
<1>3. CASE EnterKey
  BY <1>3, InputKeeps DEF EnterKey, DisplayInv, ShownIsTuned
<1>4. CASE Backspace
  BY <1>4, InputKeeps DEF Backspace, DisplayInv, ShownIsTuned
<1>5. CASE Escape
  BY <1>5 DEF Escape, DisplayInv, ShownIsTuned
<1>6. CASE \E n \in 0..(nD - 1) : IncFreq(n) \/ DecFreq(n)
  BY <1>6, RetuneKeeps DEF IncFreq, DecFreq
<1>7. CASE SendShown
  BY <1>7, RetuneKeeps DEF SendShown
<1>8. CASE \E lv \in 0..maxVal : value(lv)
  BY <1>8 DEF value, DisplayInv, ShownIsTuned
<1>9. CASE UNCHANGED displayVars
  BY <1>9 DEF displayVars, DisplayInv, ShownIsTuned
<1>10. QED
  BY <1>1, <1>2, <1>3, <1>4, <1>5, <1>6, <1>7, <1>8, <1>9 DEF DisplayNext

\* cFreqControl::handle: ShownIsTuned for every display and every sequence of keys and calls.
THEOREM DisplayFollowsRadio == DisplaySpec => []ShownIsTuned
<1>1. DisplayInit => DisplayInv
  BY DEF DisplayInit, DisplayInv, ShownIsTuned
<1>2. DisplayInv /\ [DisplayNext]_displayVars => DisplayInv'
  BY DisplayStepKeeps
<1>3. DisplayInv => ShownIsTuned
  BY DEF DisplayInv
<1>4. QED
  BY <1>1, <1>2, <1>3, PTL DEF DisplaySpec

-----------------------------------------------------------------------------
(***************************************************************************)
(* The contest log, for any bound on the serial numbers: a contact is      *)
(* logged under the number its station was given unless that was changed   *)
(* in between, and the box Connect tells whether contacts can be logged.   *)
(***************************************************************************)

\* What has been given to the station that is worked is the current number, until that moves.
GivenIsCurrent == given \subseteq {serial_nbr} \/ moved

LogInv == GivenIsCurrent /\ LoggedAsGiven /\ ConnectMeansConnected

-----------------------------------------------------------------------------
\* xml_add_record leaves the box and the button in agreement and logs the number it is given.
LEMMA AddKeeps ==
    ASSUME LogInv, NEW n, NEW g, NEW m, g \subseteq {n} \/ m,
           xml_add_record(n, g, m), connected' = connected
    PROVE  LoggedAsGiven' /\ ConnectMeansConnected'
<1>1. record' = record \/ record' = [stx |-> n, given |-> g, moved |-> m]
  BY Zenon DEF xml_add_record
<1>2. LoggedAsGiven'
  <2>1. CASE record' = record
    BY <2>1, Zenon DEF LogInv, LoggedAsGiven
  <2>2. CASE record' = [stx |-> n, given |-> g, moved |-> m]
    <3>1. record'.stx = n /\ record'.given = g /\ record'.moved = m
      BY <2>2, Zenon
    <3>2. QED
      BY <3>1, Zenon DEF LoggedAsGiven
  <2>3. QED
    BY <1>1, <2>1, <2>2
<1>3. \/ UNCHANGED <<btnConnect, btn_log_it>>
      \/ btnConnect' = FALSE /\ btn_log_it' = FALSE
  BY Zenon DEF xml_add_record
<1>4. ConnectMeansConnected'
  <2>1. CASE UNCHANGED <<btnConnect, btn_log_it>>
    BY <2>1 DEF LogInv, ConnectMeansConnected
  <2>2. CASE btnConnect' = FALSE /\ btn_log_it' = FALSE
    BY <2>2 DEF ConnectMeansConnected
  <2>3. QED
    BY <1>3, <2>1, <2>2
<1>5. QED
  BY <1>2, <1>4

\* A message gives, logs and counts: the number that is logged is the one before the count.
LEMMA MessageKeeps ==
    ASSUME LogInv, NEW m \in Messages, send_message(m)
    PROVE  LogInv'
<1>1. Given(m) \subseteq {serial_nbr} \/ Moved(m)
  BY Zenon DEF Given, Moved, LogInv, GivenIsCurrent
<1>2. /\ given' = Given(m) /\ moved' = (Moved(m) \/ serial_nbr' # serial_nbr)
      /\ connected' = connected
  BY Zenon DEF send_message, expand_msg
<1>3. GivenIsCurrent'
  <2>1. CASE serial_nbr' = serial_nbr
    BY <1>1, <1>2, <2>1, Zenon DEF GivenIsCurrent
  <2>2. CASE serial_nbr' # serial_nbr
    BY <1>2, <2>2, Zenon DEF GivenIsCurrent
  <2>3. QED
    BY <2>1, <2>2
<1>4. CASE m.log /\ btnConnect
  <2>1. xml_add_record(serial_nbr, Given(m), Moved(m))
    BY <1>4 DEF send_message, expand_msg
  <2>2. LoggedAsGiven' /\ ConnectMeansConnected'
    BY <2>1, <1>1, <1>2, AddKeeps
  <2>3. QED
    BY <2>2, <1>3 DEF LogInv
<1>5. CASE ~(m.log /\ btnConnect)
  <2>1. UNCHANGED <<btnConnect, btn_log_it, record>>
    BY <1>5 DEF send_message, expand_msg
  <2>2. QED
    BY <2>1, <1>2, <1>3, Zenon DEF LogInv, LoggedAsGiven, ConnectMeansConnected
<1>6. QED
  BY <1>4, <1>5

\* Every step of the log keeps the invariant.
LEMMA LogStepKeeps ==
    ASSUME MaxNbr \in Nat, LogInv, [LogNext]_logVars
    PROVE  LogInv'
<1>1. CASE \E m \in Messages : send_message(m)
  BY <1>1, MessageKeeps
<1>2. CASE LogIt
  <2>1. (given \subseteq {serial_nbr} \/ moved) /\ xml_add_record(serial_nbr, given, moved)
    BY <1>2 DEF LogIt, LogInv, GivenIsCurrent
  <2>2. UNCHANGED <<serial_nbr, given, moved, connected>>
    BY <1>2 DEF LogIt
  <2>3. QED
    BY <2>1, <2>2, AddKeeps DEF LogInv, GivenIsCurrent
<1>3. CASE connect_to_server
  BY <1>3, Zenon DEF connect_to_server, LogInv, GivenIsCurrent, LoggedAsGiven, ConnectMeansConnected
<1>4. CASE Server
  BY <1>4, Zenon DEF Server, LogInv, GivenIsCurrent, LoggedAsGiven, ConnectMeansConnected
<1>5. CASE \E n \in -1..MaxNbr : TypeNumber(n)
  <2>1. /\ moved' = (moved \/ serial_nbr' # serial_nbr)
        /\ UNCHANGED <<btnConnect, connected, btn_log_it, given, record>>
    BY <1>5, Zenon DEF TypeNumber
  <2>2. GivenIsCurrent'
    <3>1. CASE serial_nbr' = serial_nbr
      BY <2>1, <3>1, Zenon DEF LogInv, GivenIsCurrent
    <3>2. CASE serial_nbr' # serial_nbr
      BY <2>1, <3>2, Zenon DEF GivenIsCurrent
    <3>3. QED
      BY <3>1, <3>2
  <2>3. QED
    BY <2>1, <2>2, Zenon DEF LogInv, LoggedAsGiven, ConnectMeansConnected
<1>6. CASE \E s \in BOOLEAN : TypeStation(s)
  BY <1>6 DEF TypeStation, LogInv, GivenIsCurrent, LoggedAsGiven, ConnectMeansConnected
<1>7. CASE UNCHANGED logVars
  BY <1>7, Zenon DEF logVars, LogInv, GivenIsCurrent, LoggedAsGiven, ConnectMeansConnected
<1>8. QED
  BY <1>1, <1>2, <1>3, <1>4, <1>5, <1>6, <1>7 DEF LogNext

\* expand_msg and connect_to_server: the inductive invariant of the log.
THEOREM LogInvariance == LogSpec => []LogInv
<1>1. LogInit => LogInv
  <2> SUFFICES ASSUME LogInit PROVE LogInv
    OBVIOUS
  <2>1. GivenIsCurrent /\ LoggedAsGiven
    BY Zenon DEF LogInit, GivenIsCurrent, LoggedAsGiven
  <2>2. ConnectMeansConnected
    BY Zenon DEF LogInit, ConnectMeansConnected
  <2>3. QED
    BY <2>1, <2>2 DEF LogInv
<1>2. LogInv /\ [LogNext]_logVars => LogInv'
  BY LogAssumption, LogStepKeeps
<1>3. QED
  BY <1>1, <1>2, PTL DEF LogSpec

\* expand_msg: a contact is logged under the number its station was given, whatever tags the
\* message that logs it has, unless the number was counted or typed since it was given.
THEOREM ContactsLoggedAsGiven == LogSpec => []LoggedAsGiven
<1>1. LogInv => LoggedAsGiven
  BY DEF LogInv
<1>2. QED
  BY LogInvariance, <1>1, PTL

\* connect_to_server, test_connection: the button Log is active exactly while the box is ticked.
THEOREM BoxTellsConnection == LogSpec => []ConnectMeansConnected
<1>1. LogInv => ConnectMeansConnected
  BY DEF LogInv
<1>2. QED
  BY LogInvariance, <1>1, PTL

\* The booleans of the log, one by one.
LogFlags ==
    /\ station \in BOOLEAN /\ btnConnect \in BOOLEAN /\ connected \in BOOLEAN
    /\ btn_log_it \in BOOLEAN /\ server \in BOOLEAN /\ moved \in BOOLEAN

Records == [stx : -1..MaxNbr, given : SUBSET (-1..MaxNbr), moved : BOOLEAN]

LogTyped ==
    /\ serial_nbr \in -1..MaxNbr /\ given \subseteq -1..MaxNbr
    /\ LogFlags
    /\ record \in Records

\* xml_add_record keeps the types when its numbers are in range.
LEMMA AddTyped ==
    ASSUME LogTyped, NEW n \in -1..MaxNbr, NEW g \in SUBSET (-1..MaxNbr), NEW m \in BOOLEAN,
           xml_add_record(n, g, m)
    PROVE  /\ record' \in Records
           /\ btnConnect' \in BOOLEAN /\ btn_log_it' \in BOOLEAN
<1>1. record' = record \/ record' = [stx |-> n, given |-> g, moved |-> m]
  BY Zenon DEF xml_add_record
<1>2. \/ UNCHANGED <<btnConnect, btn_log_it>>
      \/ btnConnect' = FALSE /\ btn_log_it' = FALSE
  BY Zenon DEF xml_add_record
<1>3. [stx |-> n, given |-> g, moved |-> m] \in Records
  BY Zenon DEF Records
<1>4. QED
  BY <1>1, <1>2, <1>3, Zenon DEF LogTyped, LogFlags

\* A message counts no further than the bound, and never below 1.
LEMMA MessageTyped ==
    ASSUME MaxNbr \in Nat \ {0}, LogTyped, NEW m \in Messages, send_message(m)
    PROVE  LogTyped'
<1>1. m.step \in {-1, 0, 1} /\ m.nbr \in BOOLEAN /\ serial_nbr \in -1..MaxNbr
  BY DEF Messages, LogTyped
<1>2. /\ serial_nbr + m.step <= MaxNbr
      /\ serial_nbr' = AtLeastOne(serial_nbr + m.step)
      /\ given' = Given(m) /\ moved' = (Moved(m) \/ serial_nbr' # serial_nbr)
      /\ station' = station /\ connected' = connected /\ server' = server
  BY Zenon DEF send_message, expand_msg
<1>3. serial_nbr' \in -1..MaxNbr
  BY <1>1, <1>2 DEF AtLeastOne
<1>4. Given(m) \in SUBSET (-1..MaxNbr)
  BY <1>1 DEF Given, LogTyped
<1>5. Moved(m) \in BOOLEAN /\ moved' \in BOOLEAN
  BY <1>2, Zenon DEF Moved
<1>6. \/ xml_add_record(serial_nbr, Given(m), Moved(m))
      \/ UNCHANGED <<btnConnect, btn_log_it, record>>
  BY Zenon DEF send_message, expand_msg
<1>7. /\ record' \in Records
      /\ btnConnect' \in BOOLEAN /\ btn_log_it' \in BOOLEAN
  BY <1>1, <1>4, <1>5, <1>6, AddTyped, Zenon DEF LogTyped, LogFlags
<1>8. QED
  BY <1>2, <1>3, <1>4, <1>5, <1>7, Zenon DEF LogTyped, LogFlags

\* The log keeps its types, and the numbers stay within what is typed and counted.
THEOREM LogTypes == LogSpec => []LogTypeOK
<1>1. LogInit => LogTyped
  <2> SUFFICES ASSUME LogInit PROVE LogTyped
    OBVIOUS
  <2>1. MaxNbr \in Nat \ {0}
    BY LogAssumption
  <2>2. serial_nbr \in -1..MaxNbr /\ given \subseteq -1..MaxNbr
    BY <2>1 DEF LogInit
  <2>3. record \in Records
    <3>1. 0 \in -1..MaxNbr /\ {} \in SUBSET (-1..MaxNbr) /\ FALSE \in BOOLEAN
      BY <2>1
    <3>2. QED
      BY <3>1, Zenon DEF LogInit, Records
  <2>4. LogFlags
    BY Zenon DEF LogInit, LogFlags
  <2>5. QED
    BY <2>2, <2>3, <2>4 DEF LogTyped
<1>2. LogTyped /\ [LogNext]_logVars => LogTyped'
  <2> SUFFICES ASSUME LogTyped, [LogNext]_logVars PROVE LogTyped'
    OBVIOUS
  <2>1. CASE \E m \in Messages : send_message(m)
    BY <2>1, LogAssumption, MessageTyped
  <2>2. CASE LogIt
    <3>1. xml_add_record(serial_nbr, given, moved)
      BY <2>2 DEF LogIt
    <3>2. UNCHANGED <<serial_nbr, station, connected, server, given, moved>>
      BY <2>2 DEF LogIt
    <3>3. QED
      BY <3>1, <3>2, AddTyped, Zenon DEF LogTyped, LogFlags
  <2>3. CASE connect_to_server
    BY <2>3, Zenon DEF connect_to_server, LogTyped, LogFlags
  <2>4. CASE Server
    BY <2>4, Zenon DEF Server, LogTyped, LogFlags
  <2>5. CASE \E n \in -1..MaxNbr : TypeNumber(n)
    <3>1. moved' \in BOOLEAN
      BY <2>5, Zenon DEF TypeNumber
    <3>2. QED
      BY <2>5, <3>1, Zenon DEF TypeNumber, LogTyped, LogFlags
  <2>6. CASE \E s \in BOOLEAN : TypeStation(s)
    <3>1. {} \subseteq -1..MaxNbr
      OBVIOUS
    <3>2. QED
      BY <2>6, <3>1, Zenon DEF TypeStation, LogTyped, LogFlags
  <2>7. CASE UNCHANGED logVars
    BY <2>7, Zenon DEF logVars, LogTyped, LogFlags
  <2>8. QED
    BY <2>1, <2>2, <2>3, <2>4, <2>5, <2>6, <2>7 DEF LogNext
<1>3. LogTyped => LogTypeOK
  BY DEF LogTyped, LogFlags, Records, LogTypeOK
<1>4. QED
  BY <1>1, <1>2, <1>3, PTL DEF LogSpec

-----------------------------------------------------------------------------
(***************************************************************************)
(* The sort of the lists, for any number of entries.                       *)
(*                                                                         *)
(* Its loops are functions by recursion.  That they can be run to any      *)
(* length, and what holds after each round, is shown by the least round    *)
(* for which it would fail.  An exchange keeps the first n entries a       *)
(* permutation of what they were and brings the lesser entry to the front; *)
(* so the inner loop leaves the least of the entries behind the settled    *)
(* ones next to them, and the outer loop leaves all of them settled.       *)
(***************************************************************************)

\* A set of numbers that is not empty has a least one.
LEMMA LeastNumber ==
    ASSUME NEW S, S \subseteq Nat, S # {}
    PROVE  \E n \in S : \A m \in S : n <= m
<1>1. \E n \in S : \A m \in S : ~(<<m, n>> \in OpToRel(<, Nat))
  BY NatLessThanWellFounded, WFMin
<1>2. ASSUME NEW n \in S, NEW m \in S, ~(<<m, n>> \in OpToRel(<, Nat))
      PROVE  n <= m
  BY <1>2 DEF OpToRel
<1>3. QED
  BY <1>1, <1>2

\* The inner loop up to its comparison with entry m.
Passes(f, list, i, m) ==
    f = [j \in i..m |-> IF j = i THEN list ELSE Exchange(f[j - 1], i, j)]

\* The outer loop up to its pass m.
Rounds(f, list, n, m) ==
    f = [i \in 0..m |-> IF i = 0 THEN list ELSE Pass(f[i - 1], n, i - 1)]

\* The inner loop can be run for any number of comparisons.
LEMMA PassesExist ==
    ASSUME NEW list, NEW i \in Nat, NEW k \in Nat, i <= k
    PROVE  \E f : Passes(f, list, i, k)
<1> DEFINE S == {m \in Nat : i <= m /\ ~\E f : Passes(f, list, i, m)}
<1>1. ASSUME S # {} PROVE FALSE
  <2>1. PICK m \in S : \A j \in S : m <= j
    BY <1>1, LeastNumber
  <2>2. m \in Nat /\ i <= m /\ ~\E f : Passes(f, list, i, m)
    BY <2>1
  <2>3. CASE m = i
    <3>1. Passes([j \in i..i |-> list], list, i, i)
      BY DEF Passes
    <3>2. QED
      BY <2>2, <2>3, <3>1
  <2>4. CASE m # i
    <3>1. m - 1 \in Nat /\ i <= m - 1 /\ m - 1 \notin S
      BY <2>1, <2>2, <2>4
    <3>2. PICK f : Passes(f, list, i, m - 1)
      BY <3>1
    <3> DEFINE g == [j \in i..m |-> IF j = m THEN Exchange(f[m - 1], i, m) ELSE f[j]]
    <3>3. \A j \in i..(m - 1) : g[j] = f[j]
      BY <2>2
    <3>4. \A j \in i..(m - 1) : f[j] = IF j = i THEN list ELSE Exchange(f[j - 1], i, j)
      BY <3>2 DEF Passes
    <3>5. ASSUME NEW j \in i..m
          PROVE  g[j] = IF j = i THEN list ELSE Exchange(g[j - 1], i, j)
      <4>1. CASE j = m
        <5>1. g[j] = Exchange(f[m - 1], i, m) /\ g[m - 1] = f[m - 1]
          BY <2>2, <2>4, <4>1, <3>1, <3>3
        <5>2. QED
          BY <2>4, <4>1, <5>1
      <4>2. CASE j # m
        <5>1. j \in i..(m - 1) /\ (j # i => j - 1 \in i..(m - 1))
          BY <2>2, <4>2
        <5>2. QED
          BY <3>3, <3>4, <5>1
      <4>3. QED
        BY <4>1, <4>2
    <3>6. g = [j \in i..m |-> g[j]]
      OBVIOUS
    <3> HIDE DEF g
    <3>7. Passes(g, list, i, m)
      BY <3>5, <3>6 DEF Passes
    <3>8. QED
      BY <2>2, <3>7
  <2>5. QED
    BY <2>3, <2>4
<1>2. QED
  BY <1>1

\* And so can the outer loop.
LEMMA RoundsExist ==
    ASSUME NEW list, NEW n, NEW k \in Nat
    PROVE  \E f : Rounds(f, list, n, k)
<1> DEFINE S == {m \in Nat : ~\E f : Rounds(f, list, n, m)}
<1>1. ASSUME S # {} PROVE FALSE
  <2>1. PICK m \in S : \A j \in S : m <= j
    BY <1>1, LeastNumber
  <2>2. m \in Nat /\ ~\E f : Rounds(f, list, n, m)
    BY <2>1
  <2>3. CASE m = 0
    <3>1. Rounds([i \in 0..0 |-> list], list, n, 0)
      BY DEF Rounds
    <3>2. QED
      BY <2>2, <2>3, <3>1
  <2>4. CASE m # 0
    <3>1. m - 1 \in Nat /\ m - 1 \notin S
      BY <2>1, <2>2, <2>4
    <3>2. PICK f : Rounds(f, list, n, m - 1)
      BY <3>1
    <3> DEFINE g == [i \in 0..m |-> IF i = m THEN Pass(f[m - 1], n, m - 1) ELSE f[i]]
    <3>3. \A i \in 0..(m - 1) : g[i] = f[i]
      BY <2>2
    <3>4. \A i \in 0..(m - 1) : f[i] = IF i = 0 THEN list ELSE Pass(f[i - 1], n, i - 1)
      BY <3>2 DEF Rounds
    <3>5. ASSUME NEW i \in 0..m
          PROVE  g[i] = IF i = 0 THEN list ELSE Pass(g[i - 1], n, i - 1)
      <4>1. CASE i = m
        <5>1. g[i] = Pass(f[m - 1], n, m - 1) /\ g[m - 1] = f[m - 1]
          BY <2>2, <2>4, <4>1, <3>1, <3>3
        <5>2. QED
          BY <2>4, <4>1, <5>1
      <4>2. CASE i # m
        <5>1. i \in 0..(m - 1) /\ (i # 0 => i - 1 \in 0..(m - 1))
          BY <2>2, <4>2
        <5>2. QED
          BY <3>3, <3>4, <5>1
      <4>3. QED
        BY <4>1, <4>2
    <3>6. g = [i \in 0..m |-> g[i]]
      OBVIOUS
    <3> HIDE DEF g
    <3>7. Rounds(g, list, n, m)
      BY <3>5, <3>6 DEF Rounds
    <3>8. QED
      BY <2>2, <3>7
  <2>5. QED
    BY <2>3, <2>4
<1>2. QED
  BY <1>1

\* The loops are run to their ends.
LEMMA PassRuns ==
    ASSUME NEW list, NEW n \in Nat, NEW i \in Nat, i <= n - 1
    PROVE  \E f : Passes(f, list, i, n - 1) /\ Pass(list, n, i) = f[n - 1]
<1> DEFINE after == CHOOSE f : Passes(f, list, i, n - 1)
<1>1. Pass(list, n, i) = after[n - 1]
  BY DEF Pass, Passes
<1>2. n - 1 \in Nat
  OBVIOUS
<1>3. \E f : Passes(f, list, i, n - 1)
  BY <1>2, PassesExist
<1>4. Passes(after, list, i, n - 1)
  BY <1>3
<1>5. QED
  BY <1>1, <1>4

\* And so are those of the outer loop.
LEMMA SortRuns ==
    ASSUME NEW list, NEW n \in Nat, n # 0
    PROVE  \E f : Rounds(f, list, n, n - 1) /\ Sort(list, n) = f[n - 1]
<1> DEFINE after == CHOOSE f : Rounds(f, list, n, n - 1)
<1>1. Sort(list, n) = after[n - 1]
  BY DEF Sort, Rounds
<1>2. n - 1 \in Nat
  OBVIOUS
<1>3. \E f : Rounds(f, list, n, n - 1)
  BY <1>2, RoundsExist
<1>4. Rounds(after, list, n, n - 1)
  BY <1>3
<1>5. QED
  BY <1>1, <1>4

\* list is entries that have frequencies.
Sortable(list, R) ==
    list \in [Index -> R] /\ \A k \in Index : list[k].freq \in Int

\* The first n entries of l are those of list in some order, and the others are as they were.
Permutes(l, list, n) ==
    /\ \A k \in Index : k >= n => l[k] = list[k]
    /\ \E p \in [0..(n - 1) -> 0..(n - 1)] :
           /\ \A a, b \in 0..(n - 1) : a # b => p[a] # p[b]
           /\ \A k \in 0..(n - 1) : l[k] = list[p[k]]

\* The first i of n entries are where they belong.
Settled(l, n, i) ==
    \A a \in 0..(i - 1), b \in 0..(n - 1) : a < b => l[a].freq <= l[b].freq

\* What an exchange does to the entries.
LEMMA ExchangeDoes ==
    ASSUME NEW R, NEW l, Sortable(l, R), NEW i \in Index, NEW j \in Index, i < j,
           NEW e, e = Exchange(l, i, j)
    PROVE  /\ Sortable(e, R)
           /\ e[i].freq <= e[j].freq /\ e[i].freq <= l[i].freq
           /\ \/ e = l
              \/ e[i] = l[j] /\ e[j] = l[i] /\ \A k \in Index \ {i, j} : e[k] = l[k]
<1> DEFINE x == [l EXCEPT ![i] = l[j], ![j] = l[i]]
<1>1. x \in [Index -> R] /\ x[i] = l[j] /\ x[j] = l[i] /\ \A k \in Index \ {i, j} : x[k] = l[k]
  BY DEF Sortable, Index
<1>2. CASE l[i].freq > l[j].freq
  <2>1. e = x
    BY <1>2 DEF Exchange
  <2>2. \A k \in Index : x[k].freq \in Int
    BY <1>1 DEF Sortable
  <2> HIDE DEF x
  <2>3. QED
    BY <1>1, <1>2, <2>1, <2>2 DEF Sortable
<1>3. CASE ~(l[i].freq > l[j].freq)
  <2>1. e = l
    BY <1>3 DEF Exchange
  <2> HIDE DEF x
  <2>2. QED
    BY <1>3, <2>1 DEF Sortable
<1>4. QED
  BY <1>2, <1>3

\* An exchange is a step of the inner loop: entry i is the least of those seen so far.
LEMMA ExchangeKeeps ==
    ASSUME NEW R, NEW list, NEW l, Sortable(l, R), LISTSIZE \in Nat, NEW n \in 0..LISTSIZE,
           NEW i \in Nat, NEW j \in Nat, i < j, j < n, Permutes(l, list, n), Settled(l, n, i),
           \A b \in (i + 1)..(j - 1) : l[i].freq <= l[b].freq
    PROVE  LET e == Exchange(l, i, j)
           IN  /\ Sortable(e, R) /\ Permutes(e, list, n) /\ Settled(e, n, i)
               /\ \A b \in (i + 1)..j : e[i].freq <= e[b].freq
<1> DEFINE e == Exchange(l, i, j)
<1>0. e = Exchange(l, i, j)
  OBVIOUS
<1> HIDE DEF e
<1>1. i \in Index /\ j \in Index /\ i \in 0..(n - 1) /\ j \in 0..(n - 1)
      /\ 0..(n - 1) \subseteq Index
  BY DEF Index
<1>2. /\ Sortable(e, R)
      /\ e[i].freq <= e[j].freq /\ e[i].freq <= l[i].freq
      /\ \/ e = l
         \/ e[i] = l[j] /\ e[j] = l[i] /\ \A k \in Index \ {i, j} : e[k] = l[k]
  <2>1. Sortable(l, R) /\ i \in Index /\ j \in Index /\ i < j /\ e = Exchange(l, i, j)
    BY <1>0, <1>1
  <2>2. QED
    BY <2>1, ExchangeDoes
<1>3. CASE e = l
  <2>1. \A b \in (i + 1)..j : e[i].freq <= e[b].freq
    <3>1. TAKE b \in (i + 1)..j
    <3>2. CASE b = j
      BY <1>2, <3>2
    <3>3. CASE b # j
      <4>1. b \in (i + 1)..(j - 1)
        BY <3>3
      <4>2. QED
        BY <1>3, <4>1
    <3>4. QED
      BY <3>2, <3>3
  <2>2. QED
    BY <1>2, <1>3, <2>1 DEF e
<1>4. CASE e[i] = l[j] /\ e[j] = l[i] /\ \A k \in Index \ {i, j} : e[k] = l[k]
  <2>1. Permutes(e, list, n)
    <3>1. \A k \in Index : k >= n => e[k] = list[k]
      <4>1. TAKE k \in Index
      <4>2. HAVE k >= n
      <4>3. k \in Index \ {i, j}
        BY <4>2 DEF Index
      <4>4. e[k] = l[k]
        BY <1>4, <4>3
      <4>5. QED
        BY <4>2, <4>4 DEF Permutes
    <3>2. PICK p \in [0..(n - 1) -> 0..(n - 1)] :
             /\ \A a, b \in 0..(n - 1) : a # b => p[a] # p[b]
             /\ \A k \in 0..(n - 1) : l[k] = list[p[k]]
      BY DEF Permutes
    <3> DEFINE q == [p EXCEPT ![i] = p[j], ![j] = p[i]]
    <3>3. /\ q \in [0..(n - 1) -> 0..(n - 1)] /\ q[i] = p[j] /\ q[j] = p[i]
          /\ \A k \in 0..(n - 1) : k # i /\ k # j => q[k] = p[k]
      BY <1>1
    <3> HIDE DEF q
    <3>4. \A a, b \in 0..(n - 1) : a # b => q[a] # q[b]
      <4>1. TAKE a, b \in 0..(n - 1)
      <4>2. HAVE a # b
      <4>3. CASE a \in {i, j} /\ b \in {i, j}
        <5>1. p[i] # p[j]
          BY <1>1, <3>2
        <5>2. CASE a = i /\ b = j
          BY <3>3, <5>1, <5>2
        <5>3. CASE a = j /\ b = i
          BY <3>3, <5>1, <5>3
        <5>4. (a = i /\ b = j) \/ (a = j /\ b = i)
          BY <4>2, <4>3
        <5>5. QED
          BY <5>2, <5>3, <5>4
      <4>4. CASE a \in {i, j} /\ b \notin {i, j}
        <5>1. q[b] = p[b] /\ p[b] # p[i] /\ p[b] # p[j]
          BY <1>1, <3>2, <3>3, <4>4
        <5>2. QED
          BY <3>3, <4>4, <5>1
      <4>5. CASE a \notin {i, j} /\ b \in {i, j}
        <5>1. q[a] = p[a] /\ p[a] # p[i] /\ p[a] # p[j]
          BY <1>1, <3>2, <3>3, <4>5
        <5>2. QED
          BY <3>3, <4>5, <5>1
      <4>6. CASE a \notin {i, j} /\ b \notin {i, j}
        <5>1. q[a] = p[a] /\ q[b] = p[b] /\ p[a] # p[b]
          BY <3>2, <3>3, <4>2, <4>6
        <5>2. QED
          BY <5>1
      <4>7. QED
        BY <4>3, <4>4, <4>5, <4>6
    <3>5. \A k \in 0..(n - 1) : e[k] = list[q[k]]
      <4>1. TAKE k \in 0..(n - 1)
      <4>2. CASE k # i /\ k # j
        <5>1. e[k] = l[k]
          BY <1>1, <1>4, <4>2
        <5>2. l[k] = list[p[k]] /\ q[k] = p[k]
          BY <3>2, <3>3, <4>2
        <5>3. QED
          BY <5>1, <5>2
      <4>3. l[i] = list[p[i]] /\ l[j] = list[p[j]]
        BY <1>1, <3>2
      <4>4. CASE k = i
        BY <1>4, <3>3, <4>3, <4>4
      <4>5. CASE k = j
        BY <1>4, <3>3, <4>3, <4>5
      <4>6. QED
        BY <4>2, <4>4, <4>5
    <3>6. QED
      BY <3>1, <3>3, <3>4, <3>5 DEF Permutes
  <2>2. Settled(e, n, i)
    <3>1. ASSUME NEW a \in 0..(i - 1), NEW b \in 0..(n - 1), a < b
          PROVE  e[a].freq <= e[b].freq
      <4>1. e[a] = l[a]
        BY <1>1, <1>4
      <4>2. e[b] \in {l[b], l[i], l[j]}
        BY <1>1, <1>4
      <4>3. l[a].freq <= l[b].freq /\ l[a].freq <= l[i].freq /\ l[a].freq <= l[j].freq
        BY <1>1, <3>1 DEF Settled
      <4>4. QED
        BY <4>1, <4>2, <4>3
    <3>2. QED
      BY <3>1 DEF Settled
  <2>3. \A b \in (i + 1)..j : e[i].freq <= e[b].freq
    <3>1. TAKE b \in (i + 1)..j
    <3>2. CASE b = j
      BY <1>2, <3>2
    <3>3. CASE b # j
      <4>1. b \in (i + 1)..(j - 1) /\ b \in Index /\ e[b] = l[b]
        BY <1>1, <1>4, <3>3 DEF Index
      <4>2. l[i].freq <= l[b].freq
        BY <4>1
      <4>3. e[i].freq \in Int /\ l[i].freq \in Int /\ l[b].freq \in Int
        BY <1>1, <1>2, <4>1 DEF Sortable
      <4>4. QED
        BY <1>2, <4>1, <4>2, <4>3
    <3>4. QED
      BY <3>2, <3>3
  <2>4. QED
    BY <1>2, <2>1, <2>2, <2>3 DEF e
<1>5. QED
  BY <1>2, <1>3, <1>4

\* The inner loop brings the least of the entries behind the settled ones to their end.
LEMMA PassDoes ==
    ASSUME NEW R, NEW list, NEW l, Sortable(l, R), LISTSIZE \in Nat, NEW n \in 0..LISTSIZE,
           NEW i \in Nat, i <= n - 1, Permutes(l, list, n), Settled(l, n, i)
    PROVE  LET e == Pass(l, n, i)
           IN  Sortable(e, R) /\ Permutes(e, list, n) /\ Settled(e, n, i + 1)
<1> DEFINE P(e, j) == /\ Sortable(e, R) /\ Permutes(e, list, n) /\ Settled(e, n, i)
                      /\ \A b \in (i + 1)..j : e[i].freq <= e[b].freq
<1>1. n \in Nat /\ n - 1 \in Nat
  OBVIOUS
<1>2. PICK f : Passes(f, l, i, n - 1) /\ Pass(l, n, i) = f[n - 1]
  BY <1>1, PassRuns
<1>3. f[i] = l /\ \A j \in (i + 1)..(n - 1) : f[j] = Exchange(f[j - 1], i, j)
  BY <1>1, <1>2 DEF Passes
<1> DEFINE S == {j \in i..(n - 1) : ~P(f[j], j)}
<1>4. ASSUME S # {} PROVE FALSE
  <2>1. S \subseteq Nat
    OBVIOUS
  <2>2. PICK m \in S : \A j \in S : m <= j
    BY <1>4, <2>1, LeastNumber
  <2>3. m \in i..(n - 1) /\ ~P(f[m], m)
    BY <2>2
  <2>4. m # i
    <3>1. P(l, i)
      OBVIOUS
    <3>2. QED
      BY <1>3, <2>3, <3>1
  <2>5. m - 1 \in i..(n - 1) /\ m - 1 \notin S /\ m \in (i + 1)..(n - 1) /\ m \in Nat
    BY <2>2, <2>3, <2>4
  <2> DEFINE g == f[m - 1]
  <2>6. P(g, m - 1)
    BY <2>5
  <2>7. f[m] = Exchange(g, i, m)
    BY <1>3, <2>5
  <2> HIDE DEF g
  <2>8. i < m /\ m < n
    BY <2>5
  <2>9. P(Exchange(g, i, m), m)
    BY <2>5, <2>6, <2>8, ExchangeKeeps
  <2>10. QED
    BY <2>3, <2>7, <2>9
<1> DEFINE z == f[n - 1]
<1>5. P(z, n - 1)
  BY <1>1, <1>4
<1> HIDE DEF z
<1>6. Settled(z, n, i + 1)
  <2>1. ASSUME NEW a \in 0..(i + 1 - 1), NEW b \in 0..(n - 1), a < b
        PROVE  z[a].freq <= z[b].freq
    <3>1. CASE a = i
      <4>1. b \in (i + 1)..(n - 1)
        BY <2>1, <3>1
      <4>2. QED
        BY <1>5, <3>1, <4>1
    <3>2. CASE a # i
      <4>1. a \in 0..(i - 1)
        BY <3>2
      <4>2. QED
        BY <1>5, <2>1, <4>1 DEF Settled
    <3>3. QED
      BY <3>1, <3>2
  <2>2. QED
    BY <2>1 DEF Settled
<1>7. QED
  BY <1>2, <1>5, <1>6 DEF z

\* sortList, sortAntPortList: the first n entries are put in order of frequency, and the others
\* left alone.
THEOREM SortDoes ==
    ASSUME NEW R, NEW list, Sortable(list, R), LISTSIZE \in Nat, NEW n \in 0..LISTSIZE
    PROVE  LET s == Sort(list, n)
           IN  /\ Sortable(s, R) /\ Permutes(s, list, n)
               /\ \A a, b \in 0..(n - 1) : a < b => s[a].freq <= s[b].freq
<1> DEFINE P(e, i) == Sortable(e, R) /\ Permutes(e, list, n) /\ Settled(e, n, i)
<1>1. Permutes(list, list, n)
  <2> DEFINE p == [k \in 0..(n - 1) |-> k]
  <2>1. /\ p \in [0..(n - 1) -> 0..(n - 1)]
        /\ \A a, b \in 0..(n - 1) : a # b => p[a] # p[b]
        /\ \A k \in 0..(n - 1) : list[k] = list[p[k]]
    OBVIOUS
  <2> HIDE DEF p
  <2>2. QED
    BY <2>1 DEF Permutes
<1>2. CASE n = 0
  BY <1>1, <1>2 DEF Sort
<1>3. CASE n # 0
  <2>1. n \in Nat /\ n - 1 \in Nat
    BY <1>3
  <2>2. PICK f : Rounds(f, list, n, n - 1) /\ Sort(list, n) = f[n - 1]
    BY <1>3, <2>1, SortRuns
  <2>3. f[0] = list /\ \A i \in 1..(n - 1) : f[i] = Pass(f[i - 1], n, i - 1)
    BY <2>1, <2>2 DEF Rounds
  <2> DEFINE S == {i \in 0..(n - 1) : ~P(f[i], i)}
  <2>4. ASSUME S # {} PROVE FALSE
    <3>1. S \subseteq Nat
      OBVIOUS
    <3>2. PICK m \in S : \A i \in S : m <= i
      BY <2>4, <3>1, LeastNumber
    <3>3. m \in 0..(n - 1) /\ ~P(f[m], m)
      BY <3>2
    <3>4. m # 0
      <4>1. P(list, 0)
        BY <1>1 DEF Settled
      <4>2. QED
        BY <2>3, <3>3, <4>1
    <3>5. m - 1 \in 0..(n - 1) /\ m - 1 \notin S /\ m \in 1..(n - 1) /\ m - 1 \in Nat
          /\ m - 1 <= n - 1 /\ m - 1 + 1 = m
      BY <3>2, <3>3, <3>4
    <3> DEFINE g == f[m - 1]
    <3>6. P(g, m - 1)
      BY <3>5
    <3>7. f[m] = Pass(g, n, m - 1)
      BY <2>3, <3>5
    <3> HIDE DEF g
    <3>8. P(Pass(g, n, m - 1), m - 1 + 1)
      BY <3>5, <3>6, PassDoes
    <3>9. QED
      BY <3>3, <3>5, <3>7, <3>8
  <2> DEFINE z == f[n - 1]
  <2>5. P(z, n - 1)
    BY <2>1, <2>4
  <2> HIDE DEF z
  <2>6. \A a, b \in 0..(n - 1) : a < b => z[a].freq <= z[b].freq
    <3>1. TAKE a, b \in 0..(n - 1)
    <3>2. HAVE a < b
    <3>3. a \in 0..(n - 1 - 1)
      BY <3>2
    <3>4. QED
      BY <2>5, <3>2, <3>3 DEF Settled
  <2>7. QED
    BY <2>2, <2>5, <2>6 DEF z
<1>4. QED
  BY <1>2, <1>3

(***************************************************************************)
(* The list of stored frequencies, for any size of the array and any       *)
(* entries: the browser shows the array, but for the line that stays when  *)
(* the last entry is deleted.  That the list is in order and has no entry  *)
(* twice needs the same of the file, which is read into it (ListInv), and  *)
(* that the sort only permutes.                                            *)
(***************************************************************************)

Distinct(list, n) == \A a, b \in 0..(n - 1) : a # b => list[a] # list[b]
Ascending(list, n) == \A a, b \in 0..(n - 1) : a < b => list[a].freq <= list[b].freq

\* The entries of the array and those of the file are in order and none is there twice.
ListInv ==
    /\ ListTypeOK
    /\ Distinct(oplist, numinlist) /\ Ascending(oplist, numinlist)
    /\ Len(arv) <= LISTSIZE
    /\ \A j, k \in 1..Len(arv) : j < k => arv[j].freq <= arv[k].freq /\ arv[j] # arv[k]
    /\ FreqSelect = Listed \/ (numinlist = 0 /\ Len(FreqSelect) = 1)

\* All entries can be compared.
LEMMA EntryFreq == \A e \in Entries : e.freq \in Int
<1>1. TAKE e \in Entries
<1>2. CASE e \in Entry
  <2>1. e.freq \in StoredFreqs
    BY <1>2 DEF Entry
  <2>2. e.freq \in Int
    BY <2>1, ListAssumption
  <2>3. QED
    BY <2>2
<1>3. CASE e = NoEntry
  BY <1>3 DEF NoEntry
<1>4. QED
  BY <1>2, <1>3 DEF Entries

\* The sort brings no entry in twice.
LEMMA SortKeepsDistinct ==
    ASSUME NEW list \in [Index -> Entries], NEW n \in 0..LISTSIZE, Distinct(list, n)
    PROVE  LET s == Sort(list, n)
           IN  s \in [Index -> Entries] /\ Distinct(s, n) /\ Ascending(s, n)
<1> DEFINE s == Sort(list, n)
<1>1. Sortable(list, Entries)
  BY EntryFreq DEF Sortable
<1>2. LISTSIZE \in Nat
  BY SizeAssumption
<1>3. Sortable(s, Entries) /\ Permutes(s, list, n)
      /\ \A a, b \in 0..(n - 1) : a < b => s[a].freq <= s[b].freq
  BY <1>1, <1>2, SortDoes
<1> HIDE DEF s
<1>4. Distinct(s, n)
  <2>1. PICK p \in [0..(n - 1) -> 0..(n - 1)] :
           /\ \A a, b \in 0..(n - 1) : a # b => p[a] # p[b]
           /\ \A k \in 0..(n - 1) : s[k] = list[p[k]]
    BY <1>3 DEF Permutes
  <2>2. ASSUME NEW a \in 0..(n - 1), NEW b \in 0..(n - 1), a # b
        PROVE  s[a] # s[b]
    <3>1. p[a] \in 0..(n - 1) /\ p[b] \in 0..(n - 1) /\ p[a] # p[b]
      BY <2>1, <2>2
    <3>2. list[p[a]] # list[p[b]]
      BY <3>1 DEF Distinct
    <3>3. QED
      BY <2>1, <3>2
  <2>3. QED
    BY <2>2 DEF Distinct
<1>5. QED
  BY <1>3, <1>4 DEF Sortable, Ascending, s

\* updateSelect puts a list that is not empty in order and shows it.
LEMMA UpdateShows ==
    ASSUME NEW list \in [Index -> Entries], NEW n \in 0..LISTSIZE, Distinct(list, n),
           numinlist' = n, updateSelect(list, n),
           n = 0 => FreqSelect \in Seq(Entries) /\ line \in 0..Len(FreqSelect)
    PROVE  /\ oplist' \in [Index -> Entries] /\ numinlist' \in 0..LISTSIZE
           /\ Distinct(oplist', n) /\ Ascending(oplist', n)
           /\ FreqSelect' \in Seq(Entries) /\ line' \in 0..Len(FreqSelect')
           /\ n = 0 => FreqSelect' = FreqSelect
           /\ n # 0 => FreqSelect' = Listed'
<1>1. CASE n = 0
  BY <1>1 DEF updateSelect, Distinct, Ascending
<1>2. CASE n # 0
  <2> DEFINE s == Sort(list, n)
  <2>1. s \in [Index -> Entries] /\ Distinct(s, n) /\ Ascending(s, n)
    BY SortKeepsDistinct
  <2>2. oplist' = s /\ FreqSelect' = [k \in 1..n |-> oplist'[k - 1]] /\ line' = 0
    BY <1>2 DEF updateSelect
  <2> HIDE DEF s
  <2> DEFINE lines == [k \in 1..n |-> s[k - 1]]
  <2>3. n \in Nat /\ \A k \in 1..n : k - 1 \in Index
    BY SizeAssumption DEF Index
  <2>4. \A k \in 1..n : s[k - 1] \in Entries
    BY <2>1, <2>3
  <2>5. lines \in Seq(Entries)
    BY <2>3, <2>4
  <2>6. FreqSelect' = lines
    BY <2>2
  <2>7. FreqSelect' = Listed'
    BY <2>2 DEF Listed
  <2>8. lines \in Seq(Entries) => 0 \in 0..Len(lines)
    OBVIOUS
  <2> HIDE DEF lines
  <2>9. QED
    BY <1>2, <2>1, <2>2, <2>5, <2>6, <2>7, <2>8
<1>3. QED
  BY <1>1, <1>2

\* buildlist has read at most one entry.
LEMMA ListStarts == ListInit => ListInv
<1> SUFFICES ASSUME ListInit PROVE ListInv
  OBVIOUS
<1> USE SizeAssumption
<1>1. Entry \subseteq Entries /\ NoEntry \in Entries
  BY DEF Entries
<1>2. CASE arv = <<>>
  <2>1. numinlist = 0 /\ FreqSelect = <<>> /\ oplist = [k \in Index |-> NoEntry]
    <3>1. \A k \in Index : ~(k < 0)
      BY DEF Index
    <3>2. QED
      BY <1>2, <3>1 DEF ListInit
  <2>2. Listed = <<>>
    BY <2>1 DEF Listed
  <2>3. QED
    BY <1>1, <1>2, <2>1, <2>2 DEF ListInit, ListInv, ListTypeOK, Distinct, Ascending
<1>3. CASE \E e \in Entry : arv = <<e>>
  <2>1. PICK e \in Entry : arv = <<e>>
    BY <1>3
  <2>2. numinlist = 1 /\ FreqSelect = <<e>> /\ Len(arv) = 1
        /\ oplist = [k \in Index |-> IF k < 1 THEN arv[k + 1] ELSE NoEntry]
    BY <2>1 DEF ListInit
  <2>3. \A k \in Index : k < 1 => k = 0
    BY DEF Index
  <2>4. oplist = [k \in Index |-> IF k < 1 THEN e ELSE NoEntry]
    BY <2>1, <2>2, <2>3
  <2>5. 0 \in Index /\ oplist[0] = e /\ oplist \in [Index -> Entries]
    BY <1>1, <2>4 DEF Index
  <2>6. Listed = <<e>>
    BY <2>2, <2>5 DEF Listed
  <2>7. QED
    BY <1>1, <2>1, <2>2, <2>5, <2>6 DEF ListInit, ListInv, ListTypeOK, Distinct, Ascending
<1>4. QED
  BY <1>2, <1>3 DEF ListInit

\* addFreq adds what is not in the list.
LEMMA AddKeepsList == ListInv /\ addFreq => ListInv'
<1> SUFFICES ASSUME ListInv, addFreq PROVE ListInv'
  OBVIOUS
<1> USE SizeAssumption
<1> DEFINE n == numinlist + 1
           l == [oplist EXCEPT ![numinlist] = tuned]
<1>1. /\ n \in 1..LISTSIZE /\ numinlist \in Index /\ numinlist \in Nat
      /\ l \in [Index -> Entries] /\ l[numinlist] = tuned
      /\ \A k \in 0..(numinlist - 1) : k \in Index /\ l[k] = oplist[k]
  BY DEF ListInv, ListTypeOK, addFreq, Index
<1>2. \A k \in 0..(numinlist - 1) : oplist[k] # tuned
  <2>1. TAKE k \in 0..(numinlist - 1)
  <2>2. k + 1 \in 1..numinlist /\ k + 1 - 1 = k
    BY <1>1
  <2>3. Listed[k + 1] = oplist[k] /\ k + 1 \in DOMAIN Listed
    BY <2>2 DEF Listed
  <2>4. QED
    BY <2>3 DEF addFreq, Range
<1>3. numinlist' = n /\ updateSelect(l, n) /\ UNCHANGED <<tuned, arv>>
  BY DEF addFreq
<1> HIDE DEF l
<1>4. Distinct(l, n)
  <2>1. ASSUME NEW a \in 0..(n - 1), NEW b \in 0..(n - 1), a # b
        PROVE  l[a] # l[b]
    <3>1. CASE a = numinlist
      BY <1>1, <1>2, <2>1, <3>1
    <3>2. CASE b = numinlist
      BY <1>1, <1>2, <2>1, <3>2
    <3>3. CASE a # numinlist /\ b # numinlist
      <4>1. a \in 0..(numinlist - 1) /\ b \in 0..(numinlist - 1)
        BY <1>1, <3>3
      <4>2. oplist[a] # oplist[b]
        BY <2>1, <4>1 DEF ListInv, Distinct
      <4>3. QED
        BY <1>1, <4>1, <4>2
    <3>4. QED
      BY <3>1, <3>2, <3>3
  <2>2. QED
    BY <2>1 DEF Distinct
<1> HIDE DEF n
<1>5. /\ oplist' \in [Index -> Entries] /\ numinlist' \in 0..LISTSIZE
      /\ Distinct(oplist', n) /\ Ascending(oplist', n)
      /\ FreqSelect' \in Seq(Entries) /\ line' \in 0..Len(FreqSelect')
      /\ FreqSelect' = Listed'
  BY <1>1, <1>3, <1>4, UpdateShows
<1>6. QED
  BY <1>3, <1>5 DEF ListInv, ListTypeOK

\* delFreq closes the gap; of the last entry the line stays.
LEMMA DeleteKeepsList == ListInv /\ delFreq => ListInv'
<1> SUFFICES ASSUME ListInv, delFreq PROVE ListInv'
  OBVIOUS
<1> USE SizeAssumption
<1> DEFINE n == numinlist - 1
           l == [k \in Index |-> IF k = n THEN NoEntry
                                 ELSE IF line - 1 <= k /\ k < n THEN oplist[k + 1]
                                 ELSE oplist[k]]
<1>1. n \in 0..LISTSIZE /\ n < LISTSIZE /\ numinlist \in 1..LISTSIZE
  BY DEF ListInv, ListTypeOK, delFreq
<1>2. oplist \in [Index -> Entries] /\ NoEntry \in Entries
  BY DEF ListInv, ListTypeOK, Entries
<1>3. l \in [Index -> Entries]
  <2>1. \A k \in Index : k < n => k + 1 \in Index
    BY <1>1 DEF Index
  <2>2. QED
    BY <1>2, <2>1
<1>4. numinlist' = n /\ updateSelect(l, n) /\ UNCHANGED <<tuned, arv>>
  BY DEF delFreq
<1>5. FreqSelect \in Seq(Entries) /\ line \in 1..numinlist /\ line \in 0..Len(FreqSelect)
      /\ Len(FreqSelect) = numinlist
  <2>1. FreqSelect = Listed /\ FreqSelect \in Seq(Entries) /\ line \in 0..Len(FreqSelect) /\ line # 0
    BY <1>1 DEF ListInv, ListTypeOK, delFreq
  <2>2. Len(FreqSelect) = numinlist
    BY <1>1, <2>1 DEF Listed
  <2>3. QED
    BY <1>1, <2>1, <2>2
<1>6. Distinct(l, n)
  <2>1. ASSUME NEW a \in 0..(n - 1), NEW b \in 0..(n - 1), a # b
        PROVE  l[a] # l[b]
    <3> DEFINE from(k) == IF line - 1 <= k THEN k + 1 ELSE k
    <3>1. \A k \in 0..(n - 1) : k \in Index /\ l[k] = oplist[from(k)] /\ from(k) \in 0..(numinlist - 1)
      BY <1>1, <1>5 DEF Index
    <3>2. from(a) # from(b)
      BY <1>1, <1>5, <2>1
    <3> HIDE DEF from, l
    <3>3. oplist[from(a)] # oplist[from(b)]
      BY <3>1, <3>2 DEF ListInv, Distinct
    <3>4. QED
      BY <3>1, <3>3
  <2> HIDE DEF l
  <2>2. QED
    BY <2>1 DEF Distinct
<1> HIDE DEF l
<1>7. /\ oplist' \in [Index -> Entries] /\ numinlist' \in 0..LISTSIZE
      /\ Distinct(oplist', n) /\ Ascending(oplist', n)
      /\ FreqSelect' \in Seq(Entries) /\ line' \in 0..Len(FreqSelect')
      /\ n = 0 => FreqSelect' = FreqSelect
      /\ n # 0 => FreqSelect' = Listed'
  BY <1>1, <1>3, <1>4, <1>5, <1>6, UpdateShows
<1>8. FreqSelect' = Listed' \/ (numinlist' = 0 /\ Len(FreqSelect') = 1)
  <2>1. CASE n = 0
    BY <1>1, <1>4, <1>5, <1>7, <2>1
  <2>2. CASE n # 0
    BY <1>7, <2>2
  <2>3. QED
    BY <2>1, <2>2
<1>9. QED
  BY <1>4, <1>7, <1>8 DEF ListInv, ListTypeOK

\* readFile puts the entries of the file into the array.
LEMMA OpenKeepsList == ListInv /\ openFreqList => ListInv'
<1> SUFFICES ASSUME ListInv, openFreqList PROVE ListInv'
  OBVIOUS
<1> USE SizeAssumption
<1> DEFINE n == Len(arv)
           read == [k \in Index |->
                      IF k < n THEN arv[k + 1] ELSE IF numinlist # 0 THEN NoEntry ELSE oplist[k]]
<1>1. n \in 0..LISTSIZE /\ arv \in Seq(Entries) /\ NoEntry \in Entries
      /\ oplist \in [Index -> Entries] /\ FreqSelect \in Seq(Entries)
      /\ line \in 0..Len(FreqSelect)
  BY DEF ListInv, ListTypeOK, Entries
<1>2. \A k \in Index : k < n => arv[k + 1] \in Entries
  BY <1>1 DEF Index
<1>3. read \in [Index -> Entries]
  BY <1>1, <1>2
<1>4. numinlist' = n /\ UNCHANGED <<tuned, arv>>
  BY DEF openFreqList
<1>5. CASE n = 0
  <2>1. oplist' = read
    BY <1>5 DEF openFreqList
  <2>2. CASE numinlist = 0
    <3>1. UNCHANGED <<FreqSelect, line>>
      BY <1>5, <2>2 DEF openFreqList
    <3>2. FreqSelect = <<>> \/ Len(FreqSelect) = 1
      BY <2>2 DEF ListInv, Listed
    <3>3. FreqSelect' = Listed' \/ (numinlist' = 0 /\ Len(FreqSelect') = 1)
      BY <1>4, <1>5, <3>1, <3>2 DEF Listed
    <3> HIDE DEF read
    <3>4. QED
      BY <1>1, <1>3, <1>4, <1>5, <2>1, <3>1, <3>3
         DEF ListInv, ListTypeOK, Distinct, Ascending
  <2>3. CASE numinlist # 0
    <3>1. FreqSelect' = <<>> /\ line' = 0
      BY <1>5, <2>3 DEF openFreqList
    <3>2. FreqSelect' = Listed'
      BY <1>4, <1>5, <3>1 DEF Listed
    <3> HIDE DEF read
    <3>3. QED
      BY <1>1, <1>3, <1>4, <1>5, <2>1, <3>1, <3>2
         DEF ListInv, ListTypeOK, Distinct, Ascending
  <2>4. QED
    BY <2>2, <2>3
<1>6. CASE n # 0
  <2>1. updateSelect(read, n)
    BY <1>6 DEF openFreqList
  <2>2. Distinct(read, n)
    <3>1. ASSUME NEW a \in 0..(n - 1), NEW b \in 0..(n - 1), a # b
          PROVE  read[a] # read[b]
      <4>1. read[a] = arv[a + 1] /\ read[b] = arv[b + 1]
        BY <1>1 DEF Index
      <4>2. a + 1 \in 1..n /\ b + 1 \in 1..n /\ (a + 1 < b + 1 \/ b + 1 < a + 1)
        BY <1>1, <3>1
      <4>3. arv[a + 1] # arv[b + 1]
        BY <4>2 DEF ListInv
      <4>4. QED
        BY <4>1, <4>3
    <3> HIDE DEF read
    <3>2. QED
      BY <3>1 DEF Distinct
  <2> HIDE DEF read
  <2>3. /\ oplist' \in [Index -> Entries] /\ numinlist' \in 0..LISTSIZE
        /\ Distinct(oplist', n) /\ Ascending(oplist', n)
        /\ FreqSelect' \in Seq(Entries) /\ line' \in 0..Len(FreqSelect')
        /\ FreqSelect' = Listed'
    BY <1>1, <1>3, <1>4, <1>6, <2>1, <2>2, UpdateShows
  <2>4. QED
    BY <1>4, <2>3 DEF ListInv, ListTypeOK
<1>7. QED
  BY <1>5, <1>6

\* Every step of the list keeps the invariant.
LEMMA ListStepKeeps == ListInv /\ [ListNext]_listVars => ListInv'
<1> SUFFICES ASSUME ListInv, [ListNext]_listVars PROVE ListInv'
  OBVIOUS
<1> USE SizeAssumption
<1>1. CASE \E e \in Entry : TuneRadio(e)
  <2>1. tuned' \in Entries /\ UNCHANGED <<oplist, numinlist, FreqSelect, line, arv>>
    BY <1>1 DEF TuneRadio, Entries
  <2>2. QED
    BY <2>1 DEF ListInv, ListTypeOK, Listed
<1>2. CASE \E k \in 1..LISTSIZE : selectFreq(k)
  <2>1. PICK k \in 1..LISTSIZE : selectFreq(k)
    BY <1>2
  <2>2. k - 1 \in Index
    BY DEF Index
  <2>3. tuned' \in Entries /\ line' \in 0..Len(FreqSelect)
    BY <2>1, <2>2 DEF selectFreq, ListInv, ListTypeOK
  <2>4. QED
    BY <2>1, <2>3 DEF selectFreq, ListInv, ListTypeOK, Listed
<1>3. CASE addFreq
  BY <1>3, AddKeepsList
<1>4. CASE delFreq
  BY <1>4, DeleteKeepsList
<1>5. CASE clearList
  <2>1. /\ oplist' \in [Index -> Entries] /\ numinlist' = 0 /\ FreqSelect' = <<>> /\ line' = 0
        /\ UNCHANGED <<tuned, arv>>
    BY <1>5 DEF clearList, Entries
  <2>2. FreqSelect' = Listed'
    BY <2>1 DEF Listed
  <2>3. FreqSelect' \in Seq(Entries) /\ line' \in 0..Len(FreqSelect') /\ numinlist' \in 0..LISTSIZE
    BY <2>1
  <2>4. Distinct(oplist', numinlist') /\ Ascending(oplist', numinlist')
    BY <2>1 DEF Distinct, Ascending
  <2>5. tuned' \in Entries /\ arv' \in Seq(Entries)
    BY <2>1 DEF ListInv, ListTypeOK
  <2>6. QED
    BY <2>1, <2>2, <2>3, <2>4, <2>5 DEF ListInv, ListTypeOK
<1>6. CASE openFreqList
  BY <1>6, OpenKeepsList
<1>7. CASE saveFreqList
  <2>1. arv' = Listed /\ UNCHANGED <<oplist, numinlist, FreqSelect, line, tuned>>
    BY <1>7 DEF saveFreqList
  <2> DEFINE saved == [n \in 1..numinlist |-> oplist[n - 1]]
  <2>2. /\ numinlist \in 0..LISTSIZE
        /\ \A n \in 1..numinlist : n - 1 \in Index /\ oplist[n - 1] \in Entries
    <3>1. numinlist \in 0..LISTSIZE /\ oplist \in [Index -> Entries]
      BY DEF ListInv, ListTypeOK
    <3>2. \A n \in 1..numinlist : n - 1 \in Index
      BY <3>1, SizeAssumption DEF Index
    <3>3. QED
      BY <3>1, <3>2
  <2>3. saved \in Seq(Entries) /\ Len(saved) = numinlist
    BY <2>2
  <2>4. \A j, k \in 1..numinlist : j < k => saved[j].freq <= saved[k].freq /\ saved[j] # saved[k]
    <3>1. TAKE j, k \in 1..numinlist
    <3>2. HAVE j < k
    <3>3. j - 1 \in 0..(numinlist - 1) /\ k - 1 \in 0..(numinlist - 1) /\ j - 1 < k - 1
      BY <2>2, <3>2
    <3>4. oplist[j - 1].freq <= oplist[k - 1].freq /\ oplist[j - 1] # oplist[k - 1]
      BY <3>3 DEF ListInv, Ascending, Distinct
    <3>5. QED
      BY <3>4
  <2>5. arv' = saved
    BY <2>1 DEF Listed
  <2> HIDE DEF saved
  <2>6. ListTypeOK'
    BY <2>1, <2>3, <2>5 DEF ListInv, ListTypeOK
  <2>7. Distinct(oplist', numinlist') /\ Ascending(oplist', numinlist')
    BY <2>1 DEF ListInv
  <2>8. FreqSelect' = Listed' \/ (numinlist' = 0 /\ Len(FreqSelect') = 1)
    BY <2>1 DEF ListInv, Listed
  <2>9. /\ Len(arv') <= LISTSIZE
        /\ \A j, k \in 1..Len(arv') : j < k => arv'[j].freq <= arv'[k].freq /\ arv'[j] # arv'[k]
    BY <2>2, <2>3, <2>4, <2>5
  <2>10. QED
    BY <2>6, <2>7, <2>8, <2>9 DEF ListInv
<1>8. CASE UNCHANGED listVars
  BY <1>8 DEF ListInv, ListTypeOK, Listed, Distinct, Ascending, listVars
<1>9. QED
  BY <1>1, <1>2, <1>3, <1>4, <1>5, <1>6, <1>7, <1>8 DEF ListNext

\* addFreq, delFreq, clearList, readFile, saveFile: the inductive invariant of the list.
THEOREM ListInvariance == ListSpec => []ListInv
<1>1. ListInit => ListInv
  BY ListStarts
<1>2. ListInv /\ [ListNext]_listVars => ListInv'
  BY ListStepKeeps
<1>3. QED
  BY <1>1, <1>2, PTL DEF ListSpec

\* updateSelect: every line is the entry it selects, in order and none twice.
THEOREM BrowserShowsTheList == ListSpec => []LinesAreTheList
<1>1. ListInv => LinesAreTheList
  <2> SUFFICES ASSUME ListInv PROVE LinesAreTheList
    OBVIOUS
  <2>1. numinlist \in Nat
    BY SizeAssumption DEF ListInv, ListTypeOK
  <2>2. \A j, k \in 1..numinlist : j < k => Listed[j].freq <= Listed[k].freq /\ Listed[j] # Listed[k]
    <3>1. TAKE j, k \in 1..numinlist
    <3>2. HAVE j < k
    <3>3. j - 1 \in 0..(numinlist - 1) /\ k - 1 \in 0..(numinlist - 1) /\ j - 1 < k - 1
      BY <2>1, <3>2
    <3>4. oplist[j - 1].freq <= oplist[k - 1].freq /\ oplist[j - 1] # oplist[k - 1]
      BY <3>3 DEF ListInv, Ascending, Distinct
    <3>5. QED
      BY <3>4 DEF Listed
  <2>3. DOMAIN Listed = 1..numinlist
    BY DEF Listed
  <2>4. QED
    BY <2>2, <2>3 DEF ListInv, LinesAreTheList
<1>2. QED
  BY <1>1, ListInvariance, PTL

(***************************************************************************)
(* The antenna ranges, for any size of the array, any starts and any       *)
(* ranges built in: the entries in use are in order of where they start,   *)
(* no two the same, and so are those of the file (PortsInv).  cbAddAntRange*)
(* keeps this although it looks beyond the entries in use: an entry of the *)
(* same start is replaced where it is, since no entry before it matches.   *)
(***************************************************************************)

\* The first n entries are ranges, in the order of where they start.
InOrder(ports, n) ==
    /\ ports \in [Index -> Ranges \cup {Unused}]
    /\ \A a \in 0..(n - 1) : ports[a] \in Ranges
    /\ \A a, b \in 0..(n - 1) : a < b => ports[a].freq < ports[b].freq

\* And so are those of the file.
PortsInv ==
    /\ InOrder(antports, numantports)
    /\ numantports \in 0..(LISTSIZE - 1)
    /\ file \in Seq(Ranges) /\ Len(file) < LISTSIZE
    /\ \A j, k \in 1..Len(file) : j < k => file[j].freq < file[k].freq

\* A range starts at a frequency other than 0, which marks an unused entry.
LEMMA RangeFreq ==
    /\ \A r \in Ranges : r.freq \in Int \ {0}
    /\ Unused.freq = 0
    /\ \A r \in Ranges \cup {Unused} : r.freq \in Int
<1>1. \A r \in Ranges : r.freq \in Int \ {0}
  <2>1. TAKE r \in Ranges
  <2>2. r.freq \in Starts
    BY DEF Ranges
  <2>3. QED
    BY <2>2, PortsAssumption
<1>2. Unused.freq = 0
  BY DEF Unused
<1>3. QED
  BY <1>1, <1>2

\* The sort puts ranges that start at different frequencies in order.
LEMMA SortOrders ==
    ASSUME NEW l \in [Index -> Ranges \cup {Unused}], NEW n \in 0..LISTSIZE,
           \A a \in 0..(n - 1) : l[a] \in Ranges,
           \A a, b \in 0..(n - 1) : a # b => l[a].freq # l[b].freq
    PROVE  InOrder(Sort(l, n), n)
<1> DEFINE s == Sort(l, n)
<1>1. Sortable(l, Ranges \cup {Unused})
  BY RangeFreq DEF Sortable
<1>2. LISTSIZE \in Nat
  BY SizeAssumption
<1>3. Sortable(s, Ranges \cup {Unused}) /\ Permutes(s, l, n)
      /\ \A a, b \in 0..(n - 1) : a < b => s[a].freq <= s[b].freq
  BY <1>1, <1>2, SortDoes
<1> HIDE DEF s
<1>4. PICK p \in [0..(n - 1) -> 0..(n - 1)] :
         /\ \A a, b \in 0..(n - 1) : a # b => p[a] # p[b]
         /\ \A k \in 0..(n - 1) : s[k] = l[p[k]]
  BY <1>3 DEF Permutes
<1>5. ASSUME NEW a \in 0..(n - 1) PROVE s[a] \in Ranges
  <2>1. p[a] \in 0..(n - 1) /\ s[a] = l[p[a]]
    BY <1>4
  <2>2. QED
    BY <2>1
<1>6. ASSUME NEW a \in 0..(n - 1), NEW b \in 0..(n - 1), a < b
      PROVE  s[a].freq < s[b].freq
  <2>1. p[a] \in 0..(n - 1) /\ p[b] \in 0..(n - 1) /\ p[a] # p[b]
    BY <1>4, <1>6
  <2>2. s[a].freq # s[b].freq
    <3>1. l[p[a]].freq # l[p[b]].freq
      BY <2>1
    <3>2. s[a] = l[p[a]] /\ s[b] = l[p[b]]
      BY <1>4
    <3>3. QED
      BY <3>1, <3>2
  <2>3. s[a].freq \in Int /\ s[b].freq \in Int /\ s[a].freq <= s[b].freq
    BY <1>3, <1>5, <1>6, RangeFreq
  <2>4. QED
    BY <2>2, <2>3
<1>7. QED
  BY <1>3, <1>5, <1>6 DEF InOrder, Sortable, s

\* loadLastState leaves ranges in order, those of the file or those built in.
LEMMA LoadKeeps ==
    ASSUME NEW list \in Seq(Ranges), Len(list) < LISTSIZE,
           \A j, k \in 1..Len(list) : j < k => list[j].freq < list[k].freq,
           Load(list)
    PROVE  PortsInv'
<1> USE SizeAssumption
<1> DEFINE ports == [k \in Index |-> IF k < Len(list) THEN list[k + 1]
                                     ELSE IF k < Len(BuiltIn) THEN BuiltIn[k + 1] ELSE Unused]
           n == IF list = <<>> THEN Len(BuiltIn) ELSE Len(list)
<1>1. file' = list /\ numantports' = n /\ antports' = ports
  BY DEF Load
<1>2. /\ Len(list) \in Nat /\ Len(BuiltIn) \in Nat /\ BuiltIn \in Seq(Ranges)
      /\ Len(BuiltIn) < LISTSIZE
      /\ \A j, k \in 1..Len(BuiltIn) : j < k => BuiltIn[j].freq < BuiltIn[k].freq
  BY PortsAssumption
<1>3. ports \in [Index -> Ranges \cup {Unused}]
  <2>1. \A k \in Index : k < Len(list) => list[k + 1] \in Ranges
    BY <1>2 DEF Index
  <2>2. \A k \in Index : k < Len(BuiltIn) => BuiltIn[k + 1] \in Ranges
    BY <1>2 DEF Index
  <2>3. QED
    BY <2>1, <2>2
<1>4. n \in 0..(LISTSIZE - 1)
  BY <1>2
<1> DEFINE from == IF list = <<>> THEN BuiltIn ELSE list
<1>5. from \in Seq(Ranges) /\ Len(from) = n
      /\ \A j, k \in 1..n : j < k => from[j].freq < from[k].freq
  BY <1>2
<1>6. \A a \in 0..(n - 1) : ports[a] = from[a + 1]
  BY <1>2, <1>4 DEF Index
<1> HIDE DEF ports, n, from
<1>7. \A a \in 0..(n - 1) : a + 1 \in 1..n /\ from[a + 1] \in Ranges
  BY <1>4, <1>5
<1>8. \A a, b \in 0..(n - 1) : a < b => ports[a].freq < ports[b].freq
  <2>1. TAKE a, b \in 0..(n - 1)
  <2>2. HAVE a < b
  <2>3. a + 1 < b + 1
    BY <2>2, <1>4
  <2>4. QED
    BY <1>5, <1>6, <1>7, <2>3
<1>9. InOrder(ports, n)
  BY <1>3, <1>6, <1>7, <1>8 DEF InOrder
<1>10. QED
  BY <1>1, <1>4, <1>9 DEF PortsInv

\* The ranges built in come in order.
LEMMA PortsStart == PortsInit => PortsInv
<1> SUFFICES ASSUME PortsInit PROVE PortsInv
  OBVIOUS
<1> USE SizeAssumption
<1> DEFINE n == Len(BuiltIn)
           ports == [k \in Index |-> IF k < n THEN BuiltIn[k + 1] ELSE Unused]
<1>1. file = <<>> /\ numantports = n /\ antports = ports
  BY DEF PortsInit
<1>2. /\ n \in Nat /\ BuiltIn \in Seq(Ranges) /\ n < LISTSIZE
      /\ \A j, k \in 1..n : j < k => BuiltIn[j].freq < BuiltIn[k].freq
  BY PortsAssumption
<1>3. \A k \in Index : k < n => BuiltIn[k + 1] \in Ranges
  BY <1>2 DEF Index
<1>4. ports \in [Index -> Ranges \cup {Unused}]
  BY <1>3
<1>5. \A a \in 0..(n - 1) : a \in Index /\ a < n /\ ports[a] = BuiltIn[a + 1] /\ a + 1 \in 1..n
  BY <1>2 DEF Index
<1> HIDE DEF ports, n
<1>6. \A a, b \in 0..(n - 1) : a < b => ports[a].freq < ports[b].freq
  <2>1. TAKE a, b \in 0..(n - 1)
  <2>2. HAVE a < b
  <2>3. a + 1 < b + 1
    BY <2>2, <1>2
  <2>4. QED
    BY <1>2, <1>5, <2>3
<1>7. InOrder(ports, n)
  BY <1>3, <1>4, <1>5, <1>6 DEF InOrder
<1>8. n \in 0..(LISTSIZE - 1)
  BY <1>2
<1>9. QED
  BY <1>1, <1>7, <1>8 DEF PortsInv

\* The place cbAddAntRange finds is the first one without a range or with the one to replace.
LEMMA SlotFound ==
    ASSUME NEW f, ~NoSlot(f)
    PROVE  /\ Slot(f) \in Index /\ antports[Slot(f)].freq \in {0, f}
           /\ \A m \in Index : m < Slot(f) => antports[m].freq \notin {0, f}
<1> DEFINE S == {n \in Index : antports[n].freq \in {0, f}}
<1>1. S # {}
  BY DEF NoSlot
<1>2. S \subseteq Nat
  BY DEF Index
<1>3. PICK n \in S : \A m \in S : n <= m
  BY <1>1, <1>2, LeastNumber
<1>4. Slot(f) = CHOOSE x \in S : \A y \in S : x <= y
  BY DEF Slot, Min
<1>5. Slot(f) \in S /\ \A m \in S : Slot(f) <= m
  BY <1>3, <1>4
<1>6. \A m \in Index : m \in S \/ antports[m].freq \notin {0, f}
  OBVIOUS
<1> HIDE DEF S
<1>7. \A m \in S : m \in Nat
  BY <1>2
<1>8. ASSUME NEW m \in Index, m < Slot(f) PROVE antports[m].freq \notin {0, f}
  <2>1. m \notin S
    BY <1>5, <1>7, <1>8
  <2>2. QED
    BY <1>6, <2>1
<1>9. QED
  BY <1>5, <1>8 DEF S

\* cbAddAntRange replaces a range, adds one behind the others, or writes beyond them.
LEMMA AddRangeKeeps ==
    ASSUME PortsInv, NEW r \in Ranges, cbAddAntRange(r)
    PROVE  PortsInv'
<1> USE SizeAssumption
<1> DEFINE s == Slot(r.freq)
           l == [antports EXCEPT ![s] = r]
           n == IF s = numantports /\ numantports + 1 < LISTSIZE
                THEN numantports + 1 ELSE numantports
<1>1. numantports' = n /\ antports' = Sort(l, n) /\ UNCHANGED file /\ ~NoSlot(r.freq)
  BY DEF cbAddAntRange
<1>2. s \in Index /\ antports[s].freq \in {0, r.freq}
      /\ \A m \in Index : m < s => antports[m].freq \notin {0, r.freq}
  BY <1>1, SlotFound
<1>3. InOrder(antports, numantports) /\ numantports \in 0..(LISTSIZE - 1)
  BY DEF PortsInv
<1>4. r.freq \in Int \ {0} /\ \A e \in Ranges : e.freq \in Int \ {0}
  BY RangeFreq
<1> HIDE DEF s
<1>5. /\ l \in [Index -> Ranges \cup {Unused}] /\ l[s] = r
      /\ \A k \in Index : k # s => l[k] = antports[k]
  BY <1>2, <1>3 DEF InOrder
<1> HIDE DEF l
<1>6. n \in 0..(LISTSIZE - 1) /\ n \in 0..LISTSIZE
      /\ \A a \in 0..(n - 1) : a \in Index /\ (a # s => a \in 0..(numantports - 1))
  BY <1>3 DEF Index
<1>7. \A a \in 0..(n - 1) : l[a] \in Ranges
  <2>1. TAKE a \in 0..(n - 1)
  <2>2. CASE a = s
    BY <1>5, <2>2
  <2>3. CASE a # s
    BY <1>3, <1>5, <1>6, <2>3 DEF InOrder
  <2>4. QED
    BY <2>2, <2>3
<1>8. ASSUME NEW a \in 0..(n - 1), a # s
      PROVE  l[a].freq # r.freq
  <2>1. a \in Index /\ a \in 0..(numantports - 1) /\ l[a] = antports[a]
    BY <1>5, <1>6, <1>8
  <2>2. CASE a < s
    BY <1>2, <2>1, <2>2
  <2>3. CASE ~(a < s)
    <3>1. s < a /\ s \in 0..(numantports - 1)
      BY <1>2, <1>3, <1>8, <2>1, <2>3 DEF Index
    <3>2. antports[s] \in Ranges /\ antports[s].freq < antports[a].freq /\ antports[a] \in Ranges
      BY <1>3, <2>1, <3>1 DEF InOrder
    <3>3. antports[s].freq = r.freq
      BY <1>2, <1>4, <3>2
    <3>4. antports[a].freq \in Int
      BY <1>4, <3>2
    <3>5. QED
      BY <1>4, <2>1, <3>2, <3>3, <3>4
  <2>4. QED
    BY <2>2, <2>3
<1>9. \A a, b \in 0..(n - 1) : a # b => l[a].freq # l[b].freq
  <2>1. TAKE a, b \in 0..(n - 1)
  <2>2. HAVE a # b
  <2>3. CASE a = s
    BY <1>5, <1>8, <2>2, <2>3
  <2>4. CASE b = s
    BY <1>5, <1>8, <2>2, <2>4
  <2>5. CASE a # s /\ b # s
    <3>1. /\ l[a] = antports[a] /\ l[b] = antports[b] /\ (a < b \/ b < a)
          /\ a \in 0..(numantports - 1) /\ b \in 0..(numantports - 1)
      BY <1>5, <1>6, <2>2, <2>5
    <3>2. antports[a].freq < antports[b].freq \/ antports[b].freq < antports[a].freq
      BY <1>3, <3>1 DEF InOrder
    <3>3. antports[a].freq \in Int /\ antports[b].freq \in Int
      BY <1>3, <1>4, <3>1 DEF InOrder
    <3>4. QED
      BY <3>1, <3>2, <3>3
  <2>6. QED
    BY <2>3, <2>4, <2>5
<1>10. InOrder(Sort(l, n), n)
  BY <1>5, <1>6, <1>7, <1>9, SortOrders
<1> HIDE DEF n
<1> DEFINE t == Sort(l, n)
<1> HIDE DEF t
<1>11. antports' = t /\ InOrder(t, n)
  BY <1>1, <1>10 DEF t
<1>12. InOrder(antports', numantports')
  BY <1>1, <1>11
<1>13. QED
  BY <1>1, <1>6, <1>12 DEF PortsInv

\* cbDeleteAntRange closes the gap.
LEMMA DeleteRangeKeeps ==
    ASSUME PortsInv, NEW picked, cbDeleteAntRange(picked)
    PROVE  PortsInv'
<1> USE SizeAssumption
<1> DEFINE n == numantports - 1
           l == [k \in Index |-> IF k = n THEN Unused
                                 ELSE IF picked - 1 <= k /\ k < n THEN antports[k + 1]
                                 ELSE antports[k]]
           from(k) == IF picked - 1 <= k THEN k + 1 ELSE k
<1>1. numantports' = n /\ antports' = l /\ UNCHANGED file /\ picked \in 1..numantports
  BY DEF cbDeleteAntRange
<1>2. InOrder(antports, numantports) /\ numantports \in 0..(LISTSIZE - 1)
  BY DEF PortsInv
<1>3. n \in 0..(LISTSIZE - 1) /\ numantports \in 1..(LISTSIZE - 1) /\ picked \in Nat
  BY <1>1, <1>2
<1>4. l \in [Index -> Ranges \cup {Unused}]
  <2>1. \A k \in Index : k < n => k + 1 \in Index
    BY <1>3 DEF Index
  <2>2. QED
    BY <1>2, <2>1 DEF InOrder
<1>5. \A k \in 0..(n - 1) : l[k] = antports[from(k)] /\ from(k) \in 0..(numantports - 1)
  BY <1>3 DEF Index
<1>6. \A a, b \in 0..(n - 1) : a < b => from(a) < from(b)
  BY <1>3
<1> HIDE DEF l, from
<1>7. InOrder(l, n)
  BY <1>2, <1>4, <1>5, <1>6 DEF InOrder
<1> HIDE DEF n
<1>8. InOrder(antports', numantports')
  BY <1>1, <1>7
<1>9. QED
  BY <1>1, <1>3, <1>8 DEF PortsInv

\* Every step of the ranges keeps the invariant.
LEMMA PortsStepKeeps == PortsInv /\ [PortsNext]_portsVars => PortsInv'
<1> SUFFICES ASSUME PortsInv, [PortsNext]_portsVars PROVE PortsInv'
  OBVIOUS
<1>1. CASE \E r \in Ranges : cbAddAntRange(r)
  BY <1>1, AddRangeKeeps
<1>2. CASE \E k \in 1..LISTSIZE : cbDeleteAntRange(k)
  BY <1>2, DeleteRangeKeeps
<1>3. CASE ExitAndStart
  <2> DEFINE table == [n \in 1..numantports |-> antports[n - 1]]
  <2>1. InOrder(antports, numantports) /\ numantports \in 0..(LISTSIZE - 1)
    BY DEF PortsInv
  <2>2. \A n \in 1..numantports : n - 1 \in 0..(numantports - 1)
    BY <2>1, SizeAssumption
  <2>3. \A n \in 1..numantports : antports[n - 1] \in Ranges
    BY <2>1, <2>2 DEF InOrder
  <2>4. table \in Seq(Ranges) /\ Len(table) = numantports /\ numantports < LISTSIZE
    BY <2>1, <2>3, SizeAssumption
  <2>5. \A j, k \in 1..numantports : j < k => table[j].freq < table[k].freq
    <3>1. TAKE j, k \in 1..numantports
    <3>2. HAVE j < k
    <3>3. j - 1 < k - 1
      BY <2>1, <3>2, SizeAssumption
    <3>4. QED
      BY <2>1, <2>2, <3>3 DEF InOrder
  <2>6. Load(table)
    BY <1>3 DEF ExitAndStart, Table
  <2> HIDE DEF table
  <2>7. QED
    BY <2>4, <2>5, <2>6, LoadKeeps
<1>4. CASE CrashAndStart
  BY <1>4, LoadKeeps DEF CrashAndStart, PortsInv
<1>5. CASE UNCHANGED portsVars
  BY <1>5 DEF PortsInv, portsVars
<1>6. QED
  BY <1>1, <1>2, <1>3, <1>4, <1>5 DEF PortsNext

\* cbAddAntRange, cbDeleteAntRange, loadLastState: the inductive invariant of the ranges.
THEOREM PortsInvariance == PortsSpec => []PortsInv
<1>1. PortsInit => PortsInv
  BY PortsStart
<1>2. PortsInv /\ [PortsNext]_portsVars => PortsInv'
  BY PortsStepKeeps
<1>3. QED
  BY <1>1, <1>2, PTL DEF PortsSpec

\* antPort looks up the last range that starts at or below f.
LEMMA LastBelow ==
    ASSUME NEW n \in Nat, NEW below, below \subseteq 0..(n - 1), below # {}
    PROVE  Max(below) \in below /\ \A k \in below : k <= Max(below)
<1> DEFINE S == {n - 1 - k : k \in below}
<1>1. \A k \in below : k \in Nat /\ n - 1 - k \in Nat
  OBVIOUS
<1>2. S \subseteq Nat /\ S # {}
  BY <1>1
<1>3. PICK d \in S : \A e \in S : d <= e
  BY <1>2, LeastNumber
<1>4. PICK m \in below : d = n - 1 - m
  OBVIOUS
<1>5. \A k \in below : k <= m
  <2>1. TAKE k \in below
  <2>2. d <= n - 1 - k
    BY <1>3
  <2>3. QED
    BY <1>1, <1>4, <2>2
<1>6. \A k \in below : m >= k
  BY <1>1, <1>5
<1>7. Max(below) \in below /\ \A k \in below : Max(below) >= k
  BY <1>6 DEF Max
<1>8. QED
  BY <1>1, <1>7

\* In a table in order the last range that starts at or below f has the nearest start.
LEMMA NearestStart == PortsInv => PortOfNearestStart
<1> SUFFICES ASSUME PortsInv,
                    NEW f \in Starts,
                    \E e \in ToSet(Table) : e.freq <= f
             PROVE  /\ \A r, s \in ToSet(Table) : r.freq = s.freq => r = s
                    /\ \A r \in ToSet(Table) :
                          (r.freq <= f /\ \A s \in ToSet(Table) : s.freq <= f => s.freq <= r.freq)
                          => antPort(f) = CASE r.ports = <<0, 0>> -> "A"
                                            [] r.ports = <<1, 0>> -> "A/B"
                                            [] r.ports = <<0, 1>> -> "B/A"
                                            [] r.ports = <<1, 1>> -> "B"
  BY Zenon DEF PortOfNearestStart
<1> USE SizeAssumption
<1>1. numantports \in Nat /\ InOrder(antports, numantports) /\ f \in Int
  BY PortsAssumption DEF PortsInv
<1>2. \A k \in Used : antports[k] \in Ranges /\ antports[k].freq \in Int
  BY <1>1, RangeFreq DEF InOrder, Used
<1>3. \A k, m \in Used : k < m => antports[k].freq < antports[m].freq
  BY <1>1 DEF InOrder, Used
<1>4. \A r : r \in ToSet(Table) <=> \E k \in Used : r = antports[k]
  <2>1. DOMAIN Table = 1..numantports /\ \A j \in 1..numantports : Table[j] = antports[j - 1]
    BY DEF Table
  <2>2. \A r : r \in ToSet(Table) <=> \E j \in 1..numantports : r = antports[j - 1]
    BY <2>1 DEF ToSet
  <2>3. ASSUME NEW r, NEW j \in 1..numantports, r = antports[j - 1]
        PROVE  \E k \in Used : r = antports[k]
    <3>1. j - 1 \in Used
      BY <1>1 DEF Used
    <3>2. QED
      BY <2>3, <3>1
  <2>4. ASSUME NEW r, NEW k \in Used, r = antports[k]
        PROVE  \E j \in 1..numantports : r = antports[j - 1]
    <3>1. PICK j \in 1..numantports : j - 1 = k
      <4>1. k + 1 \in 1..numantports /\ (k + 1) - 1 = k
        BY <1>1 DEF Used
      <4>2. QED
        BY <4>1
    <3>2. QED
      BY <2>4, <3>1
  <2>5. QED
    BY <2>2, <2>3, <2>4
<1>5. ASSUME NEW r \in ToSet(Table), NEW s \in ToSet(Table), r.freq = s.freq
      PROVE  r = s
  <2>1. PICK k \in Used : r = antports[k]
    BY <1>4
  <2>2. PICK m \in Used : s = antports[m]
    BY <1>4
  <2>3. k \in Int /\ m \in Int
    BY DEF Used
  <2>4. ~(k < m) /\ ~(m < k)
    BY <1>2, <1>3, <1>5, <2>1, <2>2
  <2>5. QED
    BY <2>1, <2>2, <2>3, <2>4
<1>6. ASSUME NEW r \in ToSet(Table), r.freq <= f,
             \A s \in ToSet(Table) : s.freq <= f => s.freq <= r.freq
      PROVE  antPort(f) = CASE r.ports = <<0, 0>> -> "A"   [] r.ports = <<1, 0>> -> "A/B"
                            [] r.ports = <<0, 1>> -> "B/A" [] r.ports = <<1, 1>> -> "B"
  <2> DEFINE below == {n \in Used : f >= antports[n].freq}
             m == Max(below)
  <2>1. PICK k \in Used : r = antports[k]
    BY <1>4
  <2>2. k \in below
    BY <1>1, <1>2, <1>6, <2>1
  <2>3. below \subseteq 0..(numantports - 1)
    BY DEF Used
  <2>4. m \in below /\ k <= m
    BY <1>1, <2>2, <2>3, LastBelow
  <2>5. m \in Used /\ f >= antports[m].freq /\ antports[m] \in ToSet(Table)
    BY <1>4, <2>4
  <2> HIDE DEF m
  <2>6. antports[m].freq <= r.freq
    BY <1>1, <1>2, <1>6, <2>5
  <2>7. ~(k < m)
    BY <1>2, <1>3, <2>1, <2>5, <2>6
  <2>8. k = m
    BY <2>4, <2>5, <2>7 DEF Used
  <2>9. antPort(f) = aports[r.ports[1] + 2 * r.ports[2] + 1]
    BY <2>1, <2>2, <2>8 DEF antPort, m
  <2>10. r.ports \in {<<0, 0>>, <<1, 0>>, <<0, 1>>, <<1, 1>>}
    <3>1. r.ports \in Ports
      BY <1>2, <2>1 DEF Ranges
    <3>2. r.ports \in {0, 1} \X {0, 1}
      BY <3>1, PortsAssumption
    <3>3. QED
      BY <3>2
  <2> DEFINE p == r.ports
  <2>11. p \in {<<0, 0>>, <<1, 0>>, <<0, 1>>, <<1, 1>>}
         /\ antPort(f) = aports[p[1] + 2 * p[2] + 1]
    BY <2>9, <2>10
  <2> HIDE DEF p
  <2>12. antPort(f) = CASE p = <<0, 0>> -> "A"   [] p = <<1, 0>> -> "A/B"
                        [] p = <<0, 1>> -> "B/A" [] p = <<1, 1>> -> "B"
    <3>1. aports[1] = "A" /\ aports[2] = "A/B" /\ aports[3] = "B/A" /\ aports[4] = "B"
      BY DEF aports
    <3>2. CASE p = <<0, 0>>
      BY <2>11, <3>1, <3>2
    <3>3. CASE p = <<1, 0>>
      BY <2>11, <3>1, <3>3
    <3>4. CASE p = <<0, 1>>
      BY <2>11, <3>1, <3>4
    <3>5. CASE p = <<1, 1>>
      BY <2>11, <3>1, <3>5
    <3>6. QED
      BY <2>11, <3>2, <3>3, <3>4, <3>5
  <2>13. QED
    BY <2>12 DEF p
<1>7. QED
  BY <1>5, <1>6

\* antPort: the port for a frequency is that of the nearest start below it.
THEOREM PortIsOfNearestStart == PortsSpec => []PortOfNearestStart
BY PortsInvariance, NearestStart, PTL

-----------------------------------------------------------------------------
(***************************************************************************)
(* The controls of the receiver: after every callback but those named in   *)
(* KeepsSettings, mode and settings of the radio are those shown, for all  *)
(* modes and positions of the widgets.  The commands of a callback reach   *)
(* the radio one after the other; what they leave is worked out from what  *)
(* each part of them does to the settings it finds.                        *)
(***************************************************************************)

(* What a sequence of commands does to the radio.                          *)

\* The settings after the commands, when they were r before: the function of Send.
Gets(r, cs) ==
    LET after[n \in 0..Len(cs)] == IF n = 0 THEN r ELSE Does(after[n - 1], cs[n])
    IN  after[Len(cs)]

\* f is the settings after each of the first m commands.
Sent(f, r, cs, m) ==
    f = [n \in 0..m |-> IF n = 0 THEN r ELSE Does(f[n - 1], cs[n])]

OneByOne(f, r, cs, m) == f[0] = r /\ \A n \in 1..m : f[n] = Does(f[n - 1], cs[n])

\* There is such a function for every number of commands: a least one without could be had by
\* one more command.
LEMMA PartsExist ==
    ASSUME NEW r, NEW cs, NEW k \in Nat
    PROVE  \E f : Sent(f, r, cs, k)
<1> DEFINE S == {m \in Nat : ~\E f : Sent(f, r, cs, m)}
<1>1. ASSUME S # {} PROVE FALSE
  <2>1. PICK m \in S : \A j \in S : m <= j
    BY <1>1, LeastNumber
  <2>2. m \in Nat /\ ~\E f : Sent(f, r, cs, m)
    BY <2>1
  <2>3. CASE m = 0
    <3>1. Sent([n \in 0..0 |-> r], r, cs, 0)
      BY DEF Sent
    <3>2. QED
      BY <2>2, <2>3, <3>1
  <2>4. CASE m # 0
    <3>1. m - 1 \in Nat /\ m - 1 \notin S
      BY <2>1, <2>2, <2>4
    <3>2. PICK f : Sent(f, r, cs, m - 1)
      BY <3>1
    <3> DEFINE g == [n \in 0..m |-> IF n = m THEN Does(f[m - 1], cs[m]) ELSE f[n]]
    <3>3. \A n \in 0..(m - 1) : g[n] = f[n]
      BY <2>2
    <3>4. \A n \in 0..(m - 1) : f[n] = IF n = 0 THEN r ELSE Does(f[n - 1], cs[n])
      BY <3>2 DEF Sent
    <3>5. ASSUME NEW n \in 0..m
          PROVE  g[n] = IF n = 0 THEN r ELSE Does(g[n - 1], cs[n])
      <4>1. CASE n = m
        <5>1. g[n] = Does(f[m - 1], cs[m]) /\ g[m - 1] = f[m - 1]
          BY <2>2, <2>4, <4>1, <3>3
        <5>2. QED
          BY <2>4, <4>1, <5>1
      <4>2. CASE n # m
        <5>1. n \in 0..(m - 1) /\ (n # 0 => n - 1 \in 0..(m - 1))
          BY <2>2, <4>2
        <5>2. QED
          BY <3>3, <3>4, <5>1
      <4>3. QED
        BY <4>1, <4>2
    <3>6. g = [n \in 0..m |-> g[n]]
      OBVIOUS
    <3> HIDE DEF g
    <3>7. Sent(g, r, cs, m)
      BY <3>5, <3>6 DEF Sent
    <3>8. QED
      BY <2>2, <3>7
  <2>5. QED
    BY <2>3, <2>4
<1>2. QED
  BY <1>1

\* And there is only one.
LEMMA PartsAreUnique ==
    ASSUME NEW r, NEW cs, NEW k \in Nat, NEW f, NEW g,
           OneByOne(f, r, cs, k), OneByOne(g, r, cs, k)
    PROVE  \A n \in 0..k : f[n] = g[n]
<1> DEFINE S == {n \in 0..k : f[n] # g[n]}
<1>1. ASSUME S # {} PROVE FALSE
  <2>1. S \subseteq Nat
    OBVIOUS
  <2>2. PICK m \in S : \A j \in S : m <= j
    BY <1>1, <2>1, LeastNumber
  <2>3. m \in 0..k /\ f[m] # g[m] /\ m # 0
    BY <2>2 DEF OneByOne
  <2>4. m - 1 \in 0..k /\ m - 1 \notin S /\ m \in 1..k
    BY <2>2, <2>3
  <2>5. f[m - 1] = g[m - 1]
    BY <2>4
  <2>6. QED
    BY <2>3, <2>4, <2>5 DEF OneByOne
<1>2. QED
  BY <1>1

\* What the commands do is known from any function that does one after the other.
LEMMA GetsIs ==
    ASSUME NEW r, NEW cs, Len(cs) \in Nat, NEW f, OneByOne(f, r, cs, Len(cs))
    PROVE  Gets(r, cs) = f[Len(cs)]
<1> DEFINE after == CHOOSE g : Sent(g, r, cs, Len(cs))
<1>1. Gets(r, cs) = after[Len(cs)]
  BY DEF Gets, Sent
<1>2. Sent(after, r, cs, Len(cs))
  BY PartsExist
<1> HIDE DEF after
<1>3. OneByOne(after, r, cs, Len(cs))
  BY <1>2 DEF Sent, OneByOne
<1>4. \A n \in 0..Len(cs) : f[n] = after[n]
  BY <1>3, PartsAreUnique
<1>5. QED
  BY <1>1, <1>4

\* There is one.
LEMMA GetsOneByOne ==
    ASSUME NEW r, NEW cs, Len(cs) \in Nat
    PROVE  \E f : OneByOne(f, r, cs, Len(cs)) /\ Gets(r, cs) = f[Len(cs)]
<1>1. PICK f : Sent(f, r, cs, Len(cs))
  BY PartsExist
<1>2. OneByOne(f, r, cs, Len(cs))
  BY <1>1 DEF Sent, OneByOne
<1>3. QED
  BY <1>2, GetsIs

\* No command and a single one.
LEMMA GetsOne ==
    ASSUME NEW r, NEW c
    PROVE  Gets(r, <<>>) = r /\ Gets(r, <<c>>) = Does(r, c)
<1>1. Len(<<>>) = 0 /\ Len(<<c>>) = 1 /\ <<c>>[1] = c
  OBVIOUS
<1>2. PICK f : OneByOne(f, r, <<>>, Len(<<>>)) /\ Gets(r, <<>>) = f[Len(<<>>)]
  BY <1>1, GetsOneByOne
<1>3. PICK g : OneByOne(g, r, <<c>>, Len(<<c>>)) /\ Gets(r, <<c>>) = g[Len(<<c>>)]
  BY <1>1, GetsOneByOne
<1>4. f[0] = r
  BY <1>2 DEF OneByOne
<1>5. g[1] = Does(g[0], c) /\ g[0] = r
  BY <1>1, <1>3 DEF OneByOne
<1>6. QED
  BY <1>1, <1>2, <1>3, <1>4, <1>5

\* Commands that follow others find the set as those have left it.
LEMMA GetsConcat ==
    ASSUME NEW r, NEW S, NEW a \in Seq(S), NEW b \in Seq(S)
    PROVE  Gets(r, a \o b) = Gets(Gets(r, a), b)
<1>1. /\ Len(a) \in Nat /\ Len(b) \in Nat /\ Len(a \o b) = Len(a) + Len(b)
      /\ \A i \in 1..Len(a) : (a \o b)[i] = a[i]
      /\ \A i \in 1..Len(b) : (a \o b)[Len(a) + i] = b[i]
  OBVIOUS
<1>2. PICK f : OneByOne(f, r, a \o b, Len(a \o b)) /\ Gets(r, a \o b) = f[Len(a \o b)]
  <2>1. Len(a \o b) \in Nat
    BY <1>1
  <2>2. QED
    BY <2>1, GetsOneByOne
<1>3. f[0] = r /\ \A n \in 1..(Len(a) + Len(b)) : f[n] = Does(f[n - 1], (a \o b)[n])
  BY <1>1, <1>2 DEF OneByOne
<1>4. Gets(r, a) = f[Len(a)]
  <2>1. \A n \in 1..Len(a) : f[n] = Does(f[n - 1], a[n])
    <3>1. TAKE n \in 1..Len(a)
    <3>2. n \in 1..(Len(a) + Len(b))
      BY <1>1
    <3>3. f[n] = Does(f[n - 1], (a \o b)[n])
      BY <1>3, <3>2
    <3>4. QED
      BY <1>1, <3>3
  <2>2. OneByOne(f, r, a, Len(a))
    BY <1>3, <2>1 DEF OneByOne
  <2>3. QED
    BY <1>1, <2>2, GetsIs
<1>5. Gets(f[Len(a)], b) = f[Len(a) + Len(b)]
  <2> DEFINE g == [n \in 0..Len(b) |-> f[Len(a) + n]]
  <2>1. g[0] = f[Len(a)] /\ g[Len(b)] = f[Len(a) + Len(b)]
    BY <1>1
  <2>2. ASSUME NEW n \in 1..Len(b) PROVE g[n] = Does(g[n - 1], b[n])
    <3>1. g[n] = f[Len(a) + n] /\ g[n - 1] = f[Len(a) + n - 1]
      BY <1>1
    <3>2. f[Len(a) + n] = Does(f[Len(a) + n - 1], (a \o b)[Len(a) + n])
      BY <1>1, <1>3
    <3>3. QED
      BY <1>1, <3>1, <3>2
  <2> HIDE DEF g
  <2>3. OneByOne(g, f[Len(a)], b, Len(b))
    BY <2>1, <2>2 DEF OneByOne
  <2>4. QED
    BY <1>1, <2>1, <2>3, GetsIs
<1>6. QED
  BY <1>1, <1>2, <1>4, <1>5

\* The callbacks do to the radio what their commands do.
LEMMA SendGives ==
    ASSUME NEW cs, Send(cs)
    PROVE  set' = Gets(set, cs)
  BY DEF Send, Gets

-----------------------------------------------------------------------------
(* Single commands.                                                        *)

Panels == [mode : RxModes, NR : BOOLEAN, level : Levels, Notch : BOOLEAN, depth : Depths,
           width : NotchWidths \cup {Nothing}, notch : Offsets, IFsh : BOOLEAN,
           shift : Offsets, speed : Speeds, ATT : BOOLEAN, PRE : BOOLEAN]

Radios == [mode : RxModes, NR : BOOLEAN, level : 0..255, width : NotchWidths \cup {Automatic},
           notch : Offsets, shift : Offsets, agc : 0..255, ATT : BOOLEAN, PRE : BOOLEAN,
           keyed : BOOLEAN, carrier : BOOLEAN]

\* A command sets its field when it is taken.
LEMMA DoesIt ==
    ASSUME NEW r, NEW x, NEW v
    PROVE  Does(r, Command(x, v)) =
             IF /\ Hears(r) \/ x \in {"mode", "ATT", "PRE"}
                /\ (x = "mode" => ~Transmits(r)) /\ (x = "width" => v # Nothing)
             THEN [r EXCEPT ![x] = v] ELSE r
<1> DEFINE c == Command(x, v)
<1>1. c.field = x /\ c.val = v
  BY DEF Command
<1> HIDE DEF c
<1>2. Takes(r, c) <=> /\ Hears(r) \/ x \in {"mode", "ATT", "PRE"}
                      /\ (x = "mode" => ~Transmits(r)) /\ (x = "width" => v # Nothing)
  BY <1>1 DEF Takes
<1>3. Does(r, c) = IF Takes(r, c) THEN [r EXCEPT ![x] = v] ELSE r
  BY <1>1 DEF Does
<1>4. QED
  BY <1>2, <1>3 DEF c

\* The mode after mode m was sent to r.
ModeAfter(r, m) == IF Transmits(r) THEN r.mode ELSE m

\* The three that every mode takes: the mode, except on the air.
LEMMA DoesMode ==
    ASSUME NEW r \in Radios, NEW m \in RxModes
    PROVE  /\ Does(r, Command("mode", m)) = [r EXCEPT !.mode = ModeAfter(r, m)]
           /\ [r EXCEPT !.mode = ModeAfter(r, m)] \in Radios
           /\ ModeAfter(r, m) \in RxModes
<1>1. CASE Transmits(r)
  <2>1. Does(r, Command("mode", m)) = r
    BY <1>1, DoesIt
  <2>2. [r EXCEPT !.mode = r.mode] = r /\ r.mode \in RxModes
    BY DEF Radios
  <2>3. ModeAfter(r, m) = r.mode
    BY <1>1 DEF ModeAfter
  <2>4. QED
    BY <2>1, <2>2, <2>3
<1>2. CASE ~Transmits(r)
  <2>1. Does(r, Command("mode", m)) = [r EXCEPT !.mode = m]
    BY <1>2, DoesIt
  <2>2. [r EXCEPT !.mode = m] \in Radios
    BY DEF Radios
  <2>3. ModeAfter(r, m) = m
    BY <1>2 DEF ModeAfter
  <2>4. QED
    BY <2>1, <2>2, <2>3
<1>3. QED
  BY <1>1, <1>2

\* Attenuator and preamplifier aside.
SameElse(q, r) ==
    /\ q.mode = r.mode /\ q.NR = r.NR /\ q.level = r.level /\ q.agc = r.agc
    /\ q.width = r.width /\ q.notch = r.notch /\ q.shift = r.shift

\* As DoesMode, for the attenuator.
LEMMA DoesATT ==
    ASSUME NEW r \in Radios, NEW on \in BOOLEAN
    PROVE  LET q == Does(r, Command("ATT", on))
           IN  q \in Radios /\ q.ATT = on /\ q.PRE = r.PRE /\ SameElse(q, r)
<1> DEFINE q == [r EXCEPT !.ATT = on]
<1>1. Does(r, Command("ATT", on)) = q
  BY DoesIt
<1>2. q \in Radios /\ q.ATT = on /\ q.PRE = r.PRE /\ SameElse(q, r)
  BY DEF Radios, SameElse
<1>3. QED
  BY <1>1, <1>2

\* As DoesMode, for the preamplifier.
LEMMA DoesPRE ==
    ASSUME NEW r \in Radios, NEW on \in BOOLEAN
    PROVE  LET q == Does(r, Command("PRE", on))
           IN  q \in Radios /\ q.PRE = on /\ q.ATT = r.ATT /\ SameElse(q, r)
<1> DEFINE q == [r EXCEPT !.PRE = on]
<1>1. Does(r, Command("PRE", on)) = q
  BY DoesIt
<1>2. q \in Radios /\ q.PRE = on /\ q.ATT = r.ATT /\ SameElse(q, r)
  BY DEF Radios, SameElse
<1>3. QED
  BY <1>1, <1>2

\* The others, which AM and FM do not take.
LEMMA DoesNothing ==
    ASSUME NEW r, ~Hears(r), NEW x, x \notin {"mode", "ATT", "PRE"}, NEW v
    PROVE  Does(r, Command(x, v)) = r
  BY DoesIt

\* Where the mode has them, the others are set too: noise reduction.
LEMMA DoesNR ==
    ASSUME NEW r \in Radios, Hears(r), NEW on \in BOOLEAN
    PROVE  /\ Does(r, Command("NR", on)) = [r EXCEPT !.NR = on]
           /\ [r EXCEPT !.NR = on] \in Radios
  BY DoesIt DEF Radios

\* As DoesNR, for the level of the noise reduction and depth of the automatic notch.
LEMMA DoesLevel ==
    ASSUME NEW r \in Radios, Hears(r), NEW v \in 0..255
    PROVE  /\ Does(r, Command("level", v)) = [r EXCEPT !.level = v]
           /\ [r EXCEPT !.level = v] \in Radios
  BY DoesIt DEF Radios

\* As DoesNR, for the AGC speed.
LEMMA DoesAgc ==
    ASSUME NEW r \in Radios, Hears(r), NEW v \in 0..255
    PROVE  /\ Does(r, Command("agc", v)) = [r EXCEPT !.agc = v]
           /\ [r EXCEPT !.agc = v] \in Radios
  BY DoesIt DEF Radios

\* As DoesNR, for the frequency of the notch by hand.
LEMMA DoesNotch ==
    ASSUME NEW r \in Radios, Hears(r), NEW v \in Offsets
    PROVE  /\ Does(r, Command("notch", v)) = [r EXCEPT !.notch = v]
           /\ [r EXCEPT !.notch = v] \in Radios
  BY DoesIt DEF Radios

\* As DoesNR, for the IF shift.
LEMMA DoesShift ==
    ASSUME NEW r \in Radios, Hears(r), NEW v \in Offsets
    PROVE  /\ Does(r, Command("shift", v)) = [r EXCEPT !.shift = v]
           /\ [r EXCEPT !.shift = v] \in Radios
  BY DoesIt DEF Radios

\* And of the widths none but Nothing.
LEMMA DoesWidth ==
    ASSUME NEW r \in Radios, Hears(r), NEW w \in NotchWidths \cup {Automatic, Nothing}
    PROVE  /\ Does(r, Command("width", w)) = IF w = Nothing THEN r ELSE [r EXCEPT !.width = w]
           /\ w # Nothing => [r EXCEPT !.width = w] \in Radios
<1>1. Does(r, Command("width", w)) = IF w = Nothing THEN r ELSE [r EXCEPT !.width = w]
  BY DoesIt
<1>2. w # Nothing => [r EXCEPT !.width = w] \in Radios
  BY DEF Radios
<1>3. QED
  BY <1>1, <1>2

\* What is sent for the widgets is in the ranges of the commands.
LEMMA SentInRange ==
    ASSUME NEW s \in Panels
    PROVE  AgcSent(s) \in 0..255 /\ DepthSent(s.depth) \in 0..255 /\ s.level \in 0..255
<1>1. s.speed \in 0..255
  <2>1. s.speed \in Speeds
    BY DEF Panels
  <2>2. Speeds \subseteq 0..255
    BY ReceiverAssumption
  <2>3. QED
    BY <2>1, <2>2
<1>2. s.level \in 0..255
  <2>1. s.level \in Levels
    BY DEF Panels
  <2>2. Levels \subseteq 0..255
    BY ReceiverAssumption
  <2>3. QED
    BY <2>1, <2>2
<1>3. s.depth \in 0..100
  <2>1. s.depth \in Depths
    BY DEF Panels
  <2>2. Depths \subseteq 0..100
    BY ReceiverAssumption
  <2>3. QED
    BY <2>1, <2>2
<1>4. AgcSent(s) \in 0..255
  BY <1>1 DEF AgcSent
<1>5. DepthSent(s.depth) \in 0..255
  <2> DEFINE d == s.depth
  <2>1. d \in 0..100
    BY <1>3
  <2> HIDE DEF d
  <2>2. (d * 255) \div 100 \in 0..255
    BY <2>1
  <2>3. QED
    BY <2>2 DEF DepthSent, d
<1>6. QED
  BY <1>2, <1>4, <1>5

-----------------------------------------------------------------------------
(* What the callbacks are made of.                                         *)

Values == RxModes \cup BOOLEAN \cup Int

\* Commands that AM and FM do not take, and all.
Adjustments ==
    {Command(x, v) : x \in {"NR", "level", "agc", "width", "notch", "shift"}, v \in Values}
Orders == Adjustments \cup {Command(x, v) : x \in {"mode", "ATT", "PRE"}, v \in Values}

\* Every command with a value a widget can have is one of these.
LEMMA AreOrders ==
    /\ \A x \in {"NR", "level", "agc", "width", "notch", "shift"}, v \in Values :
          Command(x, v) \in Adjustments /\ Command(x, v) \in Orders
    /\ \A x \in {"mode", "ATT", "PRE"}, v \in Values : Command(x, v) \in Orders
  BY DEF Adjustments, Orders

\* The values of the widgets, and what setXcvrAgcSpeed and setXcvrNotchDepth make of them.
LEMMA WidgetValues ==
    ASSUME NEW s \in Panels
    PROVE  /\ s.NR \in Values /\ s.level \in Values /\ AgcSent(s) \in Values
           /\ s.width \in Values /\ s.notch \in Values /\ s.shift \in Values
           /\ DepthSent(s.depth) \in Values /\ Automatic \in Values
           /\ TRUE \in Values /\ FALSE \in Values
<1>1. /\ s.width \in Int /\ s.notch \in Int /\ s.shift \in Int /\ Automatic \in Int
      /\ s.NR \in BOOLEAN
  BY DEF Panels, NotchWidths, Nothing, Offsets, Automatic
<1>2. s.level \in Int /\ AgcSent(s) \in Int /\ DepthSent(s.depth) \in Int
  BY SentInRange
<1>3. QED
  BY <1>1, <1>2 DEF Values

\* One and two commands.
LEMMA ShortSeqs ==
    ASSUME NEW S, NEW a \in S, NEW b \in S
    PROVE  <<>> \in Seq(S) /\ <<a>> \in Seq(S) /\ <<a, b>> \in Seq(S)
  OBVIOUS

\* What two commands do.
LEMMA GetsTwo ==
    ASSUME NEW r, NEW a, NEW b
    PROVE  Gets(r, <<a, b>>) = Does(Does(r, a), b)
<1> DEFINE cs == <<a, b>>
<1>1. Len(cs) = 2 /\ Len(cs) \in Nat /\ cs[1] = a /\ cs[2] = b
  OBVIOUS
<1> HIDE DEF cs
<1>2. PICK g : OneByOne(g, r, cs, Len(cs)) /\ Gets(r, cs) = g[Len(cs)]
  BY <1>1, GetsOneByOne
<1>3. g[0] = r /\ g[1] = Does(g[0], cs[1]) /\ g[2] = Does(g[1], cs[2])
  BY <1>1, <1>2 DEF OneByOne
<1>4. QED
  BY <1>1, <1>2, <1>3 DEF cs

\* The callbacks send such commands, and the mode, attenuator and preamplifier apart only
\* adjustments.
LEMMA SentIsOrders ==
    ASSUME NEW s \in Panels
    PROVE  /\ SendShift(s) \in Seq(Adjustments)
           /\ cbbtnNR(s) \in Seq(Adjustments)
           /\ cbbtnNotch(s) \in Seq(Adjustments)
           /\ <<Command("agc", AgcSent(s)), Command("level", s.level)>> \in Seq(Adjustments)
           /\ SendPressed(s, "ATT", "PRE") \in Seq(Orders)
           /\ SendPressed(s, "PRE", "ATT") \in Seq(Orders)
<1>1. /\ Command("NR", s.NR) \in Adjustments /\ Command("level", s.level) \in Adjustments
      /\ Command("agc", AgcSent(s)) \in Adjustments /\ Command("shift", s.shift) \in Adjustments
      /\ Command("width", s.width) \in Adjustments /\ Command("notch", s.notch) \in Adjustments
      /\ Command("width", Automatic) \in Adjustments
      /\ Command("level", DepthSent(s.depth)) \in Adjustments
  <2>1. \A x \in {"NR", "level", "agc", "width", "notch", "shift"}, v \in Values :
           Command(x, v) \in Adjustments
    BY AreOrders
  <2>2. /\ s.NR \in Values /\ s.level \in Values /\ AgcSent(s) \in Values
        /\ s.width \in Values /\ s.notch \in Values /\ s.shift \in Values
        /\ DepthSent(s.depth) \in Values /\ Automatic \in Values
    BY WidgetValues
  <2>3. QED
    BY Zenon, <2>1, <2>2
<1>2. /\ Command("ATT", TRUE) \in Orders /\ Command("ATT", FALSE) \in Orders
      /\ Command("PRE", TRUE) \in Orders /\ Command("PRE", FALSE) \in Orders
  BY AreOrders, WidgetValues
<1>3. SendShift(s) \in Seq(Adjustments)
  BY <1>1, ShortSeqs DEF SendShift
<1> DEFINE a == <<Command("NR", s.NR)>>
           b == IF s.NR THEN <<Command("level", s.level)>> ELSE <<>>
           c == <<Command("agc", AgcSent(s))>>
<1>4. a \in Seq(Adjustments) /\ b \in Seq(Adjustments) /\ c \in Seq(Adjustments)
  BY <1>1, ShortSeqs
<1>5. cbbtnNR(s) = a \o b \o c
  BY DEF cbbtnNR
<1> HIDE DEF a, b, c
<1>6. cbbtnNR(s) \in Seq(Adjustments)
  BY <1>4, <1>5
<1> DEFINE d == <<Command("width", Automatic), Command("level", DepthSent(s.depth))>>
           e == <<Command("width", s.width), Command("notch", s.notch)>>
<1>7. d \in Seq(Adjustments) /\ e \in Seq(Adjustments)
  BY <1>1, ShortSeqs
<1>8. cbbtnNotch(s) = IF s.Notch THEN d ELSE e \o cbbtnNR(s)
  BY DEF cbbtnNotch
<1> HIDE DEF d, e
<1>9. cbbtnNotch(s) \in Seq(Adjustments)
  BY <1>6, <1>7, <1>8
<1>10. <<Command("agc", AgcSent(s)), Command("level", s.level)>> \in Seq(Adjustments)
  BY <1>1, ShortSeqs
<1>11. /\ SendPressed(s, "ATT", "PRE") \in Seq(Orders)
       /\ SendPressed(s, "PRE", "ATT") \in Seq(Orders)
  BY <1>2, ShortSeqs DEF SendPressed
<1>12. QED
  BY <1>3, <1>6, <1>9, <1>10, <1>11

\* Adjustments are commands.
LEMMA AllAreOrders == Seq(Adjustments) \subseteq Seq(Orders)
<1>1. Adjustments \subseteq Orders
  BY DEF Orders
<1>2. QED
  BY <1>1

\* GetsConcat for the commands of the callbacks.
LEMMA TwoParts ==
    ASSUME NEW r, NEW a \in Seq(Orders), NEW b \in Seq(Orders)
    PROVE  a \o b \in Seq(Orders) /\ Gets(r, a \o b) = Gets(Gets(r, a), b)
  BY GetsConcat

\* In AM and FM the radio takes none of the adjustments.
LEMMA GetsNothing ==
    ASSUME NEW r, ~Hears(r), NEW cs \in Seq(Adjustments)
    PROVE  Gets(r, cs) = r
<1> DEFINE f == [n \in 0..Len(cs) |-> r]
<1>1. Len(cs) \in Nat /\ f[0] = r /\ f[Len(cs)] = r
  OBVIOUS
<1>2. ASSUME NEW n \in 1..Len(cs) PROVE f[n] = Does(f[n - 1], cs[n])
  <2>1. cs[n] \in Adjustments
    OBVIOUS
  <2>2. PICK x \in {"NR", "level", "agc", "width", "notch", "shift"}, v \in Values :
          cs[n] = Command(x, v)
    BY <2>1 DEF Adjustments
  <2>3. f[n] = r /\ f[n - 1] = r
    OBVIOUS
  <2>4. QED
    BY <2>2, <2>3, DoesNothing
<1> HIDE DEF f
<1>3. OneByOne(f, r, cs, Len(cs))
  BY <1>1, <1>2 DEF OneByOne
<1>4. QED
  BY <1>1, <1>3, GetsIs

\* No command keys the radio or touches its tune carrier.
LEMMA GetsKeepsKey ==
    ASSUME NEW r \in Radios, NEW cs \in Seq(Orders)
    PROVE  Gets(r, cs).keyed = r.keyed /\ Gets(r, cs).carrier = r.carrier
<1>1. Len(cs) \in Nat
  OBVIOUS
<1>2. PICK f : OneByOne(f, r, cs, Len(cs)) /\ Gets(r, cs) = f[Len(cs)]
  BY <1>1, GetsOneByOne
<1> DEFINE Same(q) == DOMAIN q = DOMAIN r /\ q.keyed = r.keyed /\ q.carrier = r.carrier
           S == {n \in 0..Len(cs) : ~Same(f[n])}
<1>3. ASSUME NEW q, Same(q), NEW c \in Orders PROVE Same(Does(q, c))
  <2>1. PICK x \in {"NR", "level", "agc", "width", "notch", "shift", "mode", "ATT", "PRE"},
             v \in Values : c = Command(x, v)
    BY DEF Orders, Adjustments
  <2>2. Does(q, c) = [q EXCEPT ![x] = v] \/ Does(q, c) = q
    BY <2>1, DoesIt
  <2>3. Same([q EXCEPT ![x] = v])
    <3>1. "keyed" \in DOMAIN q /\ "carrier" \in DOMAIN q
      BY <1>3 DEF Radios
    <3>2. QED
      BY <1>3, <3>1
  <2>4. QED
    BY <1>3, <2>2, <2>3
<1>4. Same(f[0])
  BY <1>2 DEF OneByOne
<1>5. ASSUME S # {} PROVE FALSE
  <2>1. S \subseteq Nat
    OBVIOUS
  <2>2. PICK m \in S : \A j \in S : m <= j
    BY <1>5, <2>1, LeastNumber
  <2>3. m \in 0..Len(cs) /\ ~Same(f[m]) /\ m # 0
    BY <1>4, <2>2
  <2>4. m - 1 \in 0..Len(cs) /\ m - 1 \notin S /\ m \in 1..Len(cs)
    BY <1>1, <2>2, <2>3
  <2>5. Same(f[m - 1])
    BY <2>4
  <2>6. f[m] = Does(f[m - 1], cs[m]) /\ cs[m] \in Orders
    BY <1>2, <2>4 DEF OneByOne
  <2> HIDE DEF Same
  <2>7. QED
    BY <1>3, <2>3, <2>5, <2>6
<1>6. Len(cs) \notin S /\ Len(cs) \in 0..Len(cs)
  BY <1>1, <1>5
<1>7. Same(f[Len(cs)])
  BY <1>6
<1>8. QED
  BY <1>2, <1>7

\* So what does not change the mode leaves it open or shut to a new one.
LEMMA SameModeAfter ==
    ASSUME NEW r \in Radios, NEW cs \in Seq(Orders), Gets(r, cs).mode = r.mode, NEW m
    PROVE  /\ Transmits(Gets(r, cs)) <=> Transmits(r)
           /\ ModeAfter(Gets(r, cs), m) = ModeAfter(r, m)
<1>1. Gets(r, cs).keyed = r.keyed /\ Gets(r, cs).carrier = r.carrier
  BY GetsKeepsKey
<1>2. Transmits(Gets(r, cs)) <=> Transmits(r)
  BY <1>1 DEF Transmits
<1>3. QED
  BY <1>2 DEF ModeAfter

\* Two modes leave r in k: the second, unless the radio is on the air or the first put it there.
LeftIn(r, first, m, k) ==
    /\ Gets(r, <<Command("mode", first), Command("mode", m)>>) = [r EXCEPT !.mode = k]
    /\ [r EXCEPT !.mode = k] \in Radios
    /\ Transmits(r) => k = r.mode
    /\ ~Transmits(r) /\ k # m => r.carrier /\ first = "CW" /\ first # m

\* There is such a mode.
LEMMA TwoModes ==
    ASSUME NEW r \in Radios, NEW first \in RxModes, NEW m \in RxModes
    PROVE  \E k \in RxModes : LeftIn(r, first, m, k)
<1> DEFINE k1 == ModeAfter(r, first)
           q == [r EXCEPT !.mode = k1]
           k == ModeAfter(q, m)
<1>1. Does(r, Command("mode", first)) = q /\ q \in Radios /\ k1 \in RxModes
  BY DoesMode
<1>2. Does(q, Command("mode", m)) = [q EXCEPT !.mode = k] /\ [q EXCEPT !.mode = k] \in Radios
      /\ k \in RxModes
  BY <1>1, DoesMode
<1>3. Gets(r, <<Command("mode", first), Command("mode", m)>>) = [q EXCEPT !.mode = k]
  BY <1>1, <1>2, GetsTwo
<1>4. q.mode = k1 /\ q.keyed = r.keyed /\ q.carrier = r.carrier
  BY DEF Radios
<1> HIDE DEF k1, k
<1>5. [q EXCEPT !.mode = k] = [r EXCEPT !.mode = k]
  BY DEF Radios
<1> HIDE DEF q
<1>6. Transmits(r) => k = r.mode
  <2>1. ASSUME Transmits(r) PROVE k = r.mode
    <3>1. k1 = r.mode
      BY <2>1 DEF k1, ModeAfter
    <3>2. Transmits(q)
      BY <1>4, <2>1, <3>1 DEF Transmits
    <3>3. QED
      BY <1>4, <3>1, <3>2 DEF k, ModeAfter
  <2>2. QED
    BY <2>1
<1>7. ~Transmits(r) /\ k # m => r.carrier /\ first = "CW" /\ first # m
  <2>1. ASSUME ~Transmits(r), k # m PROVE r.carrier /\ first = "CW" /\ first # m
    <3>1. k1 = first
      BY <2>1 DEF k1, ModeAfter
    <3>2. Transmits(q) /\ k = q.mode
      BY <2>1 DEF k, ModeAfter
    <3>3. ~r.keyed
      BY <2>1 DEF Transmits
    <3>4. q.carrier /\ q.mode = "CW"
      BY <1>4, <3>2, <3>3 DEF Transmits
    <3>5. QED
      BY <1>4, <2>1, <3>1, <3>2, <3>4
  <2>2. QED
    BY <2>1
<1>8. QED
  BY <1>2, <1>3, <1>5, <1>6, <1>7 DEF LeftIn

\* The IF shift.
LEMMA ShiftGets ==
    ASSUME NEW r \in Radios, Hears(r), NEW s \in Panels
    PROVE  LET q == Gets(r, SendShift(s)) IN q \in Radios /\ q = [r EXCEPT !.shift = s.shift]
<1>1. Gets(r, SendShift(s)) = Does(r, Command("shift", s.shift))
  BY GetsOne DEF SendShift
<1>2. s.shift \in Offsets
  BY DEF Panels
<1>3. QED
  BY <1>1, <1>2, DoesShift

\* Noise reduction, its level and the AGC speed.
LEMMA NRGets ==
    ASSUME NEW r \in Radios, Hears(r), NEW s \in Panels, NEW q, q = Gets(r, cbbtnNR(s))
    PROVE  /\ q \in Radios
           /\ q.NR = s.NR /\ (s.NR => q.level = s.level) /\ (~s.NR => q.level = r.level)
           /\ q.agc = AgcSent(s)
           /\ q.mode = r.mode /\ q.width = r.width /\ q.notch = r.notch /\ q.shift = r.shift
           /\ q.ATT = r.ATT /\ q.PRE = r.PRE
<1> DEFINE a == <<Command("NR", s.NR)>>
           b == IF s.NR THEN <<Command("level", s.level)>> ELSE <<>>
           c == <<Command("agc", AgcSent(s))>>
           r1 == Gets(r, a)
           r2 == Gets(r1, b)
<1>1. a \in Seq(Orders) /\ b \in Seq(Orders) /\ c \in Seq(Orders)
  <2>1. /\ Command("NR", s.NR) \in Orders /\ Command("level", s.level) \in Orders
        /\ Command("agc", AgcSent(s)) \in Orders
    BY AreOrders, WidgetValues
  <2>2. QED
    BY <2>1, ShortSeqs
<1>2. cbbtnNR(s) = (a \o b) \o c
  BY DEF cbbtnNR
<1>3. s.NR \in BOOLEAN /\ s.level \in 0..255 /\ AgcSent(s) \in 0..255
  BY SentInRange DEF Panels
<1>4. r1 = [r EXCEPT !.NR = s.NR] /\ r1 \in Radios
  BY <1>3, GetsOne, DoesNR
<1>5. r2 = IF s.NR THEN Does(r1, Command("level", s.level)) ELSE r1
  BY GetsOne
<1>6. Gets(r2, c) = Does(r2, Command("agc", AgcSent(s)))
  BY GetsOne
<1>7. q = Gets(r2, c)
  <2> HIDE DEF a, b, c
  <2> DEFINE ab == a \o b
  <2>1. ab \in Seq(Orders) /\ Gets(r, ab) = Gets(Gets(r, a), b)
    BY <1>1, TwoParts
  <2>2. cbbtnNR(s) = ab \o c
    BY <1>2
  <2> HIDE DEF ab
  <2>3. Gets(r, ab \o c) = Gets(Gets(r, ab), c)
    BY <1>1, <2>1, TwoParts
  <2>4. QED
    BY <2>1, <2>2, <2>3 DEF r1, r2
<1> HIDE DEF a, b, c, r1, r2
<1>8. r1.mode = r.mode /\ Hears(r1)
  BY <1>4 DEF Radios, Hears
<1>9. r2 \in Radios /\ r2 = IF s.NR THEN [r1 EXCEPT !.level = s.level] ELSE r1
  <2>1. /\ Does(r1, Command("level", s.level)) = [r1 EXCEPT !.level = s.level]
        /\ [r1 EXCEPT !.level = s.level] \in Radios
    BY <1>3, <1>4, <1>8, DoesLevel
  <2>2. QED
    BY <1>4, <1>5, <2>1
<1>10. Hears(r2)
  BY <1>4, <1>8, <1>9 DEF Radios, Hears
<1>11. q \in Radios /\ q = [r2 EXCEPT !.agc = AgcSent(s)]
  <2>1. /\ Does(r2, Command("agc", AgcSent(s))) = [r2 EXCEPT !.agc = AgcSent(s)]
        /\ [r2 EXCEPT !.agc = AgcSent(s)] \in Radios
    BY <1>3, <1>9, <1>10, DoesAgc
  <2>2. QED
    BY <1>6, <1>7, <2>1
<1>12. /\ r1.NR = s.NR /\ r1.level = r.level /\ r1.mode = r.mode /\ r1.width = r.width
       /\ r1.notch = r.notch /\ r1.shift = r.shift /\ r1.ATT = r.ATT /\ r1.PRE = r.PRE
  BY <1>4 DEF Radios
<1>13. /\ r2.NR = r1.NR /\ r2.mode = r1.mode /\ r2.width = r1.width
       /\ r2.notch = r1.notch /\ r2.shift = r1.shift /\ r2.ATT = r1.ATT /\ r2.PRE = r1.PRE
       /\ (s.NR => r2.level = s.level) /\ (~s.NR => r2.level = r1.level)
  BY <1>4, <1>9 DEF Radios
<1>14. /\ q.NR = r2.NR /\ q.mode = r2.mode /\ q.width = r2.width /\ q.level = r2.level
       /\ q.notch = r2.notch /\ q.shift = r2.shift /\ q.ATT = r2.ATT /\ q.PRE = r2.PRE
       /\ q.agc = AgcSent(s)
  BY <1>9, <1>11 DEF Radios
<1>15. QED
  BY <1>11, <1>12, <1>13, <1>14

\* The notch: by hand the noise reduction comes back with it.
LEMMA NotchGets ==
    ASSUME NEW r \in Radios, Hears(r), NEW s \in Panels, NEW q, q = Gets(r, cbbtnNotch(s))
    PROVE  /\ q \in Radios
           /\ q.mode = r.mode /\ q.shift = r.shift /\ q.ATT = r.ATT /\ q.PRE = r.PRE
           /\ s.Notch => /\ q.width = Automatic /\ q.level = DepthSent(s.depth)
                         /\ q.NR = r.NR /\ q.agc = r.agc
           /\ ~s.Notch => /\ s.width # Nothing => q.width = s.width
                          /\ q.notch = s.notch /\ q.NR = s.NR /\ q.agc = AgcSent(s)
                          /\ s.NR => q.level = s.level
<1>0. s.width \in NotchWidths \cup {Automatic, Nothing} /\ s.notch \in Offsets
      /\ DepthSent(s.depth) \in 0..255 /\ Automatic # Nothing
      /\ Automatic \in NotchWidths \cup {Automatic, Nothing}
  BY SentInRange DEF Panels, Automatic, Nothing
<1>1. CASE s.Notch
  <2> DEFINE a == <<Command("width", Automatic)>>
             b == <<Command("level", DepthSent(s.depth))>>
             r1 == Gets(r, a)
  <2>1. a \in Seq(Orders) /\ b \in Seq(Orders)
    <3>1. /\ Command("width", Automatic) \in Orders
          /\ Command("level", DepthSent(s.depth)) \in Orders
      BY AreOrders, WidgetValues
    <3>2. QED
      BY <3>1, ShortSeqs
  <2>2. cbbtnNotch(s) = a \o b
    BY <1>1 DEF cbbtnNotch
  <2>3. r1 = Does(r, Command("width", Automatic))
        /\ Gets(r1, b) = Does(r1, Command("level", DepthSent(s.depth)))
    BY GetsOne
  <2> HIDE DEF a, b
  <2>4. q = Gets(r1, b)
    BY <2>1, <2>2, TwoParts
  <2> HIDE DEF r1
  <2>5. r1 = [r EXCEPT !.width = Automatic] /\ r1 \in Radios
    <3>1. /\ Does(r, Command("width", Automatic)) =
                 IF Automatic = Nothing THEN r ELSE [r EXCEPT !.width = Automatic]
          /\ Automatic # Nothing => [r EXCEPT !.width = Automatic] \in Radios
      BY <1>0, DoesWidth
    <3>2. QED
      BY <1>0, <2>3, <3>1
  <2>6. r1.mode = r.mode /\ r1.shift = r.shift /\ r1.ATT = r.ATT /\ r1.PRE = r.PRE
        /\ r1.width = Automatic /\ r1.NR = r.NR /\ r1.agc = r.agc
    BY <2>5 DEF Radios
  <2>7. Hears(r1)
    BY <2>6 DEF Hears
  <2>8. /\ Does(r1, Command("level", DepthSent(s.depth))) =
               [r1 EXCEPT !.level = DepthSent(s.depth)]
        /\ [r1 EXCEPT !.level = DepthSent(s.depth)] \in Radios
    BY <1>0, <2>5, <2>7, DoesLevel
  <2>9. q = [r1 EXCEPT !.level = DepthSent(s.depth)] /\ q \in Radios
    BY <2>3, <2>4, <2>8
  <2>10. q.mode = r1.mode /\ q.shift = r1.shift /\ q.ATT = r1.ATT /\ q.PRE = r1.PRE
         /\ q.width = r1.width /\ q.NR = r1.NR /\ q.agc = r1.agc /\ q.level = DepthSent(s.depth)
    BY <2>5, <2>9 DEF Radios
  <2>11. QED
    BY <1>1, <2>6, <2>9, <2>10
<1>2. CASE ~s.Notch
  <2> DEFINE a == <<Command("width", s.width)>>
             b == <<Command("notch", s.notch)>>
             r1 == Gets(r, a)
             r2 == Gets(r1, b)
  <2>1. a \in Seq(Orders) /\ b \in Seq(Orders) /\ cbbtnNR(s) \in Seq(Orders)
    <3>1. Command("width", s.width) \in Orders /\ Command("notch", s.notch) \in Orders
      BY AreOrders, WidgetValues
    <3>2. cbbtnNR(s) \in Seq(Orders)
      BY SentIsOrders, AllAreOrders
    <3>3. QED
      BY <3>1, <3>2, ShortSeqs
  <2>2. cbbtnNotch(s) = <<Command("width", s.width), Command("notch", s.notch)>> \o cbbtnNR(s)
    BY <1>2 DEF cbbtnNotch
  <2> DEFINE ab == a \o b
  <2>3. cbbtnNotch(s) = ab \o cbbtnNR(s)
    BY <2>2
  <2>4. r1 = Does(r, Command("width", s.width)) /\ r2 = Does(r1, Command("notch", s.notch))
    BY GetsOne
  <2> HIDE DEF a, b
  <2>5. ab \in Seq(Orders) /\ Gets(r, ab) = Gets(Gets(r, a), b)
    BY <2>1, TwoParts
  <2> HIDE DEF ab
  <2>6. Gets(r, ab \o cbbtnNR(s)) = Gets(Gets(r, ab), cbbtnNR(s))
    BY <2>1, <2>5, TwoParts
  <2>7. q = Gets(r2, cbbtnNR(s))
    BY <2>3, <2>5, <2>6
  <2> HIDE DEF r1, r2
  <2>8. r1 = (IF s.width = Nothing THEN r ELSE [r EXCEPT !.width = s.width]) /\ r1 \in Radios
    <3>1. /\ Does(r, Command("width", s.width)) =
                 IF s.width = Nothing THEN r ELSE [r EXCEPT !.width = s.width]
          /\ s.width # Nothing => [r EXCEPT !.width = s.width] \in Radios
      BY <1>0, DoesWidth
    <3>2. QED
      BY <2>4, <3>1
  <2>9. r1.mode = r.mode /\ r1.shift = r.shift /\ r1.ATT = r.ATT /\ r1.PRE = r.PRE
        /\ (s.width # Nothing => r1.width = s.width)
    BY <2>8 DEF Radios
  <2>10. Hears(r1)
    BY <2>9 DEF Hears
  <2>11. r2 = [r1 EXCEPT !.notch = s.notch] /\ r2 \in Radios
    BY <1>0, <2>4, <2>8, <2>10, DoesNotch
  <2>12. r2.mode = r1.mode /\ r2.shift = r1.shift /\ r2.ATT = r1.ATT /\ r2.PRE = r1.PRE
         /\ r2.width = r1.width /\ r2.notch = s.notch
    BY <2>8, <2>11 DEF Radios
  <2>13. Hears(r2)
    BY <2>10, <2>12 DEF Hears
  <2>14. /\ q \in Radios
         /\ q.NR = s.NR /\ (s.NR => q.level = s.level) /\ (~s.NR => q.level = r2.level)
         /\ q.agc = AgcSent(s)
         /\ q.mode = r2.mode /\ q.width = r2.width /\ q.notch = r2.notch /\ q.shift = r2.shift
         /\ q.ATT = r2.ATT /\ q.PRE = r2.PRE
    <3>1. r2 \in Radios /\ Hears(r2) /\ s \in Panels /\ q = Gets(r2, cbbtnNR(s))
      BY <2>7, <2>11, <2>13
    <3>2. QED
      BY ONLY <3>1, NRGets
  <2>15. QED
    BY <1>2, <2>9, <2>12, <2>14
<1>3. QED
  BY <1>1, <1>2

\* cbAttenuator, in every mode.
LEMMA ATTGets ==
    ASSUME NEW r \in Radios, NEW s \in Panels, NEW q, q = Gets(r, SendPressed(s, "ATT", "PRE"))
    PROVE  /\ q \in Radios /\ q.ATT = s.ATT /\ SameElse(q, r)
           /\ s.ATT = TRUE => q.PRE = FALSE
           /\ s.ATT = FALSE => q.PRE = r.PRE
<1>0. s.ATT \in BOOLEAN
  BY DEF Panels
<1>1. CASE s.ATT
  <2> DEFINE r1 == Does(r, Command("ATT", TRUE))
  <2>1. SendPressed(s, "ATT", "PRE") = <<Command("ATT", TRUE), Command("PRE", FALSE)>>
    BY <1>1 DEF SendPressed
  <2>2. q = Does(r1, Command("PRE", FALSE))
    <3>1. Gets(r, <<Command("ATT", TRUE), Command("PRE", FALSE)>>) = Does(r1, Command("PRE", FALSE))
      <4> DEFINE a == Command("ATT", TRUE)
                 b == Command("PRE", FALSE)
      <4> HIDE DEF a, b
      <4>1. Gets(r, <<a, b>>) = Does(Does(r, a), b)
        BY GetsTwo
      <4>2. QED
        BY <4>1 DEF a, b
    <3>2. QED
      BY <2>1, <3>1
  <2>3. r1 \in Radios /\ r1.ATT = TRUE /\ SameElse(r1, r)
    BY DoesATT
  <2> HIDE DEF r1
  <2>4. q \in Radios /\ q.PRE = FALSE /\ q.ATT = r1.ATT /\ SameElse(q, r1)
    BY <2>2, <2>3, DoesPRE
  <2>5. SameElse(q, r)
    BY <2>3, <2>4 DEF SameElse
  <2>6. QED
    BY <1>0, <1>1, <2>3, <2>4, <2>5
<1>2. CASE ~s.ATT
  <2>1. q = Does(r, Command("ATT", FALSE))
    BY <1>2, GetsOne DEF SendPressed
  <2>2. q \in Radios /\ q.ATT = FALSE /\ q.PRE = r.PRE /\ SameElse(q, r)
    BY <2>1, DoesATT
  <2>3. QED
    BY <1>0, <1>2, <2>2
<1>3. QED
  BY <1>1, <1>2

\* The same for cbPreamp.
LEMMA PREGets ==
    ASSUME NEW r \in Radios, NEW s \in Panels, NEW q, q = Gets(r, SendPressed(s, "PRE", "ATT"))
    PROVE  /\ q \in Radios /\ q.PRE = s.PRE /\ SameElse(q, r)
           /\ s.PRE = TRUE => q.ATT = FALSE
           /\ s.PRE = FALSE => q.ATT = r.ATT
<1>0. s.PRE \in BOOLEAN
  BY DEF Panels
<1>1. CASE s.PRE
  <2> DEFINE r1 == Does(r, Command("PRE", TRUE))
  <2>1. SendPressed(s, "PRE", "ATT") = <<Command("PRE", TRUE), Command("ATT", FALSE)>>
    BY <1>1 DEF SendPressed
  <2>2. q = Does(r1, Command("ATT", FALSE))
    <3>1. Gets(r, <<Command("PRE", TRUE), Command("ATT", FALSE)>>) = Does(r1, Command("ATT", FALSE))
      <4> DEFINE a == Command("PRE", TRUE)
                 b == Command("ATT", FALSE)
      <4> HIDE DEF a, b
      <4>1. Gets(r, <<a, b>>) = Does(Does(r, a), b)
        BY GetsTwo
      <4>2. QED
        BY <4>1 DEF a, b
    <3>2. QED
      BY <2>1, <3>1
  <2>3. r1 \in Radios /\ r1.PRE = TRUE /\ SameElse(r1, r)
    BY DoesPRE
  <2> HIDE DEF r1
  <2>4. q \in Radios /\ q.ATT = FALSE /\ q.PRE = r1.PRE /\ SameElse(q, r1)
    BY <2>2, <2>3, DoesATT
  <2>5. SameElse(q, r)
    BY <2>3, <2>4 DEF SameElse
  <2>6. QED
    BY <1>0, <1>1, <2>3, <2>4, <2>5
<1>2. CASE ~s.PRE
  <2>1. q = Does(r, Command("PRE", FALSE))
    BY <1>2, GetsOne DEF SendPressed
  <2>2. q \in Radios /\ q.PRE = FALSE /\ q.ATT = r.ATT /\ SameElse(q, r)
    BY <2>1, DoesPRE
  <2>3. QED
    BY <1>0, <1>2, <2>2
<1>3. QED
  BY <1>1, <1>2

\* A slider that goes back to its middle changes nothing else.
LEMMA CentredIs ==
    ASSUME NEW s \in Panels, NEW t, t = Centred(s)
    PROVE  /\ t \in Panels
           /\ t.mode = s.mode /\ t.NR = s.NR /\ t.level = s.level /\ t.Notch = s.Notch
           /\ t.depth = s.depth /\ t.width = s.width /\ t.notch = s.notch /\ t.IFsh = s.IFsh
           /\ t.speed = s.speed /\ t.ATT = s.ATT /\ t.PRE = s.PRE
           /\ AgcSent(t) = AgcSent(s)
<1>1. CASE s.IFsh
  BY <1>1 DEF Centred
<1>2. CASE ~s.IFsh
  <2>1. t = [s EXCEPT !.shift = 0] /\ 0 \in Offsets
    BY <1>2 DEF Centred, Offsets
  <2>2. t \in Panels
    BY <2>1 DEF Panels
  <2>3. /\ t.mode = s.mode /\ t.NR = s.NR /\ t.level = s.level /\ t.Notch = s.Notch
        /\ t.depth = s.depth /\ t.width = s.width /\ t.notch = s.notch /\ t.IFsh = s.IFsh
        /\ t.speed = s.speed /\ t.ATT = s.ATT /\ t.PRE = s.PRE
    BY <2>1 DEF Panels
  <2>4. AgcSent(t) = AgcSent(s)
    BY <2>3 DEF AgcSent
  <2>5. QED
    BY <2>2, <2>3, <2>4
<1>3. QED
  BY <1>1, <1>2

\* The AGC speed and the level.
LEMMA SlidersGet ==
    ASSUME NEW r \in Radios, Hears(r), NEW s \in Panels,
           NEW q, q = Gets(r, <<Command("agc", AgcSent(s)), Command("level", s.level)>>)
    PROVE  /\ q \in Radios /\ q.agc = AgcSent(s) /\ q.level = s.level
           /\ q.mode = r.mode /\ q.NR = r.NR /\ q.width = r.width /\ q.notch = r.notch
           /\ q.shift = r.shift /\ q.ATT = r.ATT /\ q.PRE = r.PRE
<1> DEFINE a == Command("agc", AgcSent(s))
           b == Command("level", s.level)
           r1 == Does(r, a)
<1>0. AgcSent(s) \in 0..255 /\ s.level \in 0..255
  BY SentInRange
<1>1. r1 = [r EXCEPT !.agc = AgcSent(s)] /\ r1 \in Radios
  BY <1>0, DoesAgc
<1> HIDE DEF a, b
<1>2. Gets(r, <<a, b>>) = Does(Does(r, a), b)
  BY GetsTwo
<1>3. q = Does(r1, Command("level", s.level))
  BY <1>2 DEF a, b
<1> HIDE DEF r1
<1>4. /\ r1.agc = AgcSent(s) /\ r1.mode = r.mode /\ r1.NR = r.NR /\ r1.width = r.width
      /\ r1.notch = r.notch /\ r1.shift = r.shift /\ r1.ATT = r.ATT /\ r1.PRE = r.PRE
  BY <1>1 DEF Radios
<1>5. Hears(r1)
  BY <1>4 DEF Hears
<1>6. q = [r1 EXCEPT !.level = s.level] /\ q \in Radios
  <2>1. /\ Does(r1, Command("level", s.level)) = [r1 EXCEPT !.level = s.level]
        /\ [r1 EXCEPT !.level = s.level] \in Radios
    BY <1>0, <1>1, <1>5, DoesLevel
  <2>2. QED
    BY <1>3, <2>1
<1>7. /\ q.agc = r1.agc /\ q.level = s.level /\ q.mode = r1.mode /\ q.NR = r1.NR
      /\ q.width = r1.width /\ q.notch = r1.notch /\ q.shift = r1.shift
      /\ q.ATT = r1.ATT /\ q.PRE = r1.PRE
  <2>1. r1 \in Radios /\ q = [r1 EXCEPT !.level = s.level]
    BY <1>1, <1>6
  <2>2. QED
    BY ONLY <2>1 DEF Radios
<1>8. QED
  BY <1>4, <1>6, <1>7

\* All settings, with the notch by hand.
LEMMA SendAllGets ==
    ASSUME NEW r \in Radios, NEW s \in Panels, ~s.Notch, NEW q, q = Gets(r, SendAll(s))
    PROVE  /\ q \in Radios /\ SendAll(s) \in Seq(Orders)
           /\ q.mode = r.mode /\ q.PRE = s.PRE /\ q.ATT = (IF s.PRE THEN FALSE ELSE s.ATT)
           /\ Hears(r) => /\ q.NR = s.NR /\ (s.NR => q.level = s.level) /\ q.agc = AgcSent(s)
                          /\ q.shift = Centred(s).shift
                          /\ (s.width # Nothing => q.width = s.width) /\ q.notch = s.notch
<1> DEFINE t == Centred(s)
           e == <<Command("agc", AgcSent(s)), Command("level", s.level)>>
           r1 == Gets(r, SendShift(s))
           r2 == Gets(r1, cbbtnNotch(s))
           r3 == Gets(r2, SendPressed(s, "ATT", "PRE"))
           r4 == Gets(r3, SendPressed(s, "PRE", "ATT"))
           r5 == Gets(r4, e)
           r6 == Gets(r5, cbbtnNR(s))
<1>1. t \in Panels
  BY CentredIs
<1>2. SendAll(s) = SendShift(s) \o cbbtnNotch(s) \o SendPressed(s, "ATT", "PRE")
                     \o SendPressed(s, "PRE", "ATT") \o e \o cbbtnNR(s) \o SendShift(t)
  BY DEF SendAll
<1>3. /\ SendShift(s) \in Seq(Adjustments) /\ cbbtnNotch(s) \in Seq(Adjustments)
      /\ e \in Seq(Adjustments) /\ cbbtnNR(s) \in Seq(Adjustments)
      /\ SendShift(t) \in Seq(Adjustments)
      /\ SendPressed(s, "ATT", "PRE") \in Seq(Orders)
      /\ SendPressed(s, "PRE", "ATT") \in Seq(Orders)
  BY <1>1, SentIsOrders
<1>4. /\ SendShift(s) \in Seq(Orders) /\ cbbtnNotch(s) \in Seq(Orders)
      /\ e \in Seq(Orders) /\ cbbtnNR(s) \in Seq(Orders) /\ SendShift(t) \in Seq(Orders)
  BY <1>3, AllAreOrders
<1> HIDE DEF t, e
<1>5. SendAll(s) \in Seq(Orders) /\ Gets(r, SendAll(s)) = Gets(r6, SendShift(t))
  <2> DEFINE p1 == SendShift(s)
             p2 == cbbtnNotch(s)
             p3 == SendPressed(s, "ATT", "PRE")
             p4 == SendPressed(s, "PRE", "ATT")
             p6 == cbbtnNR(s)
             p7 == SendShift(t)
             cs == SendAll(s)
  <2>1. /\ p1 \in Seq(Orders) /\ p2 \in Seq(Orders) /\ p3 \in Seq(Orders) /\ p4 \in Seq(Orders)
        /\ e \in Seq(Orders) /\ p6 \in Seq(Orders) /\ p7 \in Seq(Orders)
        /\ cs = p1 \o p2 \o p3 \o p4 \o e \o p6 \o p7
    BY <1>2, <1>3, <1>4
  <2> HIDE DEF p1, p2, p3, p4, p6, p7, cs
  <2>2. /\ cs \in Seq(Orders)
        /\ Gets(r, cs) = Gets(Gets(Gets(Gets(Gets(Gets(Gets(r, p1), p2), p3), p4), e), p6), p7)
    <3> DEFINE s2 == p1 \o p2
               s3 == s2 \o p3
               s4 == s3 \o p4
               s5 == s4 \o e
               s6 == s5 \o p6
    <3>0. cs = s6 \o p7
      BY <2>1
    <3>1. s2 \in Seq(Orders) /\ Gets(r, s2) = Gets(Gets(r, p1), p2)
      BY <2>1, TwoParts
    <3> HIDE DEF s2
    <3>2. s3 \in Seq(Orders) /\ Gets(r, s3) = Gets(Gets(r, s2), p3)
      BY <2>1, <3>1, TwoParts
    <3> HIDE DEF s3
    <3>3. s4 \in Seq(Orders) /\ Gets(r, s4) = Gets(Gets(r, s3), p4)
      BY <2>1, <3>2, TwoParts
    <3> HIDE DEF s4
    <3>4. s5 \in Seq(Orders) /\ Gets(r, s5) = Gets(Gets(r, s4), e)
      BY <2>1, <3>3, TwoParts
    <3> HIDE DEF s5
    <3>5. s6 \in Seq(Orders) /\ Gets(r, s6) = Gets(Gets(r, s5), p6)
      BY <2>1, <3>4, TwoParts
    <3> HIDE DEF s6
    <3>6. cs \in Seq(Orders) /\ Gets(r, cs) = Gets(Gets(r, s6), p7)
      BY <2>1, <3>0, <3>5, TwoParts
    <3>7. QED
      BY <3>1, <3>2, <3>3, <3>4, <3>5, <3>6
  <2>3. QED
    BY <2>2 DEF p1, p2, p3, p4, p6, p7, cs
<1>6. q = Gets(r6, SendShift(t))
  BY <1>5
<1>7. s.ATT \in BOOLEAN /\ s.PRE \in BOOLEAN
  BY DEF Panels
<1>8. CASE Hears(r)
  <2>1. r1 = [r EXCEPT !.shift = s.shift] /\ r1 \in Radios
    BY <1>8, ShiftGets
  <2> HIDE DEF r1
  <2>2. r1.mode = r.mode /\ Hears(r1)
    BY <1>8, <2>1 DEF Radios, Hears
  <2>3. /\ r2 \in Radios /\ r2.mode = r1.mode
        /\ s.width # Nothing => r2.width = s.width
        /\ r2.notch = s.notch /\ r2.NR = s.NR
    <3>1. r1 \in Radios /\ Hears(r1) /\ s \in Panels /\ r2 = Gets(r1, cbbtnNotch(s))
      BY <2>1, <2>2
    <3> HIDE DEF r2
    <3>2. /\ r2 \in Radios /\ r2.mode = r1.mode
          /\ ~s.Notch => /\ s.width # Nothing => r2.width = s.width
                         /\ r2.notch = s.notch /\ r2.NR = s.NR
      BY ONLY <3>1, NotchGets
    <3>3. QED
      BY <3>2
  <2> HIDE DEF r2
  <2>4. r3 \in Radios /\ r3.ATT = s.ATT /\ SameElse(r3, r2)
    <3>1. r2 \in Radios /\ s \in Panels /\ r3 = Gets(r2, SendPressed(s, "ATT", "PRE"))
      BY <2>3
    <3> HIDE DEF r3
    <3>2. QED
      BY ONLY Zenon, <3>1, ATTGets
  <2> HIDE DEF r3
  <2>5. /\ r4 \in Radios /\ r4.PRE = s.PRE /\ SameElse(r4, r3)
        /\ s.PRE = TRUE => r4.ATT = FALSE
        /\ s.PRE = FALSE => r4.ATT = r3.ATT
    <3>1. r3 \in Radios /\ s \in Panels /\ r4 = Gets(r3, SendPressed(s, "PRE", "ATT"))
      BY <2>4
    <3> HIDE DEF r4
    <3>2. QED
      BY ONLY Zenon, <3>1, PREGets
  <2> HIDE DEF r4
  <2>6. r4.mode = r.mode /\ Hears(r4)
    BY <2>2, <2>3, <2>4, <2>5 DEF Hears, SameElse
  <2>7. /\ r5 \in Radios /\ r5.mode = r4.mode /\ r5.width = r4.width /\ r5.notch = r4.notch
        /\ r5.ATT = r4.ATT /\ r5.PRE = r4.PRE
    <3>1. r5 = Gets(r4, <<Command("agc", AgcSent(s)), Command("level", s.level)>>)
      BY DEF e
    <3> HIDE DEF r5
    <3>2. QED
      <4>1. r4 \in Radios /\ Hears(r4) /\ s \in Panels
        BY <2>5, <2>6
      <4>2. QED
        BY ONLY <3>1, <4>1, SlidersGet
  <2> HIDE DEF r5
  <2>8. Hears(r5)
    BY <2>6, <2>7 DEF Hears
  <2>9. /\ r6 \in Radios
        /\ r6.NR = s.NR /\ (s.NR => r6.level = s.level)
        /\ r6.agc = AgcSent(s)
        /\ r6.mode = r5.mode /\ r6.width = r5.width /\ r6.notch = r5.notch
        /\ r6.ATT = r5.ATT /\ r6.PRE = r5.PRE
    BY <2>7, <2>8, NRGets
  <2> HIDE DEF r6
  <2>10. Hears(r6)
    BY <2>8, <2>9 DEF Hears
  <2>11. q = [r6 EXCEPT !.shift = t.shift] /\ q \in Radios
    BY <1>1, <1>6, <2>9, <2>10, ShiftGets
  <2>12. /\ q.mode = r6.mode /\ q.NR = r6.NR /\ q.level = r6.level /\ q.agc = r6.agc
         /\ q.width = r6.width /\ q.notch = r6.notch /\ q.ATT = r6.ATT /\ q.PRE = r6.PRE
         /\ q.shift = t.shift
    BY <2>9, <2>11 DEF Radios
  <2>13. q.ATT = (IF s.PRE THEN FALSE ELSE s.ATT)
    BY <1>7, <2>4, <2>5, <2>7, <2>9, <2>12
  <2>14. q.PRE = s.PRE /\ q.mode = r.mode
    BY <2>5, <2>6, <2>7, <2>9, <2>12
  <2>15. /\ q.NR = s.NR /\ (s.NR => q.level = s.level) /\ q.agc = AgcSent(s)
         /\ q.notch = s.notch /\ (s.width # Nothing => q.width = s.width)
    BY <2>3, <2>4, <2>5, <2>7, <2>9, <2>12 DEF SameElse
  <2>16. q.shift = Centred(s).shift
    BY <2>12 DEF t
  <2>17. QED
    BY <1>5, <2>11, <2>13, <2>14, <2>15, <2>16
<1>9. CASE ~Hears(r)
  <2>1. r1 = r
    BY <1>3, <1>9, GetsNothing
  <2>2. r2 = r
    BY <1>3, <1>9, <2>1, GetsNothing
  <2> HIDE DEF r1, r2
  <2>3. /\ r3 \in Radios /\ r3.ATT = s.ATT /\ r3.mode = r.mode
    <3>1. r2 \in Radios /\ s \in Panels /\ r3 = Gets(r2, SendPressed(s, "ATT", "PRE"))
      BY <2>2
    <3> HIDE DEF r3
    <3>2. r3 \in Radios /\ r3.ATT = s.ATT /\ SameElse(r3, r2)
      BY ONLY Zenon, <3>1, ATTGets
    <3>3. QED
      BY <2>2, <3>2 DEF SameElse
  <2> HIDE DEF r3
  <2>4. /\ r4 \in Radios /\ r4.PRE = s.PRE /\ r4.mode = r.mode
        /\ s.PRE = TRUE => r4.ATT = FALSE
        /\ s.PRE = FALSE => r4.ATT = r3.ATT
    <3>1. r3 \in Radios /\ s \in Panels /\ r4 = Gets(r3, SendPressed(s, "PRE", "ATT"))
      BY <2>3
    <3> HIDE DEF r4
    <3>2. /\ r4 \in Radios /\ r4.PRE = s.PRE /\ SameElse(r4, r3)
          /\ s.PRE = TRUE => r4.ATT = FALSE
          /\ s.PRE = FALSE => r4.ATT = r3.ATT
      BY ONLY Zenon, <3>1, PREGets
    <3>3. QED
      BY <2>3, <3>2 DEF SameElse
  <2> HIDE DEF r4
  <2>5. ~Hears(r4)
    BY <1>9, <2>4 DEF Hears
  <2>6. r5 = r4
    BY <1>3, <2>5, GetsNothing
  <2> HIDE DEF r5
  <2>7. r6 = r4
    BY <1>3, <2>5, <2>6, GetsNothing
  <2> HIDE DEF r6
  <2>8. q = r4
    BY <1>3, <1>6, <2>5, <2>7, GetsNothing
  <2>9. q.ATT = (IF s.PRE THEN FALSE ELSE s.ATT)
    BY <1>7, <2>3, <2>4, <2>8
  <2>10. QED
    BY <1>5, <1>9, <2>4, <2>8, <2>9
<1>10. QED
  BY <1>8, <1>9

-----------------------------------------------------------------------------
(* The controls.                                                           *)

\* What every callback but a change of mode has to show.
Kept ==
    /\ shown' \in Panels /\ set' \in Radios
    /\ SettingsAgree =>
         \/ SettingsAgree' \/ OverAutomatic \/ (~Hears(set) /\ Hears(set'))
         \/ WidthForgotten \/ checkCalibrate \/ BeginScan \/ ModeNotSent \/ ModeRefused

\* Controls that send adjustments, and leave mode, attenuator and preamplifier alone.
LEMMA AdjustmentKeeps ==
    ASSUME set \in Radios, NEW cs \in Seq(Adjustments), set' = Gets(set, cs), shown' \in Panels,
           shown'.mode = shown.mode, shown'.ATT = shown.ATT, shown'.PRE = shown.PRE,
           Hears(set) =>
             /\ set' \in Radios
             /\ set'.mode = set.mode /\ set'.ATT = set.ATT /\ set'.PRE = set.PRE
             /\ ResentAgree /\ NotchAgrees =>
                  (ResentAgree' /\ NotchAgrees') \/ OverAutomatic \/ WidthForgotten
    PROVE  Kept
<1>1. CASE Hears(set)
  <2>1. /\ set' \in Radios
        /\ set'.mode = set.mode /\ set'.ATT = set.ATT /\ set'.PRE = set.PRE
        /\ ResentAgree /\ NotchAgrees =>
             (ResentAgree' /\ NotchAgrees') \/ OverAutomatic \/ WidthForgotten
    BY <1>1
  <2>2. SettingsAgree => SettingsAgree' \/ OverAutomatic \/ WidthForgotten
    BY <1>1, <2>1 DEF SettingsAgree
  <2>3. QED
    BY <2>1, <2>2 DEF Kept
<1>2. CASE ~Hears(set)
  <2>1. set' = set
    BY <1>2, GetsNothing
  <2>2. SettingsAgree => SettingsAgree'
    BY <1>2, <2>1 DEF SettingsAgree
  <2>3. QED
    BY <2>1, <2>2 DEF Kept
<1>3. QED
  BY <1>1, <1>2

\* cbbtnNR: level and AGC speed follow the button, and spoil the automatic notch only.
LEMMA PressNRKeeps ==
    ASSUME shown \in Panels, set \in Radios, PressNR
    PROVE  Kept
<1> DEFINE n == [shown EXCEPT !.NR = ~shown.NR]
<1>1. shown' = n /\ set' = Gets(set, cbbtnNR(shown'))
  BY DEF PressNR, Send, Gets
<1>2. /\ n \in Panels /\ n.mode = shown.mode /\ n.ATT = shown.ATT /\ n.PRE = shown.PRE
      /\ n.Notch = shown.Notch /\ n.width = shown.width /\ n.notch = shown.notch
      /\ n.shift = shown.shift
  BY DEF Panels
<1> HIDE DEF n
<1>3. set' = Gets(set, cbbtnNR(n)) /\ cbbtnNR(n) \in Seq(Adjustments)
  BY <1>1, <1>2, SentIsOrders
<1>4. ASSUME Hears(set)
      PROVE  /\ set' \in Radios
             /\ set'.mode = set.mode /\ set'.ATT = set.ATT /\ set'.PRE = set.PRE
             /\ ResentAgree /\ NotchAgrees =>
                  (ResentAgree' /\ NotchAgrees') \/ OverAutomatic \/ WidthForgotten
  <2>1. /\ set' \in Radios
        /\ set'.NR = n.NR /\ (n.NR => set'.level = n.level)
        /\ set'.agc = AgcSent(n)
        /\ set'.mode = set.mode /\ set'.width = set.width /\ set'.notch = set.notch
        /\ set'.shift = set.shift /\ set'.ATT = set.ATT /\ set'.PRE = set.PRE
    BY <1>2, <1>3, <1>4, NRGets
  <2>2. shown.Notch => OverAutomatic
    BY DEF OverAutomatic
  <2>3. ResentAgree /\ NotchAgrees /\ ~shown.Notch => ResentAgree' /\ NotchAgrees'
    BY <1>1, <1>2, <2>1 DEF ResentAgree, NotchAgrees
  <2>4. QED
    BY <2>1, <2>2, <2>3
<1>5. QED
  BY <1>1, <1>2, <1>3, <1>4, AdjustmentKeeps

\* cbbtnNotch: by hand the settings of the noise reduction are sent again.
LEMMA PressNotchKeeps ==
    ASSUME shown \in Panels, set \in Radios, PressNotch
    PROVE  Kept
<1> DEFINE n == [shown EXCEPT !.Notch = ~shown.Notch]
<1>1. shown' = n /\ set' = Gets(set, cbbtnNotch(shown'))
  BY DEF PressNotch, Send, Gets
<1>2. /\ n \in Panels /\ n.mode = shown.mode /\ n.ATT = shown.ATT /\ n.PRE = shown.PRE
      /\ n.NR = shown.NR /\ n.speed = shown.speed /\ n.level = shown.level
      /\ n.shift = shown.shift
  BY DEF Panels
<1> HIDE DEF n
<1>3. set' = Gets(set, cbbtnNotch(n)) /\ cbbtnNotch(n) \in Seq(Adjustments)
  BY <1>1, <1>2, SentIsOrders
<1>4. AgcSent(n) = AgcSent(shown)
  BY <1>2 DEF AgcSent
<1>5. ASSUME Hears(set)
      PROVE  /\ set' \in Radios
             /\ set'.mode = set.mode /\ set'.ATT = set.ATT /\ set'.PRE = set.PRE
             /\ ResentAgree /\ NotchAgrees =>
                  (ResentAgree' /\ NotchAgrees') \/ OverAutomatic \/ WidthForgotten
  <2>1. /\ set' \in Radios
        /\ set'.mode = set.mode /\ set'.shift = set.shift /\ set'.ATT = set.ATT
        /\ set'.PRE = set.PRE
        /\ n.Notch => /\ set'.width = Automatic /\ set'.level = DepthSent(n.depth)
                      /\ set'.NR = set.NR /\ set'.agc = set.agc
        /\ ~n.Notch => /\ n.width # Nothing => set'.width = n.width
                       /\ set'.notch = n.notch /\ set'.NR = n.NR /\ set'.agc = AgcSent(n)
                       /\ n.NR => set'.level = n.level
    BY <1>2, <1>3, <1>5, NotchGets
  <2>2. CASE n.Notch
    BY <1>1, <1>2, <1>4, <2>1, <2>2 DEF ResentAgree, NotchAgrees
  <2>3. CASE ~n.Notch /\ n.width = Nothing
    BY <1>1, <2>1, <2>3 DEF WidthForgotten
  <2>4. CASE ~n.Notch /\ n.width # Nothing
    BY <1>1, <1>2, <1>4, <2>1, <2>4 DEF ResentAgree, NotchAgrees
  <2>5. QED
    BY <2>2, <2>3, <2>4
<1>6. QED
  BY <1>1, <1>2, <1>3, <1>5, AdjustmentKeeps

\* cbIFsh.
LEMMA PressIFshKeeps ==
    ASSUME shown \in Panels, set \in Radios, PressIFsh
    PROVE  Kept
<1> DEFINE m == [shown EXCEPT !.IFsh = ~shown.IFsh]
           n == Centred(m)
           c == Command("shift", n.shift)
<1>1. shown' = n /\ set' = Gets(set, <<c>>)
  BY DEF PressIFsh, SendShift, Send, Gets
<1>2. /\ n \in Panels /\ n.mode = shown.mode /\ n.ATT = shown.ATT /\ n.PRE = shown.PRE
      /\ n.NR = shown.NR /\ n.level = shown.level /\ n.Notch = shown.Notch
      /\ n.depth = shown.depth /\ n.width = shown.width /\ n.notch = shown.notch
      /\ n.speed = shown.speed
  <2>1. /\ m \in Panels /\ m.mode = shown.mode /\ m.ATT = shown.ATT /\ m.PRE = shown.PRE
        /\ m.NR = shown.NR /\ m.level = shown.level /\ m.Notch = shown.Notch
        /\ m.depth = shown.depth /\ m.width = shown.width /\ m.notch = shown.notch
        /\ m.speed = shown.speed
    BY DEF Panels
  <2> HIDE DEF m
  <2>2. QED
    BY <2>1, CentredIs
<1>3. n.shift \in Offsets /\ n.shift \in Values
  BY <1>2 DEF Panels, Values, Offsets
<1>4. <<c>> \in Seq(Adjustments)
  <2>1. c \in Adjustments
    BY <1>3, AreOrders
  <2> HIDE DEF c
  <2>2. QED
    BY <2>1, ShortSeqs
<1> HIDE DEF n
<1>5. ASSUME Hears(set)
      PROVE  /\ set' \in Radios
             /\ set'.mode = set.mode /\ set'.ATT = set.ATT /\ set'.PRE = set.PRE
             /\ ResentAgree /\ NotchAgrees =>
                  (ResentAgree' /\ NotchAgrees') \/ OverAutomatic \/ WidthForgotten
  <2>1. set' = [set EXCEPT !.shift = n.shift] /\ set' \in Radios
    <3>1. set' = Does(set, Command("shift", n.shift))
      BY <1>1, GetsOne
    <3>2. QED
      BY <1>3, <1>5, <3>1, DoesShift
  <2>2. /\ set'.mode = set.mode /\ set'.ATT = set.ATT /\ set'.PRE = set.PRE
        /\ set'.NR = set.NR /\ set'.level = set.level /\ set'.agc = set.agc
        /\ set'.width = set.width /\ set'.notch = set.notch
        /\ set'.shift = n.shift
    BY <2>1 DEF Radios
  <2>3. AgcSent(n) = AgcSent(shown)
    BY <1>2 DEF AgcSent
  <2>4. QED
    BY <1>1, <1>2, <2>1, <2>2, <2>3 DEF ResentAgree, NotchAgrees
<1> HIDE DEF c
<1>6. QED
  BY <1>1, <1>2, <1>4, <1>5, AdjustmentKeeps

\* The slider of the IF shift.
LEMMA MoveShiftKeeps ==
    ASSUME shown \in Panels, set \in Radios, NEW v \in Offsets, MoveShift(v)
    PROVE  Kept
<1> DEFINE n == [shown EXCEPT !.IFsh = TRUE, !.shift = v]
           c == Command("shift", v)
<1>1. shown' = n /\ set' = Gets(set, <<c>>)
  BY DEF MoveShift, SendShift, Send, Gets
<1>2. /\ n \in Panels /\ n.mode = shown.mode /\ n.ATT = shown.ATT /\ n.PRE = shown.PRE
      /\ n.NR = shown.NR /\ n.level = shown.level /\ n.Notch = shown.Notch
      /\ n.depth = shown.depth /\ n.width = shown.width /\ n.notch = shown.notch
      /\ n.speed = shown.speed /\ n.shift = v
  BY DEF Panels
<1>3. v \in Offsets /\ v \in Values
  BY DEF Values, Offsets
<1>4. <<c>> \in Seq(Adjustments)
  <2>1. c \in Adjustments
    BY <1>3, AreOrders
  <2> HIDE DEF c
  <2>2. QED
    BY <2>1, ShortSeqs
<1> HIDE DEF n
<1>5. ASSUME Hears(set)
      PROVE  /\ set' \in Radios
             /\ set'.mode = set.mode /\ set'.ATT = set.ATT /\ set'.PRE = set.PRE
             /\ ResentAgree /\ NotchAgrees =>
                  (ResentAgree' /\ NotchAgrees') \/ OverAutomatic \/ WidthForgotten
  <2>1. set' = [set EXCEPT !.shift = v] /\ set' \in Radios
    <3>1. set' = Does(set, Command("shift", v))
      BY <1>1, GetsOne
    <3>2. QED
      BY <1>3, <1>5, <3>1, DoesShift
  <2>2. /\ set'.mode = set.mode /\ set'.ATT = set.ATT /\ set'.PRE = set.PRE
        /\ set'.NR = set.NR /\ set'.level = set.level /\ set'.agc = set.agc
        /\ set'.width = set.width /\ set'.notch = set.notch
        /\ set'.shift = v
    BY <2>1 DEF Radios
  <2>3. AgcSent(n) = AgcSent(shown)
    BY <1>2 DEF AgcSent
  <2>4. QED
    BY <1>1, <1>2, <2>1, <2>2, <2>3 DEF ResentAgree, NotchAgrees
<1> HIDE DEF c
<1>6. QED
  BY <1>1, <1>2, <1>4, <1>5, AdjustmentKeeps

\* cbNR: with the automatic notch this is its depth.
LEMMA MoveLevelKeeps ==
    ASSUME shown \in Panels, set \in Radios, NEW v \in Levels, MoveLevel(v)
    PROVE  Kept
<1> DEFINE n == [shown EXCEPT !.level = v]
           c == Command("level", v)
<1>1. shown' = n /\ set' = Gets(set, <<c>>)
  BY DEF MoveLevel, Move, Send, Gets
<1>2. /\ n \in Panels /\ n.mode = shown.mode /\ n.ATT = shown.ATT /\ n.PRE = shown.PRE
      /\ n.NR = shown.NR /\ n.Notch = shown.Notch /\ n.depth = shown.depth
      /\ n.width = shown.width /\ n.notch = shown.notch /\ n.speed = shown.speed
      /\ n.shift = shown.shift /\ n.level = v
  BY DEF Panels
<1>3. v \in 0..255 /\ v \in Values
  <2>1. Levels \subseteq 0..255
    BY ReceiverAssumption
  <2>2. QED
    BY <2>1 DEF Values
<1>4. <<c>> \in Seq(Adjustments)
  <2>1. c \in Adjustments
    BY <1>3, AreOrders
  <2> HIDE DEF c
  <2>2. QED
    BY <2>1, ShortSeqs
<1> HIDE DEF n
<1>5. ASSUME Hears(set)
      PROVE  /\ set' \in Radios
             /\ set'.mode = set.mode /\ set'.ATT = set.ATT /\ set'.PRE = set.PRE
             /\ ResentAgree /\ NotchAgrees =>
                  (ResentAgree' /\ NotchAgrees') \/ OverAutomatic \/ WidthForgotten
  <2>1. set' = [set EXCEPT !.level = v] /\ set' \in Radios
    <3>1. set' = Does(set, Command("level", v))
      BY <1>1, GetsOne
    <3>2. QED
      BY <1>3, <1>5, <3>1, DoesLevel
  <2>2. /\ set'.mode = set.mode /\ set'.ATT = set.ATT /\ set'.PRE = set.PRE
        /\ set'.NR = set.NR /\ set'.agc = set.agc /\ set'.width = set.width
        /\ set'.notch = set.notch /\ set'.shift = set.shift
        /\ set'.level = v
    BY <2>1 DEF Radios
  <2>3. AgcSent(n) = AgcSent(shown)
    BY <1>2 DEF AgcSent
  <2>4. shown.Notch => OverAutomatic
    BY DEF OverAutomatic
  <2>5. ~shown.Notch /\ ResentAgree /\ NotchAgrees => ResentAgree' /\ NotchAgrees'
    BY <1>1, <1>2, <2>2, <2>3 DEF ResentAgree, NotchAgrees
  <2>6. QED
    BY <2>1, <2>2, <2>4, <2>5
<1> HIDE DEF c
<1>6. QED
  BY <1>1, <1>2, <1>4, <1>5, AdjustmentKeeps

\* cbDepth: with the automatic notch the level is not the one of the noise reduction.
LEMMA MoveDepthKeeps ==
    ASSUME shown \in Panels, set \in Radios, NEW v \in Depths, MoveDepth(v)
    PROVE  Kept
<1> DEFINE n == [shown EXCEPT !.depth = v]
           c == Command("level", DepthSent(v))
<1>1. shown' = n /\ set' = Gets(set, <<c>>) /\ shown.Notch
  BY DEF MoveDepth, Move, Send, Gets
<1>2. /\ n \in Panels /\ n.mode = shown.mode /\ n.ATT = shown.ATT /\ n.PRE = shown.PRE
      /\ n.NR = shown.NR /\ n.Notch = shown.Notch /\ n.level = shown.level
      /\ n.width = shown.width /\ n.notch = shown.notch /\ n.speed = shown.speed
      /\ n.shift = shown.shift /\ n.depth = v
  BY DEF Panels
<1>3. DepthSent(v) \in 0..255 /\ DepthSent(v) \in Values
  <2>1. v \in 0..100
    <3>1. Depths \subseteq 0..100
      BY ReceiverAssumption
    <3>2. QED
      BY <3>1
  <2>2. (v * 255) \div 100 \in 0..255
    BY <2>1
  <2>3. QED
    BY <2>2 DEF DepthSent, Values
<1>4. <<c>> \in Seq(Adjustments)
  <2>1. c \in Adjustments
    BY <1>3, AreOrders
  <2> HIDE DEF c
  <2>2. QED
    BY <2>1, ShortSeqs
<1> HIDE DEF n
<1>5. ASSUME Hears(set)
      PROVE  /\ set' \in Radios
             /\ set'.mode = set.mode /\ set'.ATT = set.ATT /\ set'.PRE = set.PRE
             /\ ResentAgree /\ NotchAgrees =>
                  (ResentAgree' /\ NotchAgrees') \/ OverAutomatic \/ WidthForgotten
  <2>1. set' = [set EXCEPT !.level = DepthSent(v)] /\ set' \in Radios
    <3>1. set' = Does(set, Command("level", DepthSent(v)))
      BY <1>1, GetsOne
    <3>2. QED
      BY <1>3, <1>5, <3>1, DoesLevel
  <2>2. /\ set'.mode = set.mode /\ set'.ATT = set.ATT /\ set'.PRE = set.PRE
        /\ set'.NR = set.NR /\ set'.agc = set.agc /\ set'.width = set.width
        /\ set'.notch = set.notch /\ set'.shift = set.shift
        /\ set'.level = DepthSent(v)
    BY <2>1 DEF Radios
  <2>3. AgcSent(n) = AgcSent(shown)
    BY <1>2 DEF AgcSent
  <2>4. QED
    BY <1>1, <1>2, <2>1, <2>2, <2>3 DEF ResentAgree, NotchAgrees
<1> HIDE DEF c
<1>6. QED
  BY <1>1, <1>2, <1>4, <1>5, AdjustmentKeeps

\* setNotch.
LEMMA MoveNotchKeeps ==
    ASSUME shown \in Panels, set \in Radios, NEW v \in Offsets, MoveNotch(v)
    PROVE  Kept
<1> DEFINE n == [shown EXCEPT !.notch = v]
           c == Command("notch", v)
<1>1. shown' = n /\ set' = Gets(set, <<c>>) /\ ~shown.Notch
  BY DEF MoveNotch, Move, Send, Gets
<1>2. /\ n \in Panels /\ n.mode = shown.mode /\ n.ATT = shown.ATT /\ n.PRE = shown.PRE
      /\ n.NR = shown.NR /\ n.Notch = shown.Notch /\ n.level = shown.level
      /\ n.width = shown.width /\ n.depth = shown.depth /\ n.speed = shown.speed
      /\ n.shift = shown.shift /\ n.notch = v
  BY DEF Panels
<1>3. v \in Offsets /\ v \in Values
  BY DEF Values, Offsets
<1>4. <<c>> \in Seq(Adjustments)
  <2>1. c \in Adjustments
    BY <1>3, AreOrders
  <2> HIDE DEF c
  <2>2. QED
    BY <2>1, ShortSeqs
<1> HIDE DEF n
<1>5. ASSUME Hears(set)
      PROVE  /\ set' \in Radios
             /\ set'.mode = set.mode /\ set'.ATT = set.ATT /\ set'.PRE = set.PRE
             /\ ResentAgree /\ NotchAgrees =>
                  (ResentAgree' /\ NotchAgrees') \/ OverAutomatic \/ WidthForgotten
  <2>1. set' = [set EXCEPT !.notch = v] /\ set' \in Radios
    <3>1. set' = Does(set, Command("notch", v))
      BY <1>1, GetsOne
    <3>2. QED
      BY <1>3, <1>5, <3>1, DoesNotch
  <2>2. /\ set'.mode = set.mode /\ set'.ATT = set.ATT /\ set'.PRE = set.PRE
        /\ set'.NR = set.NR /\ set'.level = set.level /\ set'.agc = set.agc
        /\ set'.width = set.width /\ set'.shift = set.shift
        /\ set'.notch = v
    BY <2>1 DEF Radios
  <2>3. AgcSent(n) = AgcSent(shown)
    BY <1>2 DEF AgcSent
  <2>4. QED
    BY <1>1, <1>2, <2>1, <2>2, <2>3 DEF ResentAgree, NotchAgrees
<1> HIDE DEF c
<1>6. QED
  BY <1>1, <1>2, <1>4, <1>5, AdjustmentKeeps

\* setNotchWidth: with the automatic notch a width ends it in the radio alone.
LEMMA SelectWidthKeeps ==
    ASSUME shown \in Panels, set \in Radios, NEW w \in NotchWidths, SelectWidth(w)
    PROVE  Kept
<1> DEFINE n == [shown EXCEPT !.width = w]
           c == Command("width", w)
<1>1. shown' = n /\ set' = Gets(set, <<c>>)
  BY DEF SelectWidth, Send, Gets
<1>2. /\ n \in Panels /\ n.mode = shown.mode /\ n.ATT = shown.ATT /\ n.PRE = shown.PRE
      /\ n.NR = shown.NR /\ n.Notch = shown.Notch /\ n.level = shown.level
      /\ n.notch = shown.notch /\ n.depth = shown.depth /\ n.speed = shown.speed
      /\ n.shift = shown.shift /\ n.width = w
  BY DEF Panels
<1>3. w \in NotchWidths \cup {Automatic, Nothing} /\ w \in Values
  BY DEF Values, NotchWidths
<1>4. <<c>> \in Seq(Adjustments)
  <2>1. c \in Adjustments
    BY <1>3, AreOrders
  <2> HIDE DEF c
  <2>2. QED
    BY <2>1, ShortSeqs
<1> HIDE DEF n
<1>5. ASSUME Hears(set)
      PROVE  /\ set' \in Radios
             /\ set'.mode = set.mode /\ set'.ATT = set.ATT /\ set'.PRE = set.PRE
             /\ ResentAgree /\ NotchAgrees =>
                  (ResentAgree' /\ NotchAgrees') \/ OverAutomatic \/ WidthForgotten
  <2>1. set' = [set EXCEPT !.width = w] /\ set' \in Radios
    <3>1. set' = Does(set, Command("width", w))
      BY <1>1, GetsOne
    <3>2. /\ Does(set, Command("width", w)) =
                 IF w = Nothing THEN set ELSE [set EXCEPT !.width = w]
          /\ w # Nothing => [set EXCEPT !.width = w] \in Radios
      BY <1>3, <1>5, DoesWidth
    <3>3. w # Nothing
      BY DEF NotchWidths, Nothing
    <3>4. QED
      BY <3>1, <3>2, <3>3
  <2>2. /\ set'.mode = set.mode /\ set'.ATT = set.ATT /\ set'.PRE = set.PRE
        /\ set'.NR = set.NR /\ set'.level = set.level /\ set'.agc = set.agc
        /\ set'.notch = set.notch /\ set'.shift = set.shift
        /\ set'.width = w
    BY <2>1 DEF Radios
  <2>3. AgcSent(n) = AgcSent(shown)
    BY <1>2 DEF AgcSent
  <2>4. shown.Notch => OverAutomatic
    BY DEF OverAutomatic
  <2>5. ~shown.Notch /\ ResentAgree /\ NotchAgrees => ResentAgree' /\ NotchAgrees'
    BY <1>1, <1>2, <2>2, <2>3 DEF ResentAgree, NotchAgrees
  <2>6. QED
    BY <2>1, <2>2, <2>4, <2>5
<1> HIDE DEF c
<1>6. QED
  BY <1>1, <1>2, <1>4, <1>5, AdjustmentKeeps

\* cbsldrAgcSpeed.
LEMMA MoveSpeedKeeps ==
    ASSUME shown \in Panels, set \in Radios, NEW v \in Speeds, MoveSpeed(v)
    PROVE  Kept
<1> DEFINE n == [shown EXCEPT !.speed = v]
           c == Command("agc", AgcSent(n))
<1>1. shown' = n /\ set' = Gets(set, <<c>>)
  BY DEF MoveSpeed, Move, Send, Gets
<1>2. /\ n \in Panels /\ n.mode = shown.mode /\ n.ATT = shown.ATT /\ n.PRE = shown.PRE
      /\ n.NR = shown.NR /\ n.Notch = shown.Notch /\ n.level = shown.level
      /\ n.notch = shown.notch /\ n.depth = shown.depth /\ n.width = shown.width
      /\ n.shift = shown.shift
  BY DEF Panels
<1>3. AgcSent(n) \in 0..255 /\ AgcSent(n) \in Values
  BY <1>2, SentInRange DEF Values
<1>4. <<c>> \in Seq(Adjustments)
  <2>1. c \in Adjustments
    BY <1>3, AreOrders
  <2> HIDE DEF c
  <2>2. QED
    BY <2>1, ShortSeqs
<1> HIDE DEF n
<1>5. ASSUME Hears(set)
      PROVE  /\ set' \in Radios
             /\ set'.mode = set.mode /\ set'.ATT = set.ATT /\ set'.PRE = set.PRE
             /\ ResentAgree /\ NotchAgrees =>
                  (ResentAgree' /\ NotchAgrees') \/ OverAutomatic \/ WidthForgotten
  <2>1. set' = [set EXCEPT !.agc = AgcSent(n)] /\ set' \in Radios
    <3>1. set' = Does(set, Command("agc", AgcSent(n)))
      BY <1>1, GetsOne
    <3>2. QED
      BY <1>3, <1>5, <3>1, DoesAgc
  <2>2. /\ set'.mode = set.mode /\ set'.ATT = set.ATT /\ set'.PRE = set.PRE
        /\ set'.NR = set.NR /\ set'.level = set.level /\ set'.width = set.width
        /\ set'.notch = set.notch /\ set'.shift = set.shift
        /\ set'.agc = AgcSent(n)
    BY <2>1 DEF Radios
  <2>3. QED
    BY <1>1, <1>2, <2>1, <2>2 DEF ResentAgree, NotchAgrees
<1> HIDE DEF c
<1>6. QED
  BY <1>1, <1>2, <1>4, <1>5, AdjustmentKeeps

\* Attenuator and preamplifier: never both.
LEMMA FrontEndKeeps ==
    ASSUME shown \in Panels, set \in Radios,
           PressFrontEnd("ATT", "PRE") \/ PressFrontEnd("PRE", "ATT")
    PROVE  Kept
<1>0. shown.ATT \in BOOLEAN /\ shown.PRE \in BOOLEAN
  BY DEF Panels
<1>1. ASSUME NEW n \in Panels, shown' = n,
             n.mode = shown.mode, n.NR = shown.NR, n.level = shown.level, n.Notch = shown.Notch,
             n.depth = shown.depth, n.width = shown.width, n.notch = shown.notch,
             n.shift = shown.shift, n.speed = shown.speed,
             set' \in Radios, SameElse(set', set),
             SettingsAgree => set'.ATT = n.ATT /\ set'.PRE = n.PRE /\ ~(set'.ATT /\ set'.PRE)
      PROVE  Kept
  <2>1. AgcSent(n) = AgcSent(shown)
    BY <1>1 DEF AgcSent
  <2>2. ResentAgree => ResentAgree'
    BY <1>1, <2>1 DEF ResentAgree, SameElse
  <2>3. NotchAgrees => NotchAgrees'
    BY <1>1 DEF NotchAgrees, SameElse
  <2>4. SettingsAgree => SettingsAgree'
    BY <1>1, <2>2, <2>3 DEF SettingsAgree, Hears, SameElse
  <2>5. QED
    BY <1>1, <2>4 DEF Kept
<1>2. CASE PressFrontEnd("ATT", "PRE")
  <2> DEFINE n == IF shown.ATT THEN [shown EXCEPT !.ATT = FALSE]
                               ELSE [shown EXCEPT !.ATT = TRUE, !.PRE = FALSE]
  <2>1. shown' = n /\ set' = Gets(set, SendPressed(shown', "ATT", "PRE"))
    BY <1>2 DEF PressFrontEnd, Press, Send, Gets
  <2>2. n \in Panels
    BY DEF Panels
  <2>3. /\ n.mode = shown.mode /\ n.NR = shown.NR /\ n.level = shown.level
        /\ n.Notch = shown.Notch /\ n.depth = shown.depth /\ n.width = shown.width
        /\ n.notch = shown.notch /\ n.shift = shown.shift /\ n.speed = shown.speed
        /\ n.ATT = ~shown.ATT /\ n.PRE = (IF shown.ATT THEN shown.PRE ELSE FALSE)
    BY <1>0 DEF Panels
  <2> HIDE DEF n
  <2>4. set' = Gets(set, SendPressed(n, "ATT", "PRE"))
    BY <2>1
  <2>5. /\ set' \in Radios /\ set'.ATT = n.ATT /\ SameElse(set', set)
        /\ n.ATT = TRUE => set'.PRE = FALSE
        /\ n.ATT = FALSE => set'.PRE = set.PRE
    <3>1. set \in Radios /\ n \in Panels /\ set' = Gets(set, SendPressed(n, "ATT", "PRE"))
      BY <2>2, <2>4
    <3>2. QED
      BY ONLY Zenon, <3>1, ATTGets
  <2>6. SettingsAgree => set'.ATT = n.ATT /\ set'.PRE = n.PRE /\ ~(set'.ATT /\ set'.PRE)
    BY <1>0, <2>3, <2>5 DEF SettingsAgree
  <2>7. QED
    BY <1>1, <2>1, <2>2, <2>3, <2>5, <2>6
<1>3. CASE PressFrontEnd("PRE", "ATT")
  <2> DEFINE n == IF shown.PRE THEN [shown EXCEPT !.PRE = FALSE]
                               ELSE [shown EXCEPT !.PRE = TRUE, !.ATT = FALSE]
  <2>1. shown' = n /\ set' = Gets(set, SendPressed(shown', "PRE", "ATT"))
    BY <1>3 DEF PressFrontEnd, Press, Send, Gets
  <2>2. n \in Panels
    BY DEF Panels
  <2>3. /\ n.mode = shown.mode /\ n.NR = shown.NR /\ n.level = shown.level
        /\ n.Notch = shown.Notch /\ n.depth = shown.depth /\ n.width = shown.width
        /\ n.notch = shown.notch /\ n.shift = shown.shift /\ n.speed = shown.speed
        /\ n.PRE = ~shown.PRE /\ n.ATT = (IF shown.PRE THEN shown.ATT ELSE FALSE)
    BY <1>0 DEF Panels
  <2> HIDE DEF n
  <2>4. set' = Gets(set, SendPressed(n, "PRE", "ATT"))
    BY <2>1
  <2>5. /\ set' \in Radios /\ set'.PRE = n.PRE /\ SameElse(set', set)
        /\ n.PRE = TRUE => set'.ATT = FALSE
        /\ n.PRE = FALSE => set'.ATT = set.ATT
    <3>1. set \in Radios /\ n \in Panels /\ set' = Gets(set, SendPressed(n, "PRE", "ATT"))
      BY <2>2, <2>4
    <3>2. QED
      BY ONLY Zenon, <3>1, PREGets
  <2>6. SettingsAgree => set'.ATT = n.ATT /\ set'.PRE = n.PRE /\ ~(set'.ATT /\ set'.PRE)
    BY <1>0, <2>3, <2>5 DEF SettingsAgree
  <2>7. QED
    BY <1>1, <2>1, <2>2, <2>3, <2>5, <2>6
<1>4. QED
  BY <1>2, <1>3

-----------------------------------------------------------------------------
(* The mode.                                                               *)

\* The command of a mode.
LEMMA ModeOrder ==
    ASSUME NEW m \in RxModes
    PROVE  <<Command("mode", m)>> \in Seq(Orders)
<1> DEFINE c == Command("mode", m)
<1>1. c \in Orders
  BY AreOrders DEF Values
<1> HIDE DEF c
<1>2. <<c>> \in Seq(Orders)
  BY <1>1
<1>3. QED
  BY <1>2 DEF c

\* A mode, and the shift, the shift of t, and noise reduction after it.
LEMMA ResentGets ==
    ASSUME NEW r \in Radios, NEW m \in RxModes, NEW s \in Panels, NEW t \in Panels,
           NEW q, q = Gets(r, <<Command("mode", m)>> \o SendShift(s) \o SendShift(t) \o cbbtnNR(s))
    PROVE  /\ q \in Radios /\ q.mode = ModeAfter(r, m) /\ q.width = r.width
           /\ q.notch = r.notch /\ q.ATT = r.ATT /\ q.PRE = r.PRE
           /\ Hears(q) => /\ q.shift = t.shift /\ q.NR = s.NR /\ q.agc = AgcSent(s)
                          /\ (s.NR => q.level = s.level) /\ (~s.NR => q.level = r.level)
<1> DEFINE p1 == <<Command("mode", m)>>
           p2 == SendShift(s)
           p3 == SendShift(t)
           p4 == cbbtnNR(s)
           cs == p1 \o p2 \o p3 \o p4
<1>1. q = Gets(r, cs)
  OBVIOUS
<1>2. p1 \in Seq(Orders)
  BY ModeOrder
<1>3. p2 \in Seq(Adjustments) /\ p3 \in Seq(Adjustments) /\ p4 \in Seq(Adjustments)
  BY SentIsOrders
<1>4. p2 \in Seq(Orders) /\ p3 \in Seq(Orders) /\ p4 \in Seq(Orders)
  BY <1>3, AllAreOrders
<1> DEFINE r1 == Gets(r, p1)
           r2 == Gets(r1, p2)
           r3 == Gets(r2, p3)
<1>5. q = Gets(r3, p4)
  <2> DEFINE s2 == p1 \o p2
             s3 == s2 \o p3
  <2>1. cs = s3 \o p4
    OBVIOUS
  <2> HIDE DEF p1, p2, p3, p4, cs
  <2>2. s2 \in Seq(Orders) /\ Gets(r, s2) = Gets(Gets(r, p1), p2)
    BY <1>2, <1>4, TwoParts
  <2> HIDE DEF s2
  <2>3. s3 \in Seq(Orders) /\ Gets(r, s3) = Gets(Gets(r, s2), p3)
    BY <1>4, <2>2, TwoParts
  <2> HIDE DEF s3
  <2>4. Gets(r, s3 \o p4) = Gets(Gets(r, s3), p4)
    BY <1>4, <2>3, TwoParts
  <2>5. QED
    BY <1>1, <2>1, <2>2, <2>3, <2>4
<1> DEFINE k == ModeAfter(r, m)
<1>6. r1 = [r EXCEPT !.mode = k] /\ r1 \in Radios
  <2>1. r1 = Does(r, Command("mode", m))
    BY GetsOne
  <2>2. QED
    BY <2>1, DoesMode
<1> HIDE DEF r1, cs, k
<1>7. /\ r1.mode = k /\ r1.width = r.width /\ r1.notch = r.notch /\ r1.level = r.level
      /\ r1.ATT = r.ATT /\ r1.PRE = r.PRE
  BY <1>6 DEF Radios
<1>8. CASE Hears(r1)
  <2>1. r2 = [r1 EXCEPT !.shift = s.shift] /\ r2 \in Radios
    BY <1>6, <1>8, ShiftGets
  <2> HIDE DEF r2
  <2>2. /\ r2.mode = r1.mode /\ r2.width = r1.width /\ r2.notch = r1.notch
        /\ r2.level = r1.level /\ r2.ATT = r1.ATT /\ r2.PRE = r1.PRE
    BY <1>6, <2>1 DEF Radios
  <2>3. Hears(r2)
    BY <1>8, <2>2 DEF Hears
  <2>4. r3 = [r2 EXCEPT !.shift = t.shift] /\ r3 \in Radios
    BY <2>1, <2>3, ShiftGets
  <2> HIDE DEF r3
  <2>5. /\ r3.mode = r2.mode /\ r3.width = r2.width /\ r3.notch = r2.notch
        /\ r3.level = r2.level /\ r3.ATT = r2.ATT /\ r3.PRE = r2.PRE /\ r3.shift = t.shift
    BY <2>1, <2>4 DEF Radios
  <2>6. Hears(r3)
    BY <2>3, <2>5 DEF Hears
  <2>7. /\ q \in Radios
        /\ q.NR = s.NR /\ (s.NR => q.level = s.level) /\ (~s.NR => q.level = r3.level)
        /\ q.agc = AgcSent(s)
        /\ q.mode = r3.mode /\ q.width = r3.width /\ q.notch = r3.notch /\ q.shift = r3.shift
        /\ q.ATT = r3.ATT /\ q.PRE = r3.PRE
    <3>1. r3 \in Radios /\ Hears(r3) /\ s \in Panels /\ q = Gets(r3, cbbtnNR(s))
      BY <1>5, <2>4, <2>6
    <3>2. QED
      BY ONLY <3>1, NRGets
  <2>8. QED
    BY <1>7, <2>2, <2>5, <2>7 DEF k
<1>9. CASE ~Hears(r1)
  <2>1. r2 = r1
    BY <1>3, <1>9, GetsNothing
  <2>2. r3 = r1
    BY <1>3, <1>9, <2>1, GetsNothing
  <2>3. q = r1
    BY <1>3, <1>5, <1>9, <2>2, GetsNothing
  <2>4. QED
    BY <1>6, <1>7, <1>9, <2>3 DEF k
<1>10. QED
  BY <1>8, <1>9

\* The choice of a new mode.
LEMMA NewModeDoes ==
    ASSUME shown \in Panels, set \in Radios, NEW m \in RxModes, ChooseNewMode(m)
    PROVE  /\ shown' \in Panels /\ shown'.mode = m /\ shown'.Notch = shown.Notch
           /\ shown'.depth = shown.depth /\ shown'.width = shown.width
           /\ shown'.notch = shown.notch /\ shown'.ATT = shown.ATT /\ shown'.PRE = shown.PRE
           /\ set' \in Radios /\ set'.mode = ModeAfter(set, m) /\ set'.width = set.width
           /\ set'.notch = set.notch /\ set'.ATT = set.ATT /\ set'.PRE = set.PRE
           /\ Hears(set') => ResentAgree' /\ (~shown.NR => set'.level = set.level)
<1> DEFINE s == [shown EXCEPT !.mode = m]
           t == Centred(s)
<1>1. shown' = t
  BY DEF ChooseNewMode, ChangeGroups
<1>2. set' = Gets(set, <<Command("mode", m)>> \o SendShift(s) \o SendShift(shown') \o cbbtnNR(s))
  BY DEF ChooseNewMode, Send, Gets
<1>3. /\ s \in Panels /\ s.mode = m /\ s.Notch = shown.Notch /\ s.depth = shown.depth
      /\ s.width = shown.width /\ s.notch = shown.notch /\ s.ATT = shown.ATT
      /\ s.PRE = shown.PRE /\ s.NR = shown.NR
  BY DEF Panels
<1> HIDE DEF s
<1>4. /\ t \in Panels /\ t.mode = s.mode /\ t.NR = s.NR /\ t.level = s.level /\ t.Notch = s.Notch
      /\ t.depth = s.depth /\ t.width = s.width /\ t.notch = s.notch
      /\ t.ATT = s.ATT /\ t.PRE = s.PRE /\ AgcSent(t) = AgcSent(s)
  BY <1>3, CentredIs
<1> HIDE DEF t
<1>5. set' = Gets(set, <<Command("mode", m)>> \o SendShift(s) \o SendShift(t) \o cbbtnNR(s))
  BY <1>1, <1>2
<1>6. /\ set' \in Radios /\ set'.mode = ModeAfter(set, m) /\ set'.width = set.width
      /\ set'.notch = set.notch /\ set'.ATT = set.ATT /\ set'.PRE = set.PRE
      /\ Hears(set') => /\ set'.shift = t.shift /\ set'.NR = s.NR /\ set'.agc = AgcSent(s)
                        /\ (s.NR => set'.level = s.level) /\ (~s.NR => set'.level = set.level)
  <2>1. /\ set \in Radios /\ m \in RxModes /\ s \in Panels /\ t \in Panels
        /\ set' = Gets(set, <<Command("mode", m)>> \o SendShift(s) \o SendShift(t) \o cbbtnNR(s))
    BY <1>3, <1>4, <1>5
  <2>2. QED
    BY ONLY <2>1, ResentGets
<1>7. Hears(set') => ResentAgree'
  BY <1>1, <1>4, <1>6 DEF ResentAgree
<1>8. QED
  BY <1>1, <1>3, <1>4, <1>6, <1>7

\* A mode that is shown and sent is taken, or refused on the air.
LEMMA ModeTaken ==
    ASSUME SettingsAgree, NEW m, shown'.mode = m
    PROVE  ModeAfter(set, m) = m \/ ModeRefused
<1>1. CASE Transmits(set) /\ m # shown.mode
  BY <1>1 DEF ModeRefused
<1>2. CASE Transmits(set) /\ m = shown.mode
  BY <1>2 DEF ModeAfter, SettingsAgree
<1>3. CASE ~Transmits(set)
  BY <1>3 DEF ModeAfter
<1>4. QED
  BY <1>1, <1>2, <1>3

\* setMode with a new mode: with automatic notch and noise reduction it sends the level.
LEMMA NewModeKeeps ==
    ASSUME shown \in Panels, set \in Radios, NEW m \in RxModes, ChooseNewMode(m)
    PROVE  Kept
<1>1. /\ shown' \in Panels /\ shown'.mode = m /\ shown'.Notch = shown.Notch
      /\ shown'.depth = shown.depth /\ shown'.width = shown.width
      /\ shown'.notch = shown.notch /\ shown'.ATT = shown.ATT /\ shown'.PRE = shown.PRE
      /\ set' \in Radios /\ set'.mode = ModeAfter(set, m) /\ set'.width = set.width
      /\ set'.notch = set.notch /\ set'.ATT = set.ATT /\ set'.PRE = set.PRE
      /\ Hears(set') => ResentAgree' /\ (~shown.NR => set'.level = set.level)
  BY NewModeDoes
<1>2. shown.Notch /\ shown.NR => OverAutomatic
  BY DEF OverAutomatic
<1>3. Hears(set') /\ NotchAgrees /\ ~(shown.Notch /\ shown.NR) => NotchAgrees'
  BY <1>1 DEF NotchAgrees
<1>4. SettingsAgree /\ ~(shown.Notch /\ shown.NR) /\ ~(~Hears(set) /\ Hears(set'))
         => SettingsAgree' \/ ModeRefused
  <2>1. SettingsAgree => ModeAfter(set, m) = m \/ ModeRefused
    BY <1>1, ModeTaken
  <2>2. QED
    BY <1>1, <1>3, <2>1 DEF SettingsAgree
<1>5. QED
  BY <1>1, <1>2, <1>4 DEF Kept

\* Mode m is shown and sent, with or without the shift; k is what the radio is left in.
LEMMA ModeKeeps ==
    ASSUME shown \in Panels, set \in Radios, NEW m \in RxModes, NEW k \in RxModes,
           NEW r1 \in Radios, r1 = [set EXCEPT !.mode = k],
           SettingsAgree => k = m \/ ModeRefused,
           shown' = [shown EXCEPT !.mode = m],
           set' = r1 \/ set' = Gets(r1, SendShift(shown))
    PROVE  Kept
<1> DEFINE n == [shown EXCEPT !.mode = m]
<1>1. /\ n \in Panels /\ n.mode = m /\ n.NR = shown.NR /\ n.level = shown.level
      /\ n.Notch = shown.Notch /\ n.depth = shown.depth /\ n.width = shown.width
      /\ n.notch = shown.notch /\ n.shift = shown.shift /\ n.speed = shown.speed
      /\ n.ATT = shown.ATT /\ n.PRE = shown.PRE
  BY DEF Panels
<1>2. r1 \in Radios
  OBVIOUS
<1>3. /\ r1.mode = k /\ r1.NR = set.NR /\ r1.level = set.level /\ r1.agc = set.agc
      /\ r1.width = set.width /\ r1.notch = set.notch /\ r1.shift = set.shift
      /\ r1.ATT = set.ATT /\ r1.PRE = set.PRE
  BY DEF Radios
<1>4. shown' = n
  OBVIOUS
<1> HIDE DEF n
<1>5. set' = r1 \/ set' = Gets(r1, SendShift(shown))
  OBVIOUS
<1>6. /\ set' \in Radios
      /\ set'.mode = k /\ set'.NR = set.NR /\ set'.level = set.level /\ set'.agc = set.agc
      /\ set'.width = set.width /\ set'.notch = set.notch
      /\ set'.ATT = set.ATT /\ set'.PRE = set.PRE
      /\ set'.shift \in {set.shift, shown.shift}
  <2>1. CASE set' = r1
    BY <1>2, <1>3, <2>1
  <2>2. CASE set' = Gets(r1, SendShift(shown)) /\ Hears(r1)
    <3>1. set' = [r1 EXCEPT !.shift = shown.shift] /\ set' \in Radios
      BY <1>2, <2>2, ShiftGets
    <3>2. QED
      BY <1>2, <1>3, <3>1 DEF Radios
  <2>3. CASE set' = Gets(r1, SendShift(shown)) /\ ~Hears(r1)
    <3>1. SendShift(shown) \in Seq(Adjustments)
      BY SentIsOrders
    <3>2. set' = r1
      BY <2>3, <3>1, GetsNothing
    <3>3. QED
      BY <1>2, <1>3, <3>2
  <2>4. QED
    BY <1>5, <2>1, <2>2, <2>3
<1>7. AgcSent(n) = AgcSent(shown)
  BY <1>1 DEF AgcSent
<1>8. ResentAgree => ResentAgree'
  BY <1>1, <1>4, <1>6, <1>7 DEF ResentAgree
<1>9. NotchAgrees => NotchAgrees'
  BY <1>1, <1>4, <1>6 DEF NotchAgrees
<1>10. SettingsAgree /\ ~(~Hears(set) /\ Hears(set')) => SettingsAgree' \/ ModeRefused
  BY <1>1, <1>4, <1>6, <1>8, <1>9 DEF SettingsAgree
<1>11. QED
  BY <1>1, <1>4, <1>6, <1>10 DEF Kept

\* The mode of the VFO chosen again.
LEMMA SameModeKeeps ==
    ASSUME shown \in Panels, set \in Radios, NEW m \in RxModes, ChooseSameMode(m)
    PROVE  Kept
<1> DEFINE k == ModeAfter(set, m)
           r1 == [set EXCEPT !.mode = k]
           a == <<Command("mode", m)>>
           b == SendShift(shown)
<1>1. /\ shown' = [shown EXCEPT !.mode = m] /\ set' = Gets(set, a \o b)
  BY DEF ChooseSameMode, Send, Gets
<1>2. Gets(set, a) = r1 /\ r1 \in Radios /\ k \in RxModes
  BY GetsOne, DoesMode
<1>3. shown'.mode = m
  BY <1>1 DEF Panels
<1>4. SettingsAgree => k = m \/ ModeRefused
  BY <1>3, ModeTaken
<1>5. a \in Seq(Orders)
  BY ModeOrder
<1>6. b \in Seq(Orders)
  BY SentIsOrders, AllAreOrders
<1> HIDE DEF a, k, r1
<1>7. Gets(set, a \o b) = Gets(Gets(set, a), b)
  BY <1>5, <1>6, TwoParts
<1>8. set' = Gets(r1, SendShift(shown))
  BY <1>1, <1>2, <1>7
<1>9. r1 = [set EXCEPT !.mode = k]
  BY DEF r1
<1>10. QED
  BY <1>1, <1>2, <1>4, <1>8, <1>9, ModeKeeps

\* The mode of a VFO, after that of the one that transmitted.
LEMMA VfoModeKeeps ==
    ASSUME shown \in Panels, set \in Radios, NEW first \in RxModes, NEW m \in RxModes,
           VfoMode(first, m)
    PROVE  Kept
<1>1. /\ shown' = [shown EXCEPT !.mode = m] /\ first \in {imode, m}
      /\ set' = Gets(set, <<Command("mode", first), Command("mode", m)>>)
  BY DEF VfoMode, Send, Gets
<1>2. PICK k \in RxModes : LeftIn(set, first, m, k)
  BY TwoModes
<1>3. shown'.mode = m
  BY <1>1 DEF Panels
<1>4. ASSUME SettingsAgree PROVE k = m \/ ModeRefused
  <2>1. CASE Transmits(set)
    BY <1>2, <1>3, <1>4, <2>1 DEF LeftIn, ModeRefused, SettingsAgree
  <2>2. CASE ~Transmits(set) /\ k # m
    <3>1. set.carrier /\ imode = "CW" /\ VfoMode("CW", m)
      BY <1>1, <1>2, <2>2 DEF LeftIn
    <3>2. QED
      BY <3>1 DEF ModeRefused
  <2>3. QED
    BY <2>1, <2>2
<1> DEFINE r1 == [set EXCEPT !.mode = k]
<1>5. set' = r1 /\ r1 \in Radios
  BY <1>1, <1>2 DEF LeftIn
<1>6. QED
  BY <1>1, <1>4, <1>5, ModeKeeps

-----------------------------------------------------------------------------
(* Calibration, another port and the start of the program.                 *)

\* What the widgets show and the radio has got after initXcvrState or a start.
LEMMA RestoredAgrees ==
    ASSUME NEW s \in Panels, s.Notch = FALSE, shown' = Centred(s),
           set' \in Radios, set'.mode = s.mode, set'.PRE = s.PRE,
           set'.ATT = (IF s.PRE THEN FALSE ELSE s.ATT), ~(s.ATT /\ s.PRE),
           Hears(set') =>
             /\ set'.NR = s.NR /\ (s.NR => set'.level = s.level) /\ set'.agc = AgcSent(s)
             /\ set'.shift = Centred(s).shift
             /\ (s.width # Nothing => set'.width = s.width) /\ set'.notch = s.notch
    PROVE  SettingsAgree' \/ WidthForgotten
<1> DEFINE t == Centred(s)
<1>0. s.ATT \in BOOLEAN /\ s.PRE \in BOOLEAN
  BY DEF Panels
<1>1. /\ t \in Panels /\ t.mode = s.mode /\ t.NR = s.NR /\ t.level = s.level /\ t.Notch = s.Notch
      /\ t.width = s.width /\ t.notch = s.notch
      /\ t.ATT = s.ATT /\ t.PRE = s.PRE /\ AgcSent(t) = AgcSent(s)
  BY CentredIs
<1>2. shown' = t
  OBVIOUS
<1>3. Hears(set') => set'.shift = t.shift
  OBVIOUS
<1> HIDE DEF t
<1>4. CASE s.width = Nothing
  BY <1>1, <1>2, <1>4 DEF WidthForgotten
<1>5. CASE s.width # Nothing
  <2>1. Hears(set') => ResentAgree'
    BY <1>1, <1>2, <1>3 DEF ResentAgree
  <2>2. Hears(set') => NotchAgrees'
    BY <1>1, <1>2, <1>5 DEF NotchAgrees
  <2>3. set'.mode = shown'.mode
    BY <1>1, <1>2
  <2>4. set'.ATT = shown'.ATT /\ set'.PRE = shown'.PRE /\ ~(set'.ATT /\ set'.PRE)
    BY <1>0, <1>1, <1>2
  <2>5. QED
    BY <2>1, <2>2, <2>3, <2>4 DEF SettingsAgree
<1>6. QED
  BY <1>4, <1>5

\* The end of the calibration.
LEMMA CalFinishedKeeps ==
    ASSUME shown \in Panels, set \in Radios, startMode \in RxModes, cbCalFinished
    PROVE  Kept
<1> DEFINE w == IF NOTCHWIDTH \in NotchWidths THEN NOTCHWIDTH ELSE shown.width
           s == [shown EXCEPT !.Notch = FALSE, !.mode = startMode, !.width = w]
<1>1. startMode' = startMode
  BY DEF cbCalFinished
<1>2. RestoredWidgets(shown) = s
  BY <1>1 DEF RestoredWidgets
<1>3. shown' = Centred(RestoredWidgets(shown)) /\ set' = Gets(set, SendAll(RestoredWidgets(shown)) \o <<>>)
  BY DEF cbCalFinished, initXcvrState, Send, Gets
<1>4. /\ s \in Panels /\ s.Notch = FALSE /\ s.mode = startMode /\ s.ATT = shown.ATT
      /\ s.PRE = shown.PRE
  <2>1. w \in NotchWidths \cup {Nothing}
    BY DEF Panels
  <2> HIDE DEF w
  <2>2. QED
    BY <2>1 DEF Panels
<1> HIDE DEF s
<1>5. shown' = Centred(s) /\ set' = Gets(set, SendAll(s) \o <<>>)
  BY <1>2, <1>3
<1> DEFINE q == Gets(set, SendAll(s))
<1>6. /\ q \in Radios /\ SendAll(s) \in Seq(Orders)
      /\ q.mode = set.mode /\ q.PRE = s.PRE /\ q.ATT = (IF s.PRE THEN FALSE ELSE s.ATT)
      /\ Hears(set) => /\ q.NR = s.NR /\ (s.NR => q.level = s.level) /\ q.agc = AgcSent(s)
                       /\ q.shift = Centred(s).shift
                       /\ (s.width # Nothing => q.width = s.width) /\ q.notch = s.notch
  BY <1>4, SendAllGets
<1>7. set' = q
  <2> DEFINE cs == SendAll(s)
             e == <<>>
  <2>1. cs \in Seq(Orders) /\ e \in Seq(Orders)
    BY <1>6
  <2>2. Gets(q, e) = q
    BY GetsOne
  <2>3. set' = Gets(set, cs \o e) /\ q = Gets(set, cs)
    BY <1>5
  <2> HIDE DEF cs, e, q
  <2>4. Gets(set, cs \o e) = Gets(Gets(set, cs), e)
    BY <2>1, TwoParts
  <2>5. QED
    BY <2>2, <2>3, <2>4
<1>8. shown' \in Panels
  BY <1>4, <1>5, CentredIs
<1> HIDE DEF q
<1>9. CASE set.mode # startMode
  <2>1. ModeNotSent
    BY <1>9 DEF ModeNotSent
  <2>2. QED
    BY <1>6, <1>7, <1>8, <2>1 DEF Kept
<1>10. CASE set.mode = startMode
  <2>1. ASSUME SettingsAgree PROVE SettingsAgree' \/ WidthForgotten
    <3>1. ~(s.ATT /\ s.PRE)
      BY <1>4, <2>1 DEF SettingsAgree
    <3>2. Hears(q) => Hears(set)
      BY <1>6 DEF Hears
    <3>3. QED
      BY <1>4, <1>5, <1>6, <1>7, <1>10, <3>1, <3>2, RestoredAgrees
  <2>2. QED
    BY <1>6, <1>7, <1>8, <2>1 DEF Kept
<1>11. QED
  BY <1>9, <1>10

\* Another port.
LEMMA OkCommsDialogKeeps ==
    ASSUME shown \in Panels, set \in Radios, startMode \in RxModes,
           NEW first \in RxModes, cbOkCommsDialog(first)
    PROVE  Kept
<1> DEFINE w == IF NOTCHWIDTH \in NotchWidths THEN NOTCHWIDTH ELSE shown.width
           s == [shown EXCEPT !.Notch = FALSE, !.mode = startMode, !.width = w]
           c == <<Command("mode", first), Command("mode", startMode)>>
<1>1. startMode' = startMode
  BY DEF cbOkCommsDialog
<1>2. RestoredWidgets(shown) = s
  BY <1>1 DEF RestoredWidgets
<1>3. /\ shown' = Centred(RestoredWidgets(shown))
      /\ set' = Gets(set, SendAll(RestoredWidgets(shown)) \o c)
  BY DEF cbOkCommsDialog, initXcvrState, Send, Gets
<1>4. /\ s \in Panels /\ s.Notch = FALSE /\ s.mode = startMode /\ s.ATT = shown.ATT
      /\ s.PRE = shown.PRE
  <2>1. w \in NotchWidths \cup {Nothing}
    BY DEF Panels
  <2> HIDE DEF w
  <2>2. QED
    BY <2>1 DEF Panels
<1> HIDE DEF s
<1>5. shown' = Centred(s) /\ set' = Gets(set, SendAll(s) \o c)
  BY <1>2, <1>3
<1> DEFINE r1 == Gets(set, SendAll(s))
<1>6. /\ r1 \in Radios /\ SendAll(s) \in Seq(Orders)
      /\ r1.mode = set.mode /\ r1.PRE = s.PRE /\ r1.ATT = (IF s.PRE THEN FALSE ELSE s.ATT)
      /\ Hears(set) => /\ r1.NR = s.NR /\ (s.NR => r1.level = s.level) /\ r1.agc = AgcSent(s)
                       /\ r1.shift = Centred(s).shift
                       /\ (s.width # Nothing => r1.width = s.width) /\ r1.notch = s.notch
  BY <1>4, SendAllGets
<1>7. PICK k \in RxModes :
        /\ set' = [r1 EXCEPT !.mode = k] /\ set' \in Radios
        /\ Transmits(r1) => k = r1.mode
        /\ ~Transmits(r1) /\ k # startMode => r1.carrier /\ first = "CW" /\ first # startMode
  <2> DEFINE cs == SendAll(s)
  <2>1. cs \in Seq(Orders) /\ c \in Seq(Orders)
    <3>1. Command("mode", first) \in Orders /\ Command("mode", startMode) \in Orders
      BY AreOrders DEF Values
    <3>2. QED
      BY <1>6, <3>1, ShortSeqs
  <2>2. set' = Gets(set, cs \o c) /\ r1 = Gets(set, cs)
    BY <1>5
  <2>3. PICK k \in RxModes : LeftIn(r1, first, startMode, k)
    BY <1>6, TwoModes
  <2>4. /\ Gets(r1, c) = [r1 EXCEPT !.mode = k] /\ [r1 EXCEPT !.mode = k] \in Radios
        /\ Transmits(r1) => k = r1.mode
        /\ ~Transmits(r1) /\ k # startMode => r1.carrier /\ first = "CW" /\ first # startMode
    BY <2>3 DEF LeftIn
  <2> HIDE DEF cs, c, r1
  <2>5. Gets(set, cs \o c) = Gets(Gets(set, cs), c)
    BY <2>1, TwoParts
  <2>6. set' = [r1 EXCEPT !.mode = k]
    BY <2>2, <2>4, <2>5
  <2>7. QED
    BY <2>3, <2>4, <2>6
<1>8. shown' \in Panels
  BY <1>4, <1>5, CentredIs
<1>9. (Transmits(r1) <=> Transmits(set)) /\ r1.carrier = set.carrier
  BY <1>6, GetsKeepsKey, SameModeAfter
<1> HIDE DEF r1, c
<1>10. /\ set'.mode = k /\ set'.PRE = r1.PRE /\ set'.ATT = r1.ATT /\ set'.NR = r1.NR
      /\ set'.level = r1.level /\ set'.agc = r1.agc /\ set'.shift = r1.shift
      /\ set'.width = r1.width /\ set'.notch = r1.notch
  <2>1. r1 \in Radios /\ set' = [r1 EXCEPT !.mode = k]
    BY <1>6, <1>7
  <2>2. QED
    BY ONLY <2>1 DEF Radios
<1>11. ASSUME SettingsAgree, ~(~Hears(set) /\ Hears(set'))
       PROVE  SettingsAgree' \/ WidthForgotten \/ ModeRefused
  <2>1. ~(s.ATT /\ s.PRE)
    BY <1>4, <1>11 DEF SettingsAgree
  <2>2. Hears(set') =>
          /\ set'.NR = s.NR /\ (s.NR => set'.level = s.level) /\ set'.agc = AgcSent(s)
          /\ set'.shift = Centred(s).shift
          /\ (s.width # Nothing => set'.width = s.width) /\ set'.notch = s.notch
    BY <1>6, <1>10, <1>11
  <2>3. set'.PRE = s.PRE /\ set'.ATT = (IF s.PRE THEN FALSE ELSE s.ATT)
    BY <1>6, <1>10
  <2>4. CASE k = startMode
    BY <1>4, <1>5, <1>7, <1>10, <2>1, <2>2, <2>3, <2>4, RestoredAgrees
  <2>5. CASE k # startMode /\ Transmits(set)
    <3>1. k = shown.mode
      BY <1>6, <1>7, <1>11, <1>9, <2>5 DEF SettingsAgree
    <3>2. shown'.mode = startMode
      BY <1>4, <1>5, CentredIs
    <3>3. QED
      BY <2>5, <3>1, <3>2 DEF ModeRefused
  <2>6. CASE k # startMode /\ ~Transmits(set)
    <3>1. set.carrier /\ cbOkCommsDialog("CW")
      BY <1>7, <1>9, <2>6
    <3>2. QED
      BY <3>1 DEF ModeRefused
  <2>7. QED
    BY <2>4, <2>5, <2>6
<1>12. QED
  BY <1>7, <1>8, <1>11 DEF Kept

\* Notch off, a fast AGC and CW, whatever is shown.
LEMMA CalibrateKeeps ==
    ASSUME shown \in Panels, set \in Radios, checkCalibrate
    PROVE  Kept
<1> DEFINE a == Command("notch", 0)
           b == Command("agc", 0)
           c == Command("mode", "CW")
           r1 == Does(set, a)
           r2 == Does(r1, b)
<1>1. r1 \in Radios
  <2>1. 0 \in Offsets
    BY DEF Offsets
  <2>2. CASE Hears(set)
    BY <2>1, <2>2, DoesNotch
  <2>3. CASE ~Hears(set)
    BY <2>3, DoesNothing
  <2>4. QED
    BY <2>2, <2>3
<1> HIDE DEF r1
<1>2. r2 \in Radios
  <2>1. 0 \in 0..255
    OBVIOUS
  <2>2. CASE Hears(r1)
    BY <1>1, <2>1, <2>2, DoesAgc
  <2>3. CASE ~Hears(r1)
    <3>1. r2 = r1
      BY <2>3, DoesNothing
    <3>2. QED
      BY <1>1, <3>1
  <2>4. QED
    BY <2>2, <2>3
<1> HIDE DEF r2
<1>3. Does(r2, c) \in Radios
  <2>1. "CW" \in RxModes
    BY ReceiverAssumption
  <2>2. QED
    BY <1>2, <2>1, DoesMode
<1>4. a \in Orders /\ b \in Orders /\ c \in Orders
  <2>1. 0 \in Values /\ "CW" \in Values
    BY ReceiverAssumption DEF Values
  <2>2. QED
    BY <2>1, AreOrders
<1>5. set' = Gets(set, <<a, b, c>>) /\ UNCHANGED shown
  BY DEF checkCalibrate, Send, Gets
<1>6. Does(set, a) = r1 /\ Does(r1, b) = r2
  BY DEF r1, r2
<1> HIDE DEF a, b, c
<1>7. Gets(set, <<a, b, c>>) = Does(r2, c)
  <2> DEFINE p == <<a, b>>
             e == <<c>>
  <2>1. p \in Seq(Orders) /\ e \in Seq(Orders)
    BY <1>4, ShortSeqs
  <2>2. <<a, b, c>> = p \o e
    OBVIOUS
  <2>3. Gets(set, p) = r2 /\ Gets(r2, e) = Does(r2, c)
    BY <1>6, GetsTwo, GetsOne
  <2> HIDE DEF p, e
  <2>4. Gets(set, p \o e) = Gets(Gets(set, p), e)
    BY <2>1, TwoParts
  <2>5. QED
    BY <2>2, <2>3, <2>4
<1>8. QED
  BY <1>3, <1>5, <1>7 DEF Kept

\* The scanner: CW, whatever is shown.
LEMMA BeginScanKeeps ==
    ASSUME shown \in Panels, set \in Radios, BeginScan
    PROVE  Kept
<1>1. "CW" \in RxModes
  BY ReceiverAssumption
<1>2. set' = Gets(set, <<Command("mode", "CW")>>) /\ shown' = shown
  BY DEF BeginScan, Send, Gets
<1>3. set' = Does(set, Command("mode", "CW"))
  BY <1>2, GetsOne
<1>4. Does(set, Command("mode", "CW")) \in Radios
  BY <1>1, DoesMode
<1>5. QED
  BY <1>2, <1>3, <1>4 DEF Kept

\* Going on the air and off it.
LEMMA KeyKeeps ==
    ASSUME shown \in Panels, set \in Radios, NEW on \in BOOLEAN, NEW carrier \in BOOLEAN,
           Key(on, carrier)
    PROVE  Kept
<1>1. set' = [set EXCEPT !.keyed = on, !.carrier = carrier] /\ shown' = shown
  BY DEF Key
<1>2. /\ set' \in Radios /\ set'.mode = set.mode /\ set'.NR = set.NR /\ set'.level = set.level
      /\ set'.agc = set.agc /\ set'.width = set.width /\ set'.notch = set.notch
      /\ set'.shift = set.shift /\ set'.ATT = set.ATT /\ set'.PRE = set.PRE
  BY <1>1 DEF Radios
<1>3. SettingsAgree => SettingsAgree'
  BY <1>1, <1>2 DEF SettingsAgree, ResentAgree, NotchAgrees, Hears
<1>4. QED
  BY <1>1, <1>2, <1>3 DEF Kept

\* The mode, the shift of t and noise reduction.
LEMMA StartGets ==
    ASSUME NEW r \in Radios, NEW p \in Seq(Orders), NEW m \in RxModes,
           NEW s \in Panels, NEW t \in Panels, NEW r1 \in Radios, r1 = Gets(r, p),
           NEW q, q = Gets(r, p \o <<Command("mode", m)>> \o SendShift(t) \o cbbtnNR(s))
    PROVE  /\ q \in Radios /\ q.mode = ModeAfter(r1, m) /\ q.width = r1.width
           /\ q.notch = r1.notch /\ q.ATT = r1.ATT /\ q.PRE = r1.PRE
           /\ Hears(q) => /\ q.shift = t.shift /\ q.NR = s.NR /\ q.agc = AgcSent(s)
                          /\ s.NR => q.level = s.level
<1> DEFINE p2 == <<Command("mode", m)>>
           p3 == SendShift(t)
           p4 == cbbtnNR(s)
           r2 == Gets(r1, p2)
           r3 == Gets(r2, p3)
<1>1. p2 \in Seq(Orders)
  BY ModeOrder
<1>2. p3 \in Seq(Adjustments) /\ p4 \in Seq(Adjustments)
  BY SentIsOrders
<1>3. p3 \in Seq(Orders) /\ p4 \in Seq(Orders)
  BY <1>2, AllAreOrders
<1>4. q = Gets(r3, p4)
  <2> DEFINE s2 == p \o p2
             s3 == s2 \o p3
  <2>1. q = Gets(r, s3 \o p4)
    OBVIOUS
  <2> HIDE DEF p2, p3, p4
  <2>2. s2 \in Seq(Orders) /\ Gets(r, s2) = Gets(Gets(r, p), p2)
    BY <1>1, TwoParts
  <2> HIDE DEF s2
  <2>3. s3 \in Seq(Orders) /\ Gets(r, s3) = Gets(Gets(r, s2), p3)
    BY <1>3, <2>2, TwoParts
  <2> HIDE DEF s3
  <2>4. Gets(r, s3 \o p4) = Gets(Gets(r, s3), p4)
    BY <1>3, <2>3, TwoParts
  <2>5. QED
    BY <2>1, <2>2, <2>3, <2>4
<1> DEFINE k == ModeAfter(r1, m)
<1>5. r2 = [r1 EXCEPT !.mode = k] /\ r2 \in Radios
  <2>1. r2 = Does(r1, Command("mode", m))
    BY GetsOne
  <2>2. QED
    BY <2>1, DoesMode
<1> HIDE DEF p2, r2, k
<1>6. /\ r2.mode = k /\ r2.width = r1.width /\ r2.notch = r1.notch
      /\ r2.ATT = r1.ATT /\ r2.PRE = r1.PRE
  BY <1>5 DEF Radios
<1>7. CASE Hears(r2)
  <2>1. r3 = [r2 EXCEPT !.shift = t.shift] /\ r3 \in Radios
    BY <1>5, <1>7, ShiftGets
  <2> HIDE DEF r3
  <2>2. /\ r3.mode = r2.mode /\ r3.width = r2.width /\ r3.notch = r2.notch
        /\ r3.ATT = r2.ATT /\ r3.PRE = r2.PRE /\ r3.shift = t.shift
    BY <1>5, <2>1 DEF Radios
  <2>3. Hears(r3)
    BY <1>7, <2>2 DEF Hears
  <2>4. /\ q \in Radios
        /\ q.NR = s.NR /\ (s.NR => q.level = s.level) /\ q.agc = AgcSent(s)
        /\ q.mode = r3.mode /\ q.width = r3.width /\ q.notch = r3.notch /\ q.shift = r3.shift
        /\ q.ATT = r3.ATT /\ q.PRE = r3.PRE
    <3>1. r3 \in Radios /\ Hears(r3) /\ s \in Panels /\ q = Gets(r3, cbbtnNR(s))
      BY <1>4, <2>1, <2>3
    <3>2. QED
      BY ONLY <3>1, NRGets
  <2>5. QED
    BY <1>6, <2>2, <2>4 DEF k
<1>8. CASE ~Hears(r2)
  <2>1. r3 = r2
    BY <1>2, <1>8, GetsNothing
  <2>2. q = r2
    BY <1>2, <1>4, <1>8, <2>1, GetsNothing
  <2>3. QED
    BY <1>5, <1>6, <1>8, <2>2 DEF k
<1>9. QED
  BY <1>7, <1>8

\* The end of the program and its next start.
LEMMA EndAndStartKeeps ==
    ASSUME shown \in Panels, set \in Radios, NEW m \in RxModes, EndAndStart(m)
    PROVE  Kept
<1> DEFINE w == IF NOTCHWIDTH \in NotchWidths THEN NOTCHWIDTH ELSE Nothing
           p == [shown EXCEPT !.IFsh = FALSE, !.width = Nothing]
           s == [p EXCEPT !.Notch = FALSE, !.mode = m, !.width = w]
           t == Centred(s)
<1>1. startMode' = m
  BY DEF EndAndStart
<1>2. p \in Panels /\ p.width = Nothing /\ p.ATT = shown.ATT /\ p.PRE = shown.PRE
  BY DEF Panels
<1>3. RestoredWidgets(p) = s
  BY <1>1, <1>2 DEF RestoredWidgets
<1>4. /\ shown' = Centred(RestoredWidgets(p))
      /\ set' = Gets(set, SendAll(RestoredWidgets(p)) \o <<Command("mode", m)>> \o SendShift(shown')
                            \o cbbtnNR(RestoredWidgets(p)))
  BY DEF EndAndStart, ChangeGroups, Send, Gets
<1> HIDE DEF p
<1>5. s \in Panels /\ s.Notch = FALSE /\ s.mode = m /\ s.ATT = shown.ATT /\ s.PRE = shown.PRE
  <2>1. w \in NotchWidths \cup {Nothing}
    OBVIOUS
  <2> HIDE DEF w
  <2>2. QED
    BY <1>2, <2>1 DEF Panels
<1> HIDE DEF s
<1>6. /\ shown' = t
      /\ set' = Gets(set, SendAll(s) \o <<Command("mode", m)>> \o SendShift(t) \o cbbtnNR(s))
  BY <1>3, <1>4
<1>7. t \in Panels
  BY <1>5, CentredIs
<1> DEFINE r1 == Gets(set, SendAll(s))
<1>8. /\ r1 \in Radios /\ SendAll(s) \in Seq(Orders)
      /\ r1.mode = set.mode /\ r1.PRE = s.PRE /\ r1.ATT = (IF s.PRE THEN FALSE ELSE s.ATT)
      /\ Hears(set) => /\ r1.NR = s.NR /\ (s.NR => r1.level = s.level) /\ r1.agc = AgcSent(s)
                       /\ r1.shift = Centred(s).shift
                       /\ (s.width # Nothing => r1.width = s.width) /\ r1.notch = s.notch
  BY <1>5, SendAllGets
<1>9. /\ set' \in Radios /\ set'.mode = ModeAfter(set, m) /\ set'.width = r1.width
      /\ set'.notch = r1.notch /\ set'.ATT = r1.ATT /\ set'.PRE = r1.PRE
      /\ Hears(set') => /\ set'.shift = t.shift /\ set'.NR = s.NR /\ set'.agc = AgcSent(s)
                        /\ s.NR => set'.level = s.level
  <2> DEFINE cs == SendAll(s)
  <2>1. /\ set \in Radios /\ cs \in Seq(Orders) /\ m \in RxModes /\ s \in Panels /\ t \in Panels
        /\ r1 \in Radios /\ r1 = Gets(set, cs)
        /\ set' = Gets(set, cs \o <<Command("mode", m)>> \o SendShift(t) \o cbbtnNR(s))
    BY <1>5, <1>6, <1>7, <1>8
  <2>2. ModeAfter(r1, m) = ModeAfter(set, m)
    BY <1>8, SameModeAfter
  <2> HIDE DEF cs, t, r1
  <2>3. /\ set' \in Radios /\ set'.mode = ModeAfter(r1, m) /\ set'.width = r1.width
        /\ set'.notch = r1.notch /\ set'.ATT = r1.ATT /\ set'.PRE = r1.PRE
        /\ Hears(set') => /\ set'.shift = t.shift /\ set'.NR = s.NR /\ set'.agc = AgcSent(s)
                          /\ s.NR => set'.level = s.level
    BY ONLY <2>1, StartGets
  <2>4. QED
    BY <2>2, <2>3
<1>10. Hears(set') => set'.shift = Centred(s).shift
  BY <1>9
<1> HIDE DEF r1
<1>11. ASSUME SettingsAgree, ~(~Hears(set) /\ Hears(set'))
       PROVE  SettingsAgree' \/ WidthForgotten \/ ModeRefused
  <2>1. ~(s.ATT /\ s.PRE)
    BY <1>5, <1>11 DEF SettingsAgree
  <2>2. Hears(set') =>
          /\ set'.NR = s.NR /\ (s.NR => set'.level = s.level) /\ set'.agc = AgcSent(s)
          /\ set'.shift = Centred(s).shift
          /\ (s.width # Nothing => set'.width = s.width) /\ set'.notch = s.notch
    BY <1>8, <1>9, <1>10, <1>11
  <2>3. set'.PRE = s.PRE /\ set'.ATT = (IF s.PRE THEN FALSE ELSE s.ATT)
    BY <1>8, <1>9
  <2>4. shown'.mode = m
    BY <1>5, <1>6, CentredIs
  <2>5. ModeAfter(set, m) = m \/ ModeRefused
    BY <1>11, <2>4, ModeTaken
  <2>6. CASE ModeAfter(set, m) = m
    BY <1>5, <1>6, <1>9, <2>1, <2>2, <2>3, <2>6, RestoredAgrees
  <2>7. QED
    BY <2>5, <2>6
<1>12. QED
  BY <1>6, <1>7, <1>9, <1>11 DEF Kept

-----------------------------------------------------------------------------
(* Every callback.                                                         *)

\* Every callback keeps mode and settings of the radio as shown, or is one that KeepsSettings
\* names.
LEMMA UseKeeps ==
    ASSUME shown \in Panels, set \in Radios, imode \in RxModes,
           startMode \in RxModes, Use
    PROVE  Kept
<1>1. CASE PressNR
  BY <1>1, PressNRKeeps
<1>2. CASE PressNotch
  BY <1>2, PressNotchKeeps
<1>3. CASE PressIFsh
  BY <1>3, PressIFshKeeps
<1>4. CASE \E v \in Levels : MoveLevel(v)
  BY <1>4, MoveLevelKeeps
<1>5. CASE \E v \in Depths : MoveDepth(v)
  BY <1>5, MoveDepthKeeps
<1>6. CASE \E v \in Offsets : MoveNotch(v) \/ MoveShift(v)
  BY <1>6, MoveNotchKeeps, MoveShiftKeeps
<1>7. CASE \E w \in NotchWidths : SelectWidth(w)
  BY <1>7, SelectWidthKeeps
<1>8. CASE \E v \in Speeds : MoveSpeed(v)
  BY <1>8, MoveSpeedKeeps
<1>9. CASE PressFrontEnd("ATT", "PRE") \/ PressFrontEnd("PRE", "ATT")
  BY <1>9, FrontEndKeeps
<1>10. ASSUME NEW m \in RxModes, ChooseNewMode(m) PROVE Kept
  BY <1>10, NewModeKeeps
<1>11. ASSUME NEW m \in RxModes, ChooseSameMode(m) PROVE Kept
  BY <1>11, SameModeKeeps
<1>12. ASSUME DropScan \/ \E m \in RxModes : CopyMode(m) PROVE Kept
  <2>1. shown' = shown /\ set' = set
    BY <1>12 DEF CopyMode, DropScan
  <2>2. SettingsAgree => SettingsAgree'
    BY <2>1 DEF SettingsAgree, ResentAgree, NotchAgrees
  <2>3. QED
    BY <2>1, <2>2 DEF Kept
<1>13. ASSUME NEW m \in RxModes, EndAndStart(m) PROVE Kept
  BY <1>13, EndAndStartKeeps
<1>14. CASE checkCalibrate
  BY <1>14, CalibrateKeeps
<1>15. CASE cbCalFinished
  BY <1>15, CalFinishedKeeps
<1>16. ASSUME NEW m \in RxModes, cbOkCommsDialog(m) PROVE Kept
  BY <1>16, OkCommsDialogKeeps
<1>17. ASSUME NEW first \in RxModes, NEW m \in RxModes, VfoMode(first, m) PROVE Kept
  BY <1>17, VfoModeKeeps
<1>18. ASSUME NEW on \in BOOLEAN, NEW carrier \in BOOLEAN, Key(on, carrier) PROVE Kept
  BY <1>18, KeyKeeps
<1>19. CASE BeginScan
  BY <1>19, BeginScanKeeps
<1>20. CASE FinishScan
  BY <1>17, <1>20 DEF FinishScan
<1>21. CASE Control
  BY <1>1, <1>2, <1>3, <1>4, <1>5, <1>6, <1>7, <1>8, <1>9, <1>10, <1>11, <1>12, <1>14, <1>15,
     <1>16, <1>17, <1>18, <1>21 DEF Control
<1>22. QED
  BY <1>12, <1>13, <1>19, <1>20, <1>21 DEF Use

\* The groups, the modes and the width kept.
LEMMA UseHasTypes ==
    ASSUME shown \in Panels, groups \subseteq {"filters", "NR", "level"},
           {imode, startMode} \subseteq RxModes,
           NOTCHWIDTH \in NotchWidths \cup {Nothing, Automatic}, Use
    PROVE  /\ groups' \subseteq {"filters", "NR", "level"}
           /\ {imode', startMode'} \subseteq RxModes
           /\ NOTCHWIDTH' \in NotchWidths \cup {Nothing, Automatic}
<1> DEFINE Small == /\ groups' \subseteq {"filters", "NR", "level"}
                    /\ {imode', startMode'} \subseteq RxModes
                    /\ NOTCHWIDTH' \in NotchWidths \cup {Nothing, Automatic}
<1>0. shown.width \in NotchWidths \cup {Nothing}
  BY DEF Panels
<1>1. ASSUME NEW g, g \subseteq {"filters", "NR", "level"}, NEW s
      PROVE  WithLevel(g, s) \subseteq {"filters", "NR", "level"}
  BY <1>1 DEF WithLevel
<1>2. ASSUME UNCHANGED <<groups, imode, startMode, NOTCHWIDTH>> PROVE Small
  BY <1>2
<1>3. CASE PressNR
  <2>1. WithLevel(groups, shown') \subseteq {"filters", "NR", "level"}
    BY <1>1
  <2>2. QED
    BY <1>3, <2>1 DEF PressNR
<1>4. CASE PressNotch
  <2>1. WithLevel(groups \cup {"NR"}, shown) \subseteq {"filters", "NR", "level"}
    BY <1>1
  <2>2. QED
    BY <1>0, <1>4, <2>1 DEF PressNotch
<1>5. CASE PressIFsh
  BY <1>2, <1>5 DEF PressIFsh
<1>6. CASE \/ \E v \in Levels : MoveLevel(v)
           \/ \E v \in Depths : MoveDepth(v)
           \/ \E v \in Offsets : MoveNotch(v) \/ MoveShift(v)
           \/ \E v \in Speeds : MoveSpeed(v)
  BY <1>2, <1>6 DEF MoveLevel, MoveDepth, MoveNotch, MoveShift, MoveSpeed, Move
<1>7. CASE \E w \in NotchWidths : SelectWidth(w)
  BY <1>7 DEF SelectWidth
<1>8. CASE PressFrontEnd("ATT", "PRE") \/ PressFrontEnd("PRE", "ATT")
  BY <1>2, <1>8 DEF PressFrontEnd
<1>9. ASSUME NEW m, NEW s, ChangeGroups(m, s)
      PROVE  groups' \subseteq {"filters", "NR", "level"}
  <2> DEFINE g == IF m \in {"AM", "FM"} THEN {} ELSE {"filters", "NR"}
  <2>1. g \subseteq {"filters", "NR", "level"}
    OBVIOUS
  <2>2. groups' = WithLevel(g, s)
    BY <1>9 DEF ChangeGroups
  <2> HIDE DEF g
  <2>3. QED
    BY <1>1, <2>1, <2>2
<1>10. ASSUME NEW m \in RxModes, ChooseNewMode(m) PROVE Small
  BY <1>9, <1>10 DEF ChooseNewMode
<1>11. ASSUME NEW m \in RxModes, ChooseSameMode(m) PROVE Small
  BY <1>2, <1>11 DEF ChooseSameMode
<1>12. ASSUME NEW m \in RxModes, CopyMode(m) \/ \E first \in RxModes : VfoMode(first, m)
       PROVE  Small
  BY <1>12 DEF VfoMode, CopyMode
<1>13. ASSUME NEW p, p.width \in NotchWidths \cup {Nothing},
              p = shown \/ p = [shown EXCEPT !.IFsh = FALSE, !.width = Nothing]
       PROVE  RestoredWidgets(p).width \in NotchWidths \cup {Nothing}
  <2> DEFINE w == IF NOTCHWIDTH \in NotchWidths THEN NOTCHWIDTH ELSE p.width
  <2>1. w \in NotchWidths \cup {Nothing}
    BY <1>13
  <2>2. RestoredWidgets(p) = [p EXCEPT !.Notch = FALSE, !.mode = startMode', !.width = w]
    BY DEF RestoredWidgets
  <2> HIDE DEF w
  <2>3. RestoredWidgets(p).width = w
    BY <1>13, <2>2 DEF Panels
  <2>4. QED
    BY <2>1, <2>3
<1>14. ASSUME NEW m \in RxModes, EndAndStart(m) PROVE Small
  <2> DEFINE p == [shown EXCEPT !.IFsh = FALSE, !.width = Nothing]
  <2>1. p.width \in NotchWidths \cup {Nothing}
    BY DEF Panels
  <2>2. RestoredWidgets(p).width \in NotchWidths \cup {Nothing}
    BY <1>13, <2>1
  <2>3. /\ startMode' = m /\ imode' = m /\ NOTCHWIDTH' = RestoredWidgets(p).width
        /\ ChangeGroups(m, RestoredWidgets(p))
    BY <1>14 DEF EndAndStart
  <2>4. QED
    BY <1>9, <2>2, <2>3
<1>15. CASE checkCalibrate \/ BeginScan \/ DropScan
            \/ \E on, carrier \in BOOLEAN : Key(on, carrier)
  BY <1>2, <1>15 DEF checkCalibrate, BeginScan, DropScan, Key
<1>16. CASE cbCalFinished \/ \E m \in RxModes : cbOkCommsDialog(m)
  <2>1. RestoredWidgets(shown).width \in NotchWidths \cup {Nothing}
    BY <1>0, <1>13
  <2>2. WithLevel(groups \cup {"NR"}, RestoredWidgets(shown)) \subseteq {"filters", "NR", "level"}
    BY <1>1
  <2>3. /\ startMode' = startMode /\ imode' = startMode'
        /\ NOTCHWIDTH' = RestoredWidgets(shown).width
        /\ groups' = WithLevel(groups \cup {"NR"}, RestoredWidgets(shown))
    BY <1>16 DEF cbCalFinished, cbOkCommsDialog, initXcvrState
  <2>4. QED
    BY <2>1, <2>2, <2>3
<1>17. CASE FinishScan
  <2>1. imode \in RxModes
    OBVIOUS
  <2>2. QED
    BY <1>12, <1>17, <2>1 DEF FinishScan
<1>18. CASE Control
  BY <1>3, <1>4, <1>5, <1>6, <1>7, <1>8, <1>10, <1>11, <1>12, <1>15, <1>16, <1>18 DEF Control
<1>19. QED
  BY <1>14, <1>15, <1>17, <1>18 DEF Use

\* Whether the scanner has the receiver is known at every time.
LEMMA UseScans ==
    ASSUME scan \in BOOLEAN, Use
    PROVE  scan' \in BOOLEAN
  BY DEF Use, BeginScan, FinishScan, DropScan, EndAndStart

\* ReceiverTypeOK: the widgets keep to their ranges, and what is worked out from them, as the
\* AGC speed with noise reduction and the depth in parts of 255, to those of the commands.
THEOREM ReceiverTypes == ReceiverSpec => []ReceiverTypeOK
<1>1. ReceiverInit => ReceiverTypeOK
  <2> SUFFICES ASSUME ReceiverInit PROVE ReceiverTypeOK
    OBVIOUS
  <2> USE DEF Offsets, NotchWidths, Automatic, Nothing
  <2>1. shown \in Panels
    BY ReceiverAssumption DEF ReceiverInit, Panels
  <2>2. AgcSent(shown) \in 0..255
    BY <2>1, SentInRange
  <2>3. set \in Radios
    BY <2>2, ReceiverAssumption DEF ReceiverInit, Radios
  <2>4. scan \in BOOLEAN
    BY DEF ReceiverInit
  <2>5. /\ groups \subseteq {"filters", "NR", "level"} /\ {imode, startMode} \subseteq RxModes
        /\ NOTCHWIDTH \in NotchWidths \cup {Nothing, Automatic} /\ uses \in 0..MaxUses
    BY ReceiverAssumption DEF ReceiverInit
  <2>6. QED
    BY <2>1, <2>3, <2>4, <2>5 DEF ReceiverTypeOK, Panels, Radios
<1>2. ReceiverTypeOK /\ [ReceiverNext]_receiverVars => ReceiverTypeOK'
  <2> SUFFICES ASSUME ReceiverTypeOK, [ReceiverNext]_receiverVars PROVE ReceiverTypeOK'
    OBVIOUS
  <2>1. CASE ReceiverNext
    <3>1. /\ shown \in Panels /\ set \in Radios /\ groups \subseteq {"filters", "NR", "level"}
          /\ {imode, startMode} \subseteq RxModes
          /\ NOTCHWIDTH \in NotchWidths \cup {Nothing, Automatic} /\ uses \in 0..MaxUses
          /\ scan \in BOOLEAN
      BY DEF ReceiverTypeOK, Panels, Radios
    <3>2. shown' \in Panels /\ set' \in Radios
      BY <2>1, <3>1, UseKeeps DEF ReceiverNext, Kept
    <3>3. /\ groups' \subseteq {"filters", "NR", "level"}
          /\ {imode', startMode'} \subseteq RxModes
          /\ NOTCHWIDTH' \in NotchWidths \cup {Nothing, Automatic} /\ scan' \in BOOLEAN
      BY <2>1, <3>1, UseHasTypes, UseScans DEF ReceiverNext
    <3>4. uses' \in 0..MaxUses
      BY <2>1, <3>1, ReceiverAssumption DEF ReceiverNext
    <3>5. QED
      BY <3>2, <3>3, <3>4 DEF ReceiverTypeOK, Panels, Radios
  <2>2. CASE UNCHANGED receiverVars
    BY <2>2 DEF receiverVars, ReceiverTypeOK
  <2>3. QED
    BY <2>1, <2>2
<1>3. QED
  BY <1>1, <1>2, PTL DEF ReceiverSpec

\* KeepsSettings: mode and settings of the radio stay those shown through every callback but
\* the ways named in it, for every number of modes and all positions of the widgets.
THEOREM SettingsAreKept == ReceiverSpec => KeepsSettings
<1> DEFINE Part == \/ OverAutomatic \/ OutOfInhibits \/ WidthForgotten
                   \/ checkCalibrate \/ BeginScan \/ ModeNotSent \/ ModeRefused
<1>1. ReceiverTypeOK /\ [ReceiverNext]_receiverVars =>
        [SettingsAgree /\ ~SettingsAgree' => Part]_receiverVars
  <2> SUFFICES ASSUME ReceiverTypeOK, ReceiverNext, SettingsAgree, ~SettingsAgree' PROVE Part
    OBVIOUS
  <2>1. /\ shown \in Panels /\ set \in Radios /\ imode \in RxModes /\ startMode \in RxModes
        /\ Use
    BY DEF ReceiverTypeOK, Panels, Radios, ReceiverNext
  <2>2. Kept
    BY <2>1, UseKeeps
  <2>3. CASE ~Hears(set) /\ Hears(set')
    <3>1. CASE \E m \in RxModes : ChooseNewMode(m)
      <4>1. ResentAgree'
        BY <2>1, <2>3, <3>1, NewModeDoes
      <4>2. QED
        BY <2>3, <4>1 DEF OutOfInhibits
    <3>2. CASE ~ \E m \in RxModes : ChooseNewMode(m)
      BY <2>3, <3>2 DEF OutOfInhibits
    <3>3. QED
      BY <3>1, <3>2
  <2>4. CASE ~(~Hears(set) /\ Hears(set'))
    BY <2>2, <2>4 DEF Kept
  <2>5. QED
    BY <2>3, <2>4
<1>2. QED
  BY <1>1, ReceiverTypes, PTL DEF ReceiverSpec, KeepsSettings
=============================================================================
