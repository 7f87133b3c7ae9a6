------------------------------- MODULE Contest -------------------------------
(***************************************************************************)
(* The contest messages and the logbook.  A function key sends a message,  *)
(* whose tags give the serial number, log the contact at the logbook       *)
(* server and count the serial number up or down.  A contact takes one     *)
(* message or several, and the button Log logs it as well.                 *)
(*                                                                         *)
(* The server comes and goes between any two calls; a call that finds none *)
(* fails.                                                                  *)
(***************************************************************************)
EXTENDS Integers

CONSTANT MaxNbr   \* bound: the serial numbers that are used

ASSUME LogAssumption == MaxNbr \in Nat \ {0}   \* the numbers start at 1

VARIABLES
    serial_nbr,
    station,       \* txt_sta is not empty
    btnConnect, connected,
    btn_log_it,    \* the button is active, and with it btn_dups
    server,        \* the logbook server runs
    given,         \* history: the last number given to the station that is worked, if any
    moved,         \* history: the serial number has been counted or typed since
    record         \* the contact logged last: its number, and given and moved at the time

logVars == <<serial_nbr, station, btnConnect, connected, btn_log_it, server, given, moved, record>>

\* The tags of a message: <#>, <LOG>, and <+> or <->.
Messages == [nbr : BOOLEAN, log : BOOLEAN, step : {-1, 0, 1}]

\* xml_add_record: it tests the connection and then adds the record, and does not look at
\* how that ended.  "g" is what was given to the station, and "m" whether the number has moved.
xml_add_record(n, g, m) ==
    IF ~connected \/ ~station
    THEN UNCHANGED <<btnConnect, btn_log_it, record>>
    ELSE IF ~server
    THEN /\ btnConnect' = FALSE /\ btn_log_it' = FALSE
         /\ UNCHANGED record
    ELSE /\ \/ record' = [stx |-> n, given |-> g, moved |-> m]
            \/ UNCHANGED record   \* the server has gone since
         /\ UNCHANGED <<btnConnect, btn_log_it>>

AtLeastOne(n) == IF n < 1 THEN 1 ELSE n

\* What the station has been given once the tag <#> is replaced.
Given(m) == IF m.nbr THEN {serial_nbr} ELSE given
Moved(m) == moved /\ ~m.nbr

\* Variant of expand_msg: the number is counted before the contact is logged.
ExpandCountFirst(m) ==
    /\ serial_nbr' = AtLeastOne(serial_nbr + m.step)
    /\ IF m.log /\ btnConnect THEN xml_add_record(serial_nbr', Given(m), Moved(m))
       ELSE UNCHANGED <<btnConnect, btn_log_it, record>>
    /\ given' = Given(m) /\ moved' = (Moved(m) \/ serial_nbr' # serial_nbr)

\* The tags are replaced in the order <#>, <LOG>, <+>, <->, wherever they stand.
expand_msg(m) ==
    /\ IF m.log /\ btnConnect THEN xml_add_record(serial_nbr, Given(m), Moved(m))
       ELSE UNCHANGED <<btnConnect, btn_log_it, record>>
    /\ serial_nbr' = AtLeastOne(serial_nbr + m.step)
    /\ given' = Given(m) /\ moved' = (Moved(m) \/ serial_nbr' # serial_nbr)

-----------------------------------------------------------------------------
send_message(m) ==
    /\ serial_nbr + m.step <= MaxNbr
    /\ expand_msg(m)
    /\ UNCHANGED <<station, connected, server>>

\* The button Log.
LogIt ==
    /\ btn_log_it
    /\ xml_add_record(serial_nbr, given, moved)
    /\ UNCHANGED <<serial_nbr, station, connected, server, given, moved>>

\* The operator types the next serial number.
TypeNumber(n) ==
    /\ serial_nbr' = n /\ moved' = (moved \/ n # serial_nbr)
    /\ UNCHANGED <<station, btnConnect, connected, btn_log_it, server, given, record>>

\* The operator types another call sign, or none: another contact.
TypeStation(s) ==
    /\ station' = s /\ given' = {} /\ moved' = FALSE
    /\ UNCHANGED <<serial_nbr, btnConnect, connected, btn_log_it, server, record>>

\* Variant of connect_to_server: the box stays ticked when there is no server.
ConnectKeepsTick ==
    /\ btnConnect' = ~btnConnect
    /\ connected' = (btnConnect' /\ server)
    /\ btn_log_it' = connected'
    /\ UNCHANGED <<serial_nbr, station, server, given, moved, record>>

\* The box Connect is ticked or cleared.
connect_to_server ==
    /\ connected' = (~btnConnect /\ server)
    /\ btnConnect' = connected' /\ btn_log_it' = connected'
    /\ UNCHANGED <<serial_nbr, station, server, given, moved, record>>

Server ==
    /\ server' = ~server
    /\ UNCHANGED <<serial_nbr, station, btnConnect, connected, btn_log_it, given, moved, record>>

-----------------------------------------------------------------------------
LogInit ==
    /\ serial_nbr = 1 /\ station = FALSE
    /\ btnConnect = FALSE /\ connected = FALSE /\ btn_log_it = FALSE
    /\ server \in BOOLEAN
    /\ given = {} /\ moved = FALSE
    /\ record = [stx |-> 0, given |-> {}, moved |-> FALSE]

LogNext ==
    \/ \E m \in Messages : send_message(m)
    \/ LogIt \/ connect_to_server \/ Server
    \/ \E n \in -1..MaxNbr : TypeNumber(n)
    \/ \E s \in BOOLEAN : TypeStation(s)

LogSpec == LogInit /\ [][LogNext]_logVars

-----------------------------------------------------------------------------
(* Properties.                                                             *)

\* The serial number stays within what is typed and counted.
LogTypeOK ==
    /\ serial_nbr \in -1..MaxNbr
    /\ {station, btnConnect, connected, btn_log_it, server, moved} \subseteq BOOLEAN
    /\ given \subseteq -1..MaxNbr
    /\ record \in [stx : -1..MaxNbr, given : SUBSET (-1..MaxNbr), moved : BOOLEAN]

\* A contact is logged under the number its station was given, in the message that logs it or an
\* earlier one, even when the message that logs it counts the number on: unless the number was
\* counted or typed between the two.  (A message that gives the number and counts it on without
\* logging the contact leaves the next number to the button Log.)
LoggedAsGiven == record.given \subseteq {record.stx} \/ record.moved

\* A contact can be logged exactly while the box Connect is ticked, and the box is ticked only
\* after a connection.
ConnectMeansConnected == btn_log_it = btnConnect /\ (btnConnect => connected)
=============================================================================
