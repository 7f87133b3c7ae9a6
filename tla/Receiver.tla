------------------------------ MODULE Receiver ------------------------------
(***************************************************************************)
(* The controls of the receiver: noise reduction, notch, IF shift, AGC     *)
(* speed, attenuator and preamplifier, and the radio they are sent to.     *)
(*                                                                         *)
(* The radio takes most of these commands in LSB, USB and CW only, so      *)
(* setInhibits switches the controls with the mode and sends again what    *)
(* was not taken.  But memories, pairings and fldigi change the mode       *)
(* without it, and the calibration and the start of the program send all   *)
(* settings in whatever mode the radio is in.  The scanner and the          *)
(* calibration select CW past the panel, and on the air the radio takes no *)
(* mode at all.  The level of the noise reduction and the depth of the      *)
(* automatic notch are one command.  Tuning and bandwidth are in VfoPanel;  *)
(* of transmitting there is here only that it goes on and off between       *)
(* callbacks.                                                              *)
(***************************************************************************)
EXTENDS Integers, Sequences

CONSTANTS RxModes,   \* the modes of the radio in use, CW among them
          Levels,    \* of the noise reduction, 0 to 255, with 0
          Depths,    \* of the automatic notch, in percent, with 0
          Speeds,    \* of the AGC, 0 to 255, with 128
          MaxUses    \* bound: callbacks in a run

\* The ranges of the widgets, what they start with, and what the calibration sends.
ASSUME ReceiverAssumption ==
    /\ "CW" \in RxModes /\ MaxUses \in Nat
    /\ Levels \subseteq 0..255 /\ Depths \subseteq 0..100 /\ Speeds \subseteq 0..255
    /\ 0 \in Levels /\ 0 \in Depths /\ 128 \in Speeds

Automatic == 3           \* the notch width of the automatic notch
Nothing   == -1          \* opNOTCH before a width was selected
NotchWidths == {0, 2}    \* two of the three widths in the list
Offsets   == {0, 1}      \* of IF shift and notch frequency, from the lowest or middle one

VARIABLES
    shown,        \* the values of the widgets
    groups,       \* groups of widgets that react: "filters", "NR" and "level"
    imode,        \* the mode of the transmit VFO
    startMode,    \* xcvrState.vfoA_imode, the mode VFO A had at the start
    NOTCHWIDTH,   \* xcvrState.NOTCHWIDTH, the width sent last
    scan,         \* scanning: whether the scanner has the receiver
    set,          \* the settings of the radio, whether it is keyed and has its tune carrier set
    uses          \* the callbacks so far

receiverVars == <<shown, groups, imode, startMode, NOTCHWIDTH, scan, set, uses>>

-----------------------------------------------------------------------------
(* The radio.                                                              *)

Command(field, v) == [field |-> field, val |-> v]

\* IOspec.cxx: the modes without inhibited commands.
Hears(r) == r.mode \notin {"AM", "FM"}

\* The tune carrier is in the CW transmit buffer: in CW it goes on the air by itself.
Transmits(r) == r.keyed \/ (r.carrier /\ r.mode = "CW")

\* IOspec.cxx: attenuator and preamplifier can always be set, the mode except on the air.  No
\* width is 255.
Takes(r, c) ==
    /\ Hears(r) \/ c.field \in {"mode", "ATT", "PRE"}
    /\ c.field = "mode" => ~Transmits(r)
    /\ c.field = "width" => c.val # Nothing

Does(r, c) == IF Takes(r, c) THEN [r EXCEPT ![c.field] = c.val] ELSE r

\* The radio gets the commands one after the other.
Send(commands) ==
    LET after[n \in 0..Len(commands)] ==
            IF n = 0 THEN set ELSE Does(after[n - 1], commands[n])
    IN  set' = after[Len(commands)]

-----------------------------------------------------------------------------
(* What the callbacks are made of; s is what the widgets show by then.     *)

\* setXcvrAgcSpeed: slower by 16 with noise reduction, and not below 2.
AgcSent(s) ==
    LET val == 255 - s.speed
    IN  IF ~s.NR THEN val ELSE IF val - 16 < 2 THEN 2 ELSE val - 16

\* setXcvrNotchDepth: percent of 255.
DepthSent(d) == (d * 255) \div 100

\* Variant of cbbtnNR: the AGC speed is not sent again.
NRAlone(s) ==
    <<Command("NR", s.NR)>> \o (IF s.NR THEN <<Command("level", s.level)>> ELSE <<>>)

cbbtnNR(s) ==
    <<Command("NR", s.NR)>> \o (IF s.NR THEN <<Command("level", s.level)>> ELSE <<>>)
                            \o <<Command("agc", AgcSent(s))>>

\* cbbtnNR switches the slider of the level.
WithLevel(g, s) == IF s.NR THEN g \cup {"level"} ELSE g \ {"level"}

\* cbIFsh: without the button the slider goes back to its middle.
Centred(s) == IF s.IFsh THEN s ELSE [s EXCEPT !.shift = 0]

SendShift(s) == <<Command("shift", s.shift)>>

cbbtnNotch(s) ==
    IF s.Notch THEN <<Command("width", Automatic), Command("level", DepthSent(s.depth))>>
               ELSE <<Command("width", s.width), Command("notch", s.notch)>> \o cbbtnNR(s)

\* cbAttenuator and cbPreamp: the one that is pressed puts the other out.
Press(s, x, y) == IF s[x] THEN [s EXCEPT ![x] = FALSE] ELSE [s EXCEPT ![x] = TRUE, ![y] = FALSE]
SendPressed(s, x, y) == IF s[x] THEN <<Command(x, TRUE), Command(y, FALSE)>>
                                ELSE <<Command(x, FALSE)>>

\* setInhibits: the controls of the mode; IF shift and noise reduction are sent again.
ChangeGroups(m, s) ==
    /\ groups' = WithLevel(IF m \in {"AM", "FM"} THEN {} ELSE {"filters", "NR"}, s)
    /\ shown' = Centred(s)

\* Part of initXcvrState: everything is sent for the notch set by hand.
SendAll(s) ==
    SendShift(s) \o cbbtnNotch(s) \o SendPressed(s, "ATT", "PRE") \o SendPressed(s, "PRE", "ATT")
        \o <<Command("agc", AgcSent(s)), Command("level", s.level)>> \o cbbtnNR(s)
        \o SendShift(Centred(s))

\* The widgets get the settings saved, the notch by hand; opNOTCH has no fourth width to
\* show for the automatic notch.
RestoredWidgets(s) ==
    [s EXCEPT !.Notch = FALSE, !.mode = startMode',
              !.width = IF NOTCHWIDTH \in NotchWidths THEN NOTCHWIDTH ELSE s.width]

initXcvrState(s, others) ==
    /\ shown' = Centred(s)
    /\ NOTCHWIDTH' = s.width
    /\ imode' = startMode'
    /\ groups' = WithLevel(groups \cup {"NR"}, s)
    /\ Send(SendAll(s) \o others)

-----------------------------------------------------------------------------
(* The controls.                                                           *)

\* A widget that sends its own value only.
Move(field, v, commands) ==
    /\ shown' = [shown EXCEPT ![field] = v]
    /\ Send(commands)
    /\ UNCHANGED <<groups, imode, startMode, NOTCHWIDTH>>

PressNR ==
    /\ "NR" \in groups
    /\ shown' = [shown EXCEPT !.NR = ~@]
    /\ groups' = WithLevel(groups, shown')
    /\ Send(cbbtnNR(shown'))
    /\ UNCHANGED <<imode, startMode, NOTCHWIDTH>>

\* cbNR.
MoveLevel(v) == "level" \in groups /\ Move("level", v, <<Command("level", v)>>)

PressNotch ==
    /\ "filters" \in groups
    /\ shown' = [shown EXCEPT !.Notch = ~@]
    /\ groups' = IF shown'.Notch THEN groups \ {"NR", "level"}
                                 ELSE WithLevel(groups \cup {"NR"}, shown)
    /\ NOTCHWIDTH' = IF shown'.Notch THEN Automatic ELSE shown.width
    /\ Send(cbbtnNotch(shown'))
    /\ UNCHANGED <<imode, startMode>>

\* cbDepth and setNotch: one of the two sliders is there.
MoveDepth(v) ==
    "filters" \in groups /\ shown.Notch /\ Move("depth", v, <<Command("level", DepthSent(v))>>)
MoveNotch(v) ==
    "filters" \in groups /\ ~shown.Notch /\ Move("notch", v, <<Command("notch", v)>>)

\* setNotchWidth.
SelectWidth(w) ==
    /\ "filters" \in groups
    /\ shown' = [shown EXCEPT !.width = w]
    /\ NOTCHWIDTH' = w
    /\ Send(<<Command("width", w)>>)
    /\ UNCHANGED <<groups, imode, startMode>>

PressIFsh ==
    /\ "filters" \in groups
    /\ shown' = Centred([shown EXCEPT !.IFsh = ~@])
    /\ Send(SendShift(shown'))
    /\ UNCHANGED <<groups, imode, startMode, NOTCHWIDTH>>

\* The slider of the IF shift is never switched off, and lights the button.
MoveShift(v) ==
    /\ shown' = [shown EXCEPT !.IFsh = TRUE, !.shift = v]
    /\ Send(SendShift(shown'))
    /\ UNCHANGED <<groups, imode, startMode, NOTCHWIDTH>>

\* cbsldrAgcSpeed.
MoveSpeed(v) ==
    "filters" \in groups /\ Move("speed", v, <<Command("agc", AgcSent([shown EXCEPT !.speed = v]))>>)

PressFrontEnd(x, y) ==
    /\ shown' = Press(shown, x, y)
    /\ Send(SendPressed(shown', x, y))
    /\ UNCHANGED <<groups, imode, startMode, NOTCHWIDTH>>

-----------------------------------------------------------------------------
(* The mode.                                                               *)

\* setMode for a mode the VFO does not have.
ChooseNewMode(m) ==
    LET s == [shown EXCEPT !.mode = m]
    IN  /\ imode # m /\ imode' = m
        /\ ChangeGroups(m, s)
        /\ Send(<<Command("mode", m)>> \o SendShift(s) \o SendShift(shown') \o cbbtnNR(s))
        /\ UNCHANGED <<startMode, NOTCHWIDTH>>

\* setMode for the mode it has: setBW sends the IF shift.
ChooseSameMode(m) ==
    /\ imode = m
    /\ shown' = [shown EXCEPT !.mode = m]
    /\ Send(<<Command("mode", m)>> \o SendShift(shown))
    /\ UNCHANGED <<groups, imode, startMode, NOTCHWIDTH>>

\* The four callbacks that pair the VFOs, and selectFreq: the mode of the VFO that transmitted
\* is sent, then that of the VFO that now does.  fldigi sends the new mode only.
VfoMode(first, m) ==
    /\ first \in {imode, m}
    /\ imode' = m
    /\ shown' = [shown EXCEPT !.mode = m]
    /\ Send(<<Command("mode", first), Command("mode", m)>>)
    /\ UNCHANGED <<groups, startMode, NOTCHWIDTH>>

\* cbA2B and cbB2A into the VFO that transmits: neither shown nor sent.
CopyMode(m) ==
    /\ imode' = m
    /\ UNCHANGED <<shown, groups, startMode, NOTCHWIDTH, set>>

-----------------------------------------------------------------------------
(* The scanner, calibration, another port and the start of the program.    *)

\* start_scan: the receiver is set to CW, the panel is left as it is.
BeginScan ==
    /\ ~scan /\ scan' = TRUE
    /\ Send(<<Command("mode", "CW")>>)
    /\ UNCHANGED <<shown, groups, imode, startMode, NOTCHWIDTH>>

\* stop_scan, and the end of the range: the present pairing is made again.
FinishScan == scan' = FALSE /\ VfoMode(imode, imode)

\* startFreq: the receiver is not given back.
DropScan == scan' = FALSE /\ UNCHANGED <<shown, groups, imode, startMode, NOTCHWIDTH, set>>

\* checkCalibrate: notch off, fast AGC, CW.
checkCalibrate ==
    /\ Send(<<Command("notch", 0), Command("agc", 0), Command("mode", "CW")>>)
    /\ UNCHANGED <<shown, groups, imode, startMode, NOTCHWIDTH>>

\* The settings are sent again, the mode is only shown.
cbCalFinished ==
    /\ startMode' = startMode
    /\ initXcvrState(RestoredWidgets(shown), <<>>)

\* cbOkCommsDialog: initkcat pairs the VFOs, which sends the mode, after m, the mode that the
\* VFO that transmitted had at the start.
cbOkCommsDialog(m) ==
    /\ startMode' = startMode
    /\ initXcvrState(RestoredWidgets(shown), <<Command("mode", m), Command("mode", startMode)>>)

\* The program ends and starts with VFO A in mode m: initkcat, then setInhibits.  The
\* radio stays as it was.
EndAndStart(m) ==
    LET s == RestoredWidgets([shown EXCEPT !.IFsh = FALSE, !.width = Nothing])
    IN  /\ startMode' = m /\ imode' = m
        /\ NOTCHWIDTH' = s.width
        /\ ChangeGroups(m, s)
        /\ Send(SendAll(s) \o <<Command("mode", m)>> \o SendShift(shown') \o cbbtnNR(s))
        /\ scan' = FALSE

\* PTT, fldigi, the button Carrier, the keyer, a paddle or VOX.
Key(on, carrier) ==
    /\ set' = [set EXCEPT !.keyed = on, !.carrier = carrier]
    /\ UNCHANGED <<shown, groups, imode, startMode, NOTCHWIDTH>>

-----------------------------------------------------------------------------
\* A start with the settings the program comes with, on a radio that takes all of them.
ReceiverInit ==
    /\ shown = [mode |-> "CW", NR |-> FALSE, level |-> 0, Notch |-> FALSE, depth |-> 0,
                width |-> 0, notch |-> 0, IFsh |-> FALSE, shift |-> 0, speed |-> 128,
                ATT |-> FALSE, PRE |-> FALSE]
    /\ groups = {"filters", "NR"}
    /\ imode = "CW" /\ startMode = "CW" /\ NOTCHWIDTH = 0
    /\ set = [mode |-> "CW", NR |-> FALSE, level |-> 0, width |-> 0, notch |-> 0, shift |-> 0,
              agc |-> AgcSent(shown), ATT |-> FALSE, PRE |-> FALSE, keyed |-> FALSE,
              carrier |-> FALSE]
    /\ scan = FALSE /\ uses = 0

\* Everything but scanner and start.
Control ==
    \/ PressNR \/ PressNotch \/ PressIFsh
    \/ \E v \in Levels : MoveLevel(v)
    \/ \E v \in Depths : MoveDepth(v)
    \/ \E v \in Offsets : MoveNotch(v) \/ MoveShift(v)
    \/ \E w \in NotchWidths : SelectWidth(w)
    \/ \E v \in Speeds : MoveSpeed(v)
    \/ PressFrontEnd("ATT", "PRE") \/ PressFrontEnd("PRE", "ATT")
    \/ \E m \in RxModes : ChooseNewMode(m) \/ ChooseSameMode(m) \/ CopyMode(m) \/ cbOkCommsDialog(m)
    \/ \E first, m \in RxModes : VfoMode(first, m)
    \/ checkCalibrate \/ cbCalFinished
    \/ \E on, carrier \in BOOLEAN : Key(on, carrier)

Use ==
    \/ Control /\ UNCHANGED scan
    \/ BeginScan \/ FinishScan \/ DropScan
    \/ \E m \in RxModes : EndAndStart(m)

ReceiverNext == uses < MaxUses /\ uses' = uses + 1 /\ Use

ReceiverSpec == ReceiverInit /\ [][ReceiverNext]_receiverVars

-----------------------------------------------------------------------------
(* Properties.                                                             *)

ReceiverTypeOK ==
    /\ shown \in [mode : RxModes, NR : BOOLEAN, level : Levels, Notch : BOOLEAN, depth : Depths,
                  width : NotchWidths \cup {Nothing}, notch : Offsets, IFsh : BOOLEAN,
                  shift : Offsets, speed : Speeds, ATT : BOOLEAN, PRE : BOOLEAN]
    /\ groups \subseteq {"filters", "NR", "level"}
    /\ {imode, startMode} \subseteq RxModes
    /\ NOTCHWIDTH \in NotchWidths \cup {Nothing, Automatic}
    /\ set \in [mode : RxModes, NR : BOOLEAN, level : 0..255, width : NotchWidths \cup {Automatic},
                notch : Offsets, shift : Offsets, agc : 0..255, ATT : BOOLEAN, PRE : BOOLEAN,
                keyed : BOOLEAN, carrier : BOOLEAN]
    /\ scan \in BOOLEAN
    /\ uses \in 0..MaxUses

\* What a change of the mode sends again is as shown.
ResentAgree ==
    /\ set.NR = shown.NR
    /\ set.NR /\ ~shown.Notch => set.level = shown.level
    /\ set.agc = AgcSent(shown)
    /\ set.shift = shown.shift

\* And so is the notch, by hand or automatic.
NotchAgrees ==
    IF shown.Notch THEN set.width = Automatic /\ set.level = DepthSent(shown.depth)
                   ELSE set.width = shown.width /\ set.notch = shown.notch

\* In the mode shown and, when that mode has them, with the settings shown; never with
\* attenuator and preamplifier together.
SettingsAgree ==
    /\ set.mode = shown.mode
    /\ Hears(set) => ResentAgree /\ NotchAgrees
    /\ set.ATT = shown.ATT /\ set.PRE = shown.PRE /\ ~(set.ATT /\ set.PRE)

\* The ways the panel and the radio part.
\* With the automatic notch, whatever sends the level of the noise reduction or a width.
OverAutomatic ==
    /\ shown.Notch
    /\ \/ PressNR \/ \E v \in Levels : MoveLevel(v)
       \/ \E w \in NotchWidths : SelectWidth(w)
       \/ shown.NR /\ \E m \in RxModes : ChooseNewMode(m)

\* Out of AM or FM, where what was changed was not taken.  The choice of a new mode sends
\* all but the notch again.
OutOfInhibits ==
    /\ ~Hears(set) /\ Hears(set')
    /\ ResentAgree' \/ ~ \E m \in RxModes : ChooseNewMode(m)

\* A start that finds the width of the automatic notch saved has none to show and sends none:
\* until one is selected, the automatic notch cannot be switched off.
WidthForgotten == shown'.width = Nothing /\ ~shown'.Notch

\* The end of a calibration shows the mode of the start and sends none.
ModeNotSent == set.mode # startMode /\ cbCalFinished

\* The panel goes to another mode on the air; or the first of two modes is CW and puts the
\* tune carrier there, so that the second is not taken.
ModeRefused ==
    \/ Transmits(set) /\ shown'.mode # shown.mode
    \/ set.carrier /\ \/ \E m \in RxModes : imode = "CW" /\ VfoMode("CW", m)
                      \/ cbOkCommsDialog("CW")

\* No other step makes them disagree: not the shared command of level and depth, not the
\* AGC speed that depends on the noise reduction, no order of the callbacks.
KeepsSettings ==
    [][SettingsAgree /\ ~SettingsAgree' =>
          \/ OverAutomatic \/ OutOfInhibits \/ WidthForgotten
          \/ checkCalibrate \/ BeginScan \/ ModeNotSent \/ ModeRefused
       ]_receiverVars
=============================================================================
