------------------------------ MODULE VfoPanel ------------------------------
(***************************************************************************)
(* The two VFOs of the panel, the radio and what fldigi knows of them.     *)
(*                                                                         *)
(* Every callback of the panel runs to its end in the GUI thread.  It      *)
(* changes VFOs and widgets, sends commands to the radio in a fixed order  *)
(* and tells fldigi.  The radio ignores a command that the inhibit table   *)
(* of IOspec.cxx excludes in its present state.  Answers are taken to      *)
(* arrive (SerialLink) and messages to fldigi to be delivered (FldigiSync).*)
(* The settings a mode merely enables, IF shift, notch, noise reduction    *)
(* and AGC, are in Receiver.  The CW keyer, a paddle and VOX, which put    *)
(* the radio on the air for as long as they key it, are taken to be silent *)
(* while a callback runs.                                                  *)
(***************************************************************************)
EXTENDS Naturals, Sequences

CONSTANTS Freqs, Modes,
          Widths,     \* positions in the list of bandwidths
          Start,      \* the settings of each VFO when the program starts
          Presets,    \* bound: the settings that memories and fldigi hold
          MaxCalls    \* bound: callbacks in a run

Narrowest == 0                   \* the bandwidth the scanner selects
Wide      == 3                   \* the bandwidth of the calibration

ASSUME PanelAssumption ==
    /\ Modes \subseteq {"LSB", "USB", "CW", "AM", "FM"} /\ "CW" \in Modes
    /\ {Narrowest, 2, Wide, 7, 8} \subseteq Widths
    /\ MaxCalls \in Nat

Vfos     == {"A", "B"}
Settings == [freq : Freqs, imode : Modes, iBW : Widths]

ASSUME PresetsAssumption == Presets \subseteq Settings /\ Start \in [Vfos -> Settings]

Other(x) == IF x = "A" THEN "B" ELSE "A"

VARIABLES
    vfo,        \* vfoA and vfoB
    rx, tx,     \* rx_on_a and tx_on_a: which VFO receives, which transmits
    disp,       \* the frequency each display shows
    op,         \* the mode and bandwidth shown by opMODE and opBW
    btn,        \* the buttons that are lit, among "PTT" and "Carrier"
    active,     \* the widgets that react, among "PTT", "Carrier", "BW" and "Freq"
    scanning,
    ptt_on,     \* fldigi's transmit state as last reported by it
    radio,      \* what the radio does
    told,       \* the settings fldigi was told or has chosen itself
    inhibited,  \* the inhibited commands the last callback sent
    stuck,      \* for invariant checking: the button Carrier was put out, but the radio
                \* did not take the command and keeps its tune carrier
    calls       \* the callbacks so far

panel == <<vfo, rx, tx, disp, op, btn, active, scanning, ptt_on>>
vars  == <<panel, radio, told, inhibited, stuck, calls>>

\* setMode: the bandwidth that comes with a mode.
DefaultBW(m) == CASE m \in {"AM", "FM"} -> 8
                  [] m = "CW"           -> 2
                  [] OTHER              -> 7

-----------------------------------------------------------------------------
(* The radio and fldigi.                                                   *)

\* A command names what it sets.
Set(field, v) == [field |-> field, val |-> v]

\* The radio transmits when it is keyed.  Its tune carrier is in the CW transmit buffer: in CW it
\* goes on the air by itself.
OnAir(r) == r.ptt \/ (r.carrier /\ r.mode = "CW")

\* Off the air, and no mode can put it there.
Silent(r) == ~r.ptt /\ ~r.carrier

\* IOspec.cxx: no mode, VFO or transmit frequency command on the air, neither bandwidth nor
\* CW transmit buffer in AM and FM, no push to talk in CW.
IsInhibited(r, c) ==
    \/ OnAir(r) /\ c.field \in {"mode", "vfom", "xmt"}
    \/ r.mode \in {"AM", "FM"} /\ c.field \in {"bw", "carrier"}
    \/ r.mode = "CW" /\ c.field = "ptt"

Obey(r, c) == IF IsInhibited(r, c) THEN r ELSE [r EXCEPT ![c.field] = c.val]

\* The radio gets the commands one after the other.
Sends(commands) ==
    LET after[n \in 0..Len(commands)] ==
            IF n = 0 THEN radio ELSE Obey(after[n - 1], commands[n])
        bad == {n \in DOMAIN commands : IsInhibited(after[n - 1], commands[n])}
    IN  /\ radio' = after[Len(commands)]
        /\ inhibited' = {commands[n].field : n \in bad}

-----------------------------------------------------------------------------
(* What the callbacks are made of.  v, r and t stand for the VFOs, the      *)
(* receive VFO and the transmit VFO the callback has set when it gets there.*)

\* movFreq for A and movFreqB for B.
MovFreq(v, r, t, x) ==
       (IF r = x THEN <<Set("rcv", v[x].freq)>> ELSE <<>>)
    \o (IF t = x THEN <<Set("xmt", v[x].freq)>> ELSE <<>>)
    \o <<Set("vfom", "split")>>

\* Variant of MovBoth: VFO B is forgotten.
MovOnlyA(v, r, t) == MovFreq(v, r, t, "A")

MovBoth(v, r, t) == MovFreq(v, r, t, "A") \o MovFreq(v, r, t, "B")

\* Variant of SetModeBW: the other order.
SetBWMode(s) == <<Set("bw", s.iBW), Set("mode", s.imode)>>

\* setXcvrMode and setXcvrBW.
SetModeBW(s) == <<Set("mode", s.imode), Set("bw", s.iBW)>>

\* send_xml_freq, for the receive VFO.
TellFreq(v, r) == told' = [told EXCEPT !.freq = v[r].freq]

Shows(s) == op' = [imode |-> s.imode, iBW |-> s.iBW]

\* The bandwidth and PTT react in some modes only.
setInhibits(m) ==
    (active \ {"PTT", "BW"}) \cup (IF m = "CW" THEN {} ELSE {"PTT"})
                             \cup (IF m \in {"AM", "FM"} THEN {} ELSE {"BW"})

\* cbRxA, cbTxA, cbRxB and cbTxB: the transmit VFO's mode and bandwidth, then both
\* frequencies.
UsePair(v, r, t) == SetModeBW(v[t]) \o MovBoth(v, r, t)

\* cbRxA_TxA and the others: first the receive VFO changes, then the transmit VFO.
PairWith(v, r, t) ==
    /\ rx' = r /\ tx' = t
    /\ Shows(v[t])
    /\ Sends(UsePair(v, r, tx) \o UsePair(v, r, t))
    /\ told' = [freq |-> v[r].freq, imode |-> v[t].imode, iBW |-> v[t].iBW]

-----------------------------------------------------------------------------
(* The VFOs.                                                               *)

Tune(x, f) ==
    /\ "Freq" \in active /\ f # disp[x]
    /\ disp' = [disp EXCEPT ![x] = f]
    /\ vfo' = [vfo EXCEPT ![x].freq = f]
    /\ Sends(MovFreq(vfo', rx, tx, x))
    /\ IF rx = x THEN TellFreq(vfo', x) ELSE UNCHANGED told
    /\ UNCHANGED <<rx, tx, op, btn, active, scanning, ptt_on>>

\* scanner_cb: a click in the spectrum tunes the receive VFO, on the air too.
ClickSpectrum(f) ==
    /\ disp' = [disp EXCEPT ![rx] = f]
    /\ vfo' = [vfo EXCEPT ![rx].freq = f]
    /\ Sends(MovFreq(vfo', rx, tx, rx))
    /\ TellFreq(vfo', rx)
    /\ UNCHANGED <<rx, tx, op, btn, active, scanning, ptt_on>>

\* The frequency correction changes: both frequencies are sent again.
Correct ==
    /\ Sends(MovBoth(vfo, rx, tx))
    /\ TellFreq(vfo, rx)
    /\ UNCHANGED panel

Pair(r, t) ==
    /\ PairWith(vfo, r, t)
    /\ UNCHANGED <<vfo, disp, btn, active, scanning, ptt_on>>

\* cbA2B and cbB2A: the settings are copied, the frequencies sent.
Copy(x, y) ==
    /\ x # y
    /\ vfo' = [vfo EXCEPT ![y] = vfo[x]]
    /\ disp' = [disp EXCEPT ![y] = vfo[x].freq]
    /\ Sends(MovBoth(vfo', rx, tx))
    /\ TellFreq(vfo', rx)
    /\ UNCHANGED <<rx, tx, op, btn, active, scanning, ptt_on>>

\* selectFreq: a memory goes to the receive VFO, which then transmits too.
SelectMemory(s) ==
    /\ vfo' = [vfo EXCEPT ![rx] = s]
    /\ disp' = [disp EXCEPT ![rx] = s.freq]
    /\ PairWith(vfo', rx, rx)
    /\ UNCHANGED <<btn, active, scanning, ptt_on>>

-----------------------------------------------------------------------------
(* Mode and bandwidth.                                                     *)

SelectBW(w) ==
    /\ "BW" \in active
    /\ op' = [op EXCEPT !.iBW = w]
    /\ vfo' = [vfo EXCEPT ![tx].iBW = w]
    /\ Sends(<<Set("bw", w)>>)
    /\ told' = [told EXCEPT !.iBW = w]
    /\ UNCHANGED <<rx, tx, disp, btn, active, scanning, ptt_on>>

\* setMode for a mode the transmit VFO does not have.
SelectNewMode(m) ==
    LET s == [vfo[tx] EXCEPT !.imode = m, !.iBW = DefaultBW(m)]
    IN  /\ vfo[tx].imode # m
        /\ vfo' = [vfo EXCEPT ![tx] = s]
        /\ Shows(s)
        /\ active' = setInhibits(m)
        /\ Sends(SetModeBW(s))
        /\ told' = [told EXCEPT !.imode = m, !.iBW = s.iBW]
        /\ UNCHANGED <<rx, tx, disp, btn, scanning, ptt_on>>

\* setMode for the mode it has: fldigi hears the bandwidth only.
SelectSameMode(m) ==
    LET s == [vfo[tx] EXCEPT !.iBW = op.iBW]
    IN  /\ vfo[tx].imode = m
        /\ vfo' = [vfo EXCEPT ![tx] = s]
        /\ Shows(s)
        /\ Sends(SetModeBW(s))
        /\ told' = [told EXCEPT !.iBW = s.iBW]
        /\ UNCHANGED <<rx, tx, disp, btn, active, scanning, ptt_on>>

-----------------------------------------------------------------------------
(* Transmitting.                                                           *)

\* setTx, with the PTT button already changed.
setTx(on) ==
    /\ btn' = IF on THEN btn \cup {"PTT"} ELSE btn \ {"PTT"}
    /\ active' = IF on THEN active \ {"Freq", "Carrier"} ELSE active \cup {"Freq", "Carrier"}
    /\ Sends(<<Set("ptt", on)>>)

PressPTT ==
    /\ "PTT" \in active
    /\ setTx("PTT" \notin btn)
    /\ UNCHANGED <<vfo, rx, tx, disp, op, scanning, ptt_on, told>>

\* Variant of PressCarrier: the carrier goes, the transmitter stays on.
PressCarrierStaysOn ==
    LET on == "Carrier" \notin btn
    IN  /\ "Carrier" \in active
        /\ btn' = IF on THEN btn \cup {"Carrier"} ELSE btn \ {"Carrier"}
        /\ active' = IF on THEN active \ {"PTT"} ELSE active \cup {"PTT"}
        /\ Sends(IF on THEN <<Set("carrier", on), Set("ptt", on)>> ELSE <<Set("carrier", on)>>)
        /\ stuck' = (~on /\ radio.carrier /\ "carrier" \in inhibited')
        /\ UNCHANGED <<vfo, rx, tx, disp, op, scanning, ptt_on, told>>

\* cbCarrier.
PressCarrier ==
    LET on == "Carrier" \notin btn
    IN  /\ "Carrier" \in active
        /\ btn' = IF on THEN btn \cup {"Carrier"} ELSE btn \ {"Carrier"}
        /\ active' = IF on THEN active \ {"PTT"} ELSE active \cup {"PTT"}
        /\ Sends(<<Set("carrier", on), Set("ptt", on)>>)
        /\ stuck' = (~on /\ radio.carrier /\ "carrier" \in inhibited')
        /\ UNCHANGED <<vfo, rx, tx, disp, op, scanning, ptt_on, told>>

-----------------------------------------------------------------------------
(* The callbacks queued by the xmlrpc thread.                              *)

\* setPTT, when fldigi's transmit state has changed.
FldigiPTT ==
    /\ ptt_on' = ~ptt_on
    /\ setTx(ptt_on')
    /\ UNCHANGED <<vfo, rx, tx, disp, op, scanning, told>>

\* set_xml_values: always VFO A, for receiving and transmitting, never while fldigi
\* transmits.
FldigiSets(s) ==
    /\ ~ptt_on
    /\ vfo' = [vfo EXCEPT !["A"] = s]
    /\ disp' = [disp EXCEPT !["A"] = s.freq]
    /\ Shows(s)
    /\ Sends(<<Set("rcv", s.freq), Set("xmt", s.freq)>> \o SetModeBW(s))
    /\ told' = s
    /\ UNCHANGED <<rx, tx, btn, active, scanning, ptt_on>>

-----------------------------------------------------------------------------
(* The scanner: it takes the receiver and gives it back through the button  *)
(* of the present pair.                                                    *)

StartScan(f) ==
    /\ ~scanning
    /\ scanning' = TRUE
    /\ Sends(<<Set("rcv", f), Set("mode", "CW"), Set("bw", Narrowest)>>)
    /\ UNCHANGED <<vfo, rx, tx, disp, op, btn, active, ptt_on, told>>

ScanNext(f) ==
    /\ scanning
    /\ Sends(<<Set("rcv", f)>>)
    /\ UNCHANGED <<panel, told>>

\* startFreq, when the start of the range is changed: the receiver is not given back.
MoveStart ==
    /\ scanning' = FALSE
    /\ UNCHANGED <<vfo, rx, tx, disp, op, btn, active, ptt_on, radio, told>>
    /\ inhibited' = {}

EndScan ==
    /\ scanning' = FALSE
    /\ PairWith(vfo, rx, tx)
    /\ UNCHANGED <<vfo, disp, btn, active, ptt_on>>

-----------------------------------------------------------------------------
(* The calibration, and a new port.                                        *)

\* checkCalibrate: the receiver is tuned to the standard f, in CW; the panel is left as it is.
Calibrate(f) ==
    /\ Sends(<<Set("rcv", f), Set("mode", "CW"), Set("bw", Wide)>>)
    /\ UNCHANGED <<panel, told>>

\* initXcvrState: the settings of the start of the program; setBW gives the transmit VFO the
\* bandwidth shown, VFO A's.
Restored == [Start EXCEPT ![tx].iBW = Start["A"].iBW]

\* Its commands: the frequency of VFO A only, and no mode.
RestoreCommands ==
    MovFreq(Restored, rx, tx, "A")
        \o <<Set("vfom", "simplex"), Set("vfom", "receive"), Set("bw", Restored[tx].iBW)>>

RestorePanel ==
    /\ vfo' = Restored
    /\ disp' = [x \in Vfos |-> Start[x].freq]
    /\ Shows(Start["A"])

\* cbCalFinished.
CalFinished ==
    /\ RestorePanel
    /\ Sends(RestoreCommands)
    /\ told' = [told EXCEPT !.freq = IF rx = "A" THEN Start["A"].freq ELSE @,
                           !.iBW  = Restored[tx].iBW]
    /\ UNCHANGED <<rx, tx, btn, active, scanning, ptt_on>>

\* cbOkCommsDialog, when the port can be opened: initkcat, initXcvrState and cbRxA_TxA.
SelectPort ==
    /\ RestorePanel
    /\ rx' = "A" /\ tx' = "A"
    /\ Sends(RestoreCommands \o (UsePair(Restored, "A", tx) \o UsePair(Restored, "A", "A")))
    /\ told' = Start["A"]
    /\ UNCHANGED <<btn, active, scanning, ptt_on>>

-----------------------------------------------------------------------------
\* initkcat and setInhibits: VFO A receives and transmits; the radio has got its
\* settings, and fldigi those of send_rig_info.
Init ==
    /\ vfo = Start
    /\ rx = "A" /\ tx = "A"
    /\ disp = [x \in Vfos |-> vfo[x].freq]
    /\ op = [imode |-> vfo["A"].imode, iBW |-> vfo["A"].iBW]
    /\ btn = {}
    /\ active = {"Freq", "Carrier"}
                    \cup (IF op.imode = "CW" THEN {} ELSE {"PTT"})
                    \cup (IF op.imode \in {"AM", "FM"} THEN {} ELSE {"BW"})
    /\ scanning = FALSE /\ ptt_on = FALSE
    /\ radio = [rcv |-> vfo["A"].freq, xmt |-> vfo["A"].freq, vfom |-> "split",
                mode |-> op.imode, bw |-> op.iBW, ptt |-> FALSE, carrier |-> FALSE]
    /\ told = vfo["A"]
    /\ inhibited = {} /\ stuck = FALSE
    /\ calls = 0

Callback ==
    \/ \E x \in Vfos, f \in Freqs : Tune(x, f)
    \/ Correct
    \/ \E r, t \in Vfos : Pair(r, t)
    \/ \E x, y \in Vfos : Copy(x, y)
    \/ \E s \in Presets : SelectMemory(s) \/ FldigiSets(s)
    \/ \E w \in Widths : SelectBW(w)
    \/ \E m \in Modes : SelectNewMode(m) \/ SelectSameMode(m)
    \/ PressPTT \/ FldigiPTT
    \/ \E f \in Freqs : StartScan(f) \/ ScanNext(f) \/ ClickSpectrum(f) \/ Calibrate(f)
    \/ MoveStart \/ EndScan
    \/ CalFinished \/ SelectPort

Next ==
    /\ calls < MaxCalls /\ calls' = calls + 1
    /\ PressCarrier \/ (Callback /\ UNCHANGED stuck)

Spec == Init /\ [][Next]_vars

-----------------------------------------------------------------------------
(* Properties.                                                             *)

TypeOK ==
    /\ vfo \in [Vfos -> Settings]
    /\ rx \in Vfos /\ tx \in Vfos
    /\ disp \in [Vfos -> Freqs]
    /\ op \in [imode : Modes, iBW : Widths]
    /\ btn \subseteq {"PTT", "Carrier"}
    /\ active \subseteq {"PTT", "Carrier", "BW", "Freq"}
    /\ scanning \in BOOLEAN /\ ptt_on \in BOOLEAN
    /\ radio \in [rcv : Freqs, xmt : Freqs, vfom : {"split", "simplex", "receive"}, mode : Modes, bw : Widths,
                  ptt : BOOLEAN, carrier : BOOLEAN]
    /\ told \in Settings
    /\ calls \in 0..MaxCalls
    /\ inhibited \subseteq {"mode", "vfom", "xmt", "bw", "ptt", "carrier"}
    /\ stuck \in BOOLEAN

\* The radio works as the VFOs in use say, as far as its mode lets it be told, fldigi
\* knows it and the panel shows it.
Agree ==
    /\ radio.rcv = vfo[rx].freq
    /\ radio.xmt = vfo[tx].freq
    /\ radio.vfom = "split"
    /\ radio.mode = vfo[tx].imode
    /\ radio.mode \notin {"AM", "FM"} => radio.bw = vfo[tx].iBW
    /\ told = [freq |-> vfo[rx].freq, imode |-> vfo[tx].imode, iBW |-> vfo[tx].iBW]
    /\ disp = [x \in Vfos |-> vfo[x].freq]
    /\ op = [imode |-> vfo[tx].imode, iBW |-> vfo[tx].iBW]

\* With neither key nor tune carrier no callback makes them disagree, but for these: the copy of
\* other settings into the transmit VFO, settings of fldigi while VFO A is not used for both,
\* the scanner, and the calibration with its end, which restores the panel, but of the radio
\* neither the mode nor the frequency of a VFO B in use.
KeepsAgreement ==
    [][Agree /\ Silent(radio) /\ ~Agree' =>
         \/ Copy(Other(tx), tx)
         \/ <<rx, tx>> # <<"A", "A">> /\ \E s \in Presets : FldigiSets(s)
         \/ scanning'
         \/ (\E f \in Freqs : Calibrate(f)) \/ CalFinished]_vars

\* Whatever happened before, with neither key nor tune carrier a pairing button, a memory, the
\* end of a scan and a newly selected port make them agree again.
PairingResyncs ==
    [][Silent(radio) /\ ~Agree' =>
         ~ \/ EndScan \/ SelectPort
           \/ \E r, t \in Vfos : Pair(r, t)
           \/ \E s \in Presets : SelectMemory(s)]_vars

\* The radio is never on the air with both transmit buttons dark, whoever keyed it and
\* in whatever order it is keyed and unkeyed; but for a tune carrier it refused to put out:
\* Carrier in USB, fldigi keys and unkeys, AM, and Carrier again leave it set with both buttons
\* dark, and the next change to CW transmits.
KeyedIsShown == OnAir(radio) /\ btn = {} => stuck /\ ~radio.ptt

=============================================================================
