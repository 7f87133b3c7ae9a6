----------------------------- MODULE FldigiSync -----------------------------
(***************************************************************************)
(* The link between kcat and the digital-mode program fldigi: the xmlrpc   *)
(* thread of xml_io.cxx, the calls the GUI thread makes into it, and the   *)
(* Fl::awake callbacks through which the thread hands work back to the     *)
(* GUI.  Both programs show a frequency, a mode and a bandwidth, and both  *)
(* operators may change them; the link has to keep the pairs equal.        *)
(*                                                                         *)
(*   GUI thread    movFreq -> send_xml_freq   pushes on qfreq, no lock     *)
(*                 setMode, setBW -> send_new_mode, send_new_bandwidth     *)
(*                 set_xml_values, setPTT     run from the awake queue     *)
(*   xmlrpc thread every 50 ms, holding mutex_xmlrpc: send_queue, then     *)
(*                 get_fldigi_status; or, while offline, send_rig_info     *)
(*                                                                         *)
(* kcat receives and transmits on VFO A.  fldigi is outside the sources:   *)
(* it stores what it is told and reports what it holds.                    *)
(***************************************************************************)
EXTENDS Naturals, Sequences

CONSTANTS Freqs,       \* frequencies either operator may tune to
          Modes,       \* entries of szmodes
          Widths,      \* indices into szBW
          CheckCount,  \* CHECK_UPDATE_COUNT: sleeps between two attempts to connect
          MaxEdits,    \* bound: steps taken by the two operators, crashes included
          MaxFaults    \* bound: requests to a running fldigi that time out

ASSUME CheckAssumption == CheckCount \in Nat \ {0}
ASSUME WidthAssumption == {2, 7, 8} \cap Widths # {}

VARIABLES
    vfoA,           \* kcat's settings, written by the GUI thread only
    xmlvfo,         \* the xmlrpc thread's copy, written by both threads
    qfreq,          \* frequencies waiting to be sent to fldigi
    fldigi_online,
    ptt_on,         \* fldigi's transmit state as last seen
    try_count,
    xpc,            \* where the xmlrpc thread is; it holds mutex_xmlrpc unless asleep
    status,         \* the answer it has still to check: <<>> or one Status
    xleft,          \* fields send_rig_info has still to copy from vfoA
    gui,            \* calls the GUI thread has still to make before it is idle again
    gleft,          \* fields set_xml_values has still to copy from xmlvfo
    awake,          \* callbacks queued by Fl::awake, oldest first
    tx,             \* the transmitter is keyed
    keyedBy,        \* history: who keyed or unkeyed it last
    fldigi,         \* fldigi's settings
    trx,            \* fldigi is transmitting
    up,             \* fldigi is running
    edits, faults,  \* what is used of MaxEdits and MaxFaults
    turns           \* history: each edit was made when the last one had settled, and
                    \* none was under way while the link was being set up

kcat   == <<vfoA, gui, gleft, tx, keyedBy>>
thread == <<fldigi_online, ptt_on, try_count, xpc, status, xleft>>
peer   == <<fldigi, trx, up>>
vars   == <<kcat, thread, peer, xmlvfo, qfreq, awake, edits, faults, turns>>

Fields   == {"freq", "imode", "iBW"}
Settings == [freq : Freqs, imode : Modes, iBW : Widths]
Status   == [set : Settings, tx : BOOLEAN]

\* The bandwidth setMode selects for a mode: 8 for AM and FM, 2 for CW, else 7.
DefaultBW(m) == CASE m \in {"AM", "FM"} -> 8
                  [] m = "CW"           -> 2
                  [] OTHER              -> 7

Call(op, v) == [op |-> op, val |-> v]
New(field, v) == Call("new", Call(field, v))
ValuesChanged  == Call("values", FALSE)
PttChanged(on) == Call("ptt", on)

-----------------------------------------------------------------------------
(* Requests to fldigi.  A request fails when fldigi is not running or does *)
(* not answer within TIMEOUT.                                              *)

TimesOut == up /\ faults < MaxFaults /\ faults' = faults + 1
Answered == up /\ UNCHANGED faults
Failed   == (~up /\ UNCHANGED faults) \/ TimesOut

\* rig.set_frequency and the like, from a function that only logs a failure.
\* A request that times out may have been carried out: that is Answered here.
SetAtFldigi(field, v) ==
    /\ \/ Answered /\ fldigi' = [fldigi EXCEPT ![field] = v]
       \/ Failed   /\ UNCHANGED fldigi
    /\ UNCHANGED <<trx, up>>

-----------------------------------------------------------------------------
(* What it means to have settled.                                          *)

\* xmlvfo after the three checks of get_fldigi_status on the reported settings s.
Heard(s) ==
    [freq  |-> s.freq,
     imode |-> IF s.imode # vfoA.imode THEN s.imode ELSE xmlvfo.imode,
     iBW   |-> IF s.iBW # vfoA.iBW THEN s.iBW ELSE xmlvfo.iBW]

GuiIdle == gui = <<>> /\ awake = <<>>

NothingNew == Heard(fldigi) = xmlvfo

\* Nothing is queued, and another round of the xmlrpc thread would change nothing:
\* while fldigi transmits its settings are not looked at.
AtRest ==
    /\ GuiIdle
    /\ fldigi_online
    /\ xpc \in {"sleep", "queue", "poll", "check"}
    /\ xpc = "check" => status = <<[set |-> fldigi, tx |-> trx]>>
    /\ qfreq = <<>>
    /\ ptt_on = trx
    /\ ptt_on \/ NothingNew

Calm == \/ AtRest /\ NothingNew
        \/ GuiIdle /\ ~fldigi_online /\ xpc = "sleep"

Edit == edits < MaxEdits /\ edits' = edits + 1
SettingEdit == Edit /\ turns' = (turns /\ Calm)

-----------------------------------------------------------------------------
(* The GUI thread.  A callback starts when the thread is idle; "gui" holds *)
(* the calls it has still to make, so that the xmlrpc thread can run       *)
(* between them.                                                           *)

\* The operator tunes: movFreq stores and commands the frequency, then queues it.
Tune(f) ==
    /\ gui = <<>> /\ f # vfoA.freq
    /\ SettingEdit
    /\ vfoA' = [vfoA EXCEPT !.freq = f]
    /\ gui'  = <<Call("push", f)>>
    /\ UNCHANGED <<gleft, tx, keyedBy, thread, peer, xmlvfo, qfreq, awake, faults>>

\* The operator selects a bandwidth: setBW.
SelectBW(w) ==
    /\ gui = <<>> /\ w # vfoA.iBW
    /\ SettingEdit
    /\ vfoA' = [vfoA EXCEPT !.iBW = w]
    /\ gui'  = <<New("iBW", w)>>
    /\ UNCHANGED <<gleft, tx, keyedBy, thread, peer, xmlvfo, qfreq, awake, faults>>

\* The operator selects a mode: setMode.  A new mode brings its own bandwidth,
\* which is stored and sent first; the mode already set only resends the bandwidth.
SelectMode(m) ==
    LET w == IF m = vfoA.imode THEN vfoA.iBW ELSE DefaultBW(m)
    IN  /\ gui = <<>> /\ w \in Widths
        /\ SettingEdit
        /\ vfoA' = [vfoA EXCEPT !.iBW = w]
        /\ gui'  = <<New("iBW", w)>> \o
                   (IF m = vfoA.imode THEN <<>> ELSE <<Call("setmode", m)>>)
        /\ UNCHANGED <<gleft, tx, keyedBy, thread, peer, xmlvfo, qfreq, awake, faults>>

\* The PTT button: cbPTT keys or unkeys without telling the xmlrpc thread.
PressPTT ==
    /\ gui = <<>> /\ Edit
    /\ tx' = ~tx /\ keyedBy' = "kcat"
    /\ UNCHANGED <<vfoA, gui, gleft, thread, peer, xmlvfo, qfreq, awake, faults, turns>>

\* send_xml_freq.
Push ==
    /\ gui # <<>> /\ Head(gui).op = "push"
    /\ qfreq' = Append(qfreq, Head(gui).val)
    /\ gui' = Tail(gui)
    /\ UNCHANGED <<vfoA, gleft, tx, keyedBy, thread, peer, xmlvfo, awake, edits, faults, turns>>

\* setMode, once setBW has returned: the mode is stored, then sent.
StoreMode ==
    /\ gui # <<>> /\ Head(gui).op = "setmode"
    /\ vfoA' = [vfoA EXCEPT !.imode = Head(gui).val]
    /\ gui'  = <<New("imode", Head(gui).val)>>
    /\ UNCHANGED <<gleft, tx, keyedBy, thread, peer, xmlvfo, qfreq, awake, edits, faults, turns>>

\* send_new_mode and send_new_bandwidth: nothing while offline.
NewSetting ==
    /\ gui # <<>> /\ Head(gui).op = "new"
    /\ gui' = IF fldigi_online THEN <<Call("tell", Head(gui).val)>> \o Tail(gui) ELSE Tail(gui)
    /\ UNCHANGED <<vfoA, gleft, tx, keyedBy, thread, peer, xmlvfo, qfreq, awake, edits, faults, turns>>

\* Otherwise, once mutex_xmlrpc is free, xmlvfo takes the value and fldigi is told,
\* although the link may have been lost during the wait.
TellFldigi ==
    LET new == Head(gui).val
    IN  /\ gui # <<>> /\ Head(gui).op = "tell"
        /\ xpc = "sleep"
        /\ gui' = Tail(gui)
        /\ xmlvfo' = [xmlvfo EXCEPT ![new.op] = new.val]
        /\ SetAtFldigi(new.op, new.val)
        /\ UNCHANGED <<vfoA, gleft, tx, keyedBy, thread, qfreq, awake, edits, turns>>

\* The FLTK loop runs the oldest awake callback: set_xml_values starts its copy,
\* setPTT sets the button and keys or unkeys.
RunAwake ==
    /\ gui = <<>> /\ awake # <<>>
    /\ awake' = Tail(awake)
    /\ \/ /\ Head(awake) = ValuesChanged
          /\ gui' = <<Call("copy", FALSE)>> /\ gleft' = Fields
          /\ UNCHANGED <<tx, keyedBy>>
       \/ /\ Head(awake).op = "ptt"
          /\ tx' = Head(awake).val /\ keyedBy' = "fldigi"
          /\ UNCHANGED <<gui, gleft>>
    /\ UNCHANGED <<vfoA, thread, peer, xmlvfo, qfreq, edits, faults, turns>>

\* vfoA = xmlvfo in set_xml_values: no lock is held, so the fields are read one
\* by one while the xmlrpc thread may write them.
CopyFromXml(f) ==
    /\ f \in gleft
    /\ vfoA'  = [vfoA EXCEPT ![f] = xmlvfo[f]]
    /\ gleft' = gleft \ {f}
    /\ gui'   = IF gleft' = {} THEN <<>> ELSE gui
    /\ UNCHANGED <<tx, keyedBy, thread, peer, xmlvfo, qfreq, awake, edits, faults, turns>>

-----------------------------------------------------------------------------
(* The xmlrpc thread.                                                      *)

\* The loop wakes up and takes mutex_xmlrpc; while offline it only counts down
\* to the next attempt to connect.
WakeUp ==
    /\ xpc = "sleep"
    /\ \/ fldigi_online /\ xpc' = "queue" /\ UNCHANGED try_count
       \/ /\ ~fldigi_online
          /\ try_count' = try_count - 1
          /\ xpc' = IF try_count' = 0 THEN "announce" ELSE "sleep"
    /\ UNCHANGED <<kcat, fldigi_online, ptt_on, status, xleft, peer, xmlvfo, qfreq, awake,
                   edits, faults, turns>>

\* Variant of SendQueued: the frequency sent stays in the queue.
SendQueuedNoPop ==
    /\ xpc = "queue" /\ qfreq # <<>>
    /\ xmlvfo' = [xmlvfo EXCEPT !.freq = Head(qfreq)]
    /\ SetAtFldigi("freq", Head(qfreq))
    /\ UNCHANGED <<kcat, thread, qfreq, awake, edits, turns>>

\* One round of send_queue: send_new_freq stores, sends and forgets a failure.
SendQueued ==
    /\ xpc = "queue" /\ qfreq # <<>>
    /\ xmlvfo' = [xmlvfo EXCEPT !.freq = Head(qfreq)]
    /\ SetAtFldigi("freq", Head(qfreq))
    /\ qfreq' = Tail(qfreq)
    /\ UNCHANGED <<kcat, thread, awake, edits, turns>>

QueueSent ==
    /\ xpc = "queue" /\ qfreq = <<>>
    /\ xpc' = "poll"
    /\ UNCHANGED <<kcat, fldigi_online, ptt_on, try_count, status, xleft, peer, xmlvfo,
                   qfreq, awake, edits, faults, turns>>

\* Variant of Offline: the count is not started again.
OfflineKeepsCount ==
    /\ fldigi_online' = FALSE
    /\ UNCHANGED try_count
    /\ xpc' = "sleep"

\* The handler of xmlrpc_thread_loop for a failed request.
Offline ==
    /\ fldigi_online' = FALSE
    /\ try_count' = CheckCount
    /\ xpc' = "sleep"

\* get_fldigi_status: one request for everything, which may fail.
Poll ==
    /\ xpc = "poll"
    /\ \/ /\ Answered
          /\ status' = <<[set |-> fldigi, tx |-> trx]>>
          /\ xpc' = "check" /\ UNCHANGED <<fldigi_online, try_count>>
       \/ Failed /\ Offline /\ UNCHANGED status
    /\ UNCHANGED <<kcat, ptt_on, xleft, peer, xmlvfo, qfreq, awake, edits, turns>>

\* Variant of Check: the settings are looked at while fldigi transmits, too.
CheckAlways ==
    LET heard == Heard(Head(status).set)
    IN  /\ xpc = "check"
        /\ ptt_on' = Head(status).tx
        /\ xmlvfo' = heard
        /\ awake' = awake \o (IF ptt_on' # ptt_on THEN <<PttChanged(ptt_on')>> ELSE <<>>)
                          \o (IF heard # xmlvfo THEN <<ValuesChanged>> ELSE <<>>)
        /\ xpc' = "sleep" /\ status' = <<>>
        /\ UNCHANGED <<kcat, fldigi_online, try_count, xleft, peer, qfreq,
                       edits, faults, turns>>

\* Variant of Check: the GUI is called once per answer, for the settings if they changed.
CheckOneCallback ==
    LET heard == IF Head(status).tx THEN xmlvfo ELSE Heard(Head(status).set)
    IN  /\ xpc = "check"
        /\ ptt_on' = Head(status).tx
        /\ xmlvfo' = heard
        /\ awake' = awake \o (CASE heard # xmlvfo   -> <<ValuesChanged>>
                                [] ptt_on' # ptt_on -> <<PttChanged(ptt_on')>>
                                [] OTHER            -> <<>>)
        /\ xpc' = "sleep" /\ status' = <<>>
        /\ UNCHANGED <<kcat, fldigi_online, try_count, xleft, peer, qfreq,
                       edits, faults, turns>>

\* The checks on the answer.  A change of transmit state is handed to the GUI;
\* the settings are looked at only while fldigi is not transmitting, and the GUI
\* is called when they have changed.
Check ==
    LET trxState == Head(status).tx
        heard    == IF trxState THEN xmlvfo ELSE Heard(Head(status).set)
    IN  /\ xpc = "check"
        /\ ptt_on' = trxState
        /\ xmlvfo' = heard
        /\ awake' = awake \o (IF ptt_on' # ptt_on THEN <<PttChanged(ptt_on')>> ELSE <<>>)
                          \o (IF heard # xmlvfo THEN <<ValuesChanged>> ELSE <<>>)
        /\ xpc' = "sleep" /\ status' = <<>>
        /\ UNCHANGED <<kcat, fldigi_online, try_count, xleft, peer, qfreq,
                       edits, faults, turns>>

\* Variant of Announce: the link counts as online as soon as fldigi has answered.
AnnounceOnline ==
    /\ xpc = "announce"
    /\ \/ /\ Answered /\ xpc' = "copy" /\ xleft' = Fields
          /\ fldigi_online' = TRUE /\ UNCHANGED try_count
       \/ Failed /\ Offline /\ UNCHANGED xleft
    /\ turns' = (turns /\ GuiIdle)
    /\ UNCHANGED <<kcat, ptt_on, status, peer, xmlvfo, qfreq, awake, edits>>

\* send_rig_info, first part: take control, send the name and the two lists.
Announce ==
    /\ xpc = "announce"
    /\ \/ Answered /\ xpc' = "copy" /\ xleft' = Fields /\ UNCHANGED <<fldigi_online, try_count>>
       \/ Failed /\ Offline /\ UNCHANGED xleft
    /\ turns' = (turns /\ GuiIdle)
    /\ UNCHANGED <<kcat, ptt_on, status, peer, xmlvfo, qfreq, awake, edits>>

\* Variant of CopyToXml: the mode is not copied.
CopyNoMode(f) ==
    /\ xpc = "copy" /\ f \in xleft
    /\ xmlvfo' = IF f = "imode" THEN xmlvfo ELSE [xmlvfo EXCEPT ![f] = vfoA[f]]
    /\ xleft'  = xleft \ {f}
    /\ xpc' = IF xleft' = {} THEN "send" ELSE "copy"
    /\ UNCHANGED <<kcat, fldigi_online, ptt_on, try_count, status, peer, qfreq, awake,
                   edits, faults, turns>>

\* xmlvfo = vfoA in send_rig_info, field by field as in CopyFromXml.
CopyToXml(f) ==
    /\ xpc = "copy" /\ f \in xleft
    /\ xmlvfo' = [xmlvfo EXCEPT ![f] = vfoA[f]]
    /\ xleft'  = xleft \ {f}
    /\ xpc' = IF xleft' = {} THEN "send" ELSE "copy"
    /\ UNCHANGED <<kcat, fldigi_online, ptt_on, try_count, status, peer, qfreq, awake,
                   edits, faults, turns>>

\* send_new_mode, send_new_bandwidth and send_sideband, called by the thread that
\* holds mutex_xmlrpc: they return because fldigi_online is still false, and would
\* wait for their own lock if it were true.
SendSettings ==
    /\ xpc = "send"
    /\ ~fldigi_online
    /\ xpc' = "sendfreq"
    /\ UNCHANGED <<kcat, fldigi_online, ptt_on, try_count, status, xleft, peer, xmlvfo,
                   qfreq, awake, edits, faults, turns>>

\* The end of send_rig_info.  send_new_freq forgets a failure, so the link is
\* online even when fldigi has just gone.
GoOnline ==
    /\ xpc = "sendfreq"
    /\ SetAtFldigi("freq", xmlvfo.freq)
    /\ fldigi_online' = TRUE
    /\ xpc' = "sleep"
    /\ UNCHANGED <<kcat, ptt_on, try_count, status, xleft, xmlvfo, qfreq, awake, edits, turns>>

-----------------------------------------------------------------------------
(* fldigi and its operator.                                                *)

FldigiSet(field, v) ==
    /\ up /\ fldigi[field] # v
    /\ SettingEdit
    /\ fldigi' = [fldigi EXCEPT ![field] = v]
    /\ UNCHANGED <<kcat, thread, trx, up, xmlvfo, qfreq, awake, faults>>

FldigiTR ==
    /\ up /\ Edit
    /\ trx' = ~trx
    /\ UNCHANGED <<kcat, thread, fldigi, up, xmlvfo, qfreq, awake, faults, turns>>

FldigiStops ==
    /\ up /\ Edit
    /\ up' = FALSE
    /\ UNCHANGED <<kcat, thread, fldigi, trx, xmlvfo, qfreq, awake, faults, turns>>

\* fldigi comes up in receive, with the settings it was left with or others.
FldigiStarts ==
    /\ ~up
    /\ up' = TRUE /\ trx' = FALSE
    /\ fldigi' \in Settings
    /\ turns' = (turns /\ (fldigi' = fldigi \/ Calm))
    /\ UNCHANGED <<kcat, thread, xmlvfo, qfreq, awake, edits, faults>>

-----------------------------------------------------------------------------
Init ==
    /\ vfoA \in Settings /\ xmlvfo = vfoA
    /\ fldigi = vfoA /\ trx = FALSE /\ up = FALSE
    /\ fldigi_online = FALSE /\ ptt_on = FALSE /\ try_count = CheckCount
    /\ xpc = "sleep" /\ status = <<>> /\ xleft = {}
    /\ gui = <<>> /\ gleft = {} /\ qfreq = <<>> /\ awake = <<>>
    /\ tx = FALSE /\ keyedBy = "fldigi"
    /\ edits = 0 /\ faults = 0 /\ turns = TRUE

GuiStep ==
    \/ Push \/ StoreMode \/ NewSetting \/ TellFldigi \/ RunAwake
    \/ \E f \in Fields : CopyFromXml(f)

XmlRpcStep ==
    \/ WakeUp \/ SendQueued \/ QueueSent \/ Poll \/ Check
    \/ Announce \/ SendSettings \/ GoOnline
    \/ \E f \in Fields : CopyToXml(f)

OperatorStep ==
    \/ \E f \in Freqs  : Tune(f)
    \/ \E m \in Modes  : SelectMode(m)
    \/ \E w \in Widths : SelectBW(w)
    \/ PressPTT

FldigiStep ==
    \/ \E f \in Freqs  : FldigiSet("freq", f)
    \/ \E m \in Modes  : FldigiSet("imode", m)
    \/ \E w \in Widths : FldigiSet("iBW", w)
    \/ FldigiTR \/ FldigiStops \/ FldigiStarts

Next == GuiStep \/ XmlRpcStep \/ OperatorStep \/ FldigiStep

Spec == Init /\ [][Next]_vars

\* Both threads run.  The GUI thread waits for mutex_xmlrpc, which the xmlrpc
\* thread releases for 50 ms of every round: a strong fairness of the GUI's calls.
FairSpec == Spec /\ SF_vars(GuiStep) /\ WF_vars(XmlRpcStep)

-----------------------------------------------------------------------------
(* Properties.                                                             *)

\* Types.  try_count stays positive while offline: were it not reset when the link
\* is lost, the test for zero would never again be met and kcat not reconnect.
TypeOK ==
    /\ vfoA \in Settings /\ xmlvfo \in Settings /\ fldigi \in Settings
    /\ status \in {<<>>} \cup {<<st>> : st \in Status} /\ qfreq \in Seq(Freqs)
    /\ try_count \in 0..CheckCount
    /\ xpc \in {"sleep", "queue", "poll", "check", "announce", "copy", "send", "sendfreq"}
    /\ xleft \subseteq Fields /\ gleft \subseteq Fields
    /\ \A i \in 1..Len(gui) : gui[i].op \in {"push", "setmode", "new", "tell", "copy"}
    /\ awake \in Seq({ValuesChanged, PttChanged(TRUE), PttChanged(FALSE)})
    /\ keyedBy \in {"kcat", "fldigi"}
    /\ {fldigi_online, ptt_on, tx, trx, up, turns} \subseteq BOOLEAN

\* As long as every edit, at either program, is made when the previous one has
\* settled, both programs show the same settings whenever the link is at rest: also
\* after lost requests, restarts of fldigi and edits made while it was not running.
TakingTurnsStaysInSync == turns /\ AtRest /\ NothingNew => vfoA = fldigi

\* The documentation of the link: "The two programs will remain synchronized."
\* With nothing left to send or to report, both programs show the same settings.
RemainSynchronized == AtRest /\ ~ptt_on => vfoA = fldigi

\* A transmitter that fldigi keyed is unkeyed when fldigi returns to receive: once
\* the link is at rest it agrees with fldigi unless the kcat operator changed it
\* last, also when fldigi was restarted in between.
PttFollowsFldigi == AtRest /\ keyedBy = "fldigi" => tx = trx

\* Settings that come from fldigi never retune a transmitter that fldigi has keyed:
\* the two kinds of callback run in the order in which they were queued.
NeverRetunesKeyed == [][tx /\ keyedBy = "fldigi" => gleft' = gleft]_vars

\* A call from the GUI thread into the link ends, and so do the callbacks: no
\* thread waits for ever for mutex_xmlrpc.
CallsReturn == (gui # <<>>) ~> GuiIdle

\* When the operators stop and fldigi stays up, the link comes to rest: it is online
\* and no change is sent back and forth for ever.
ComesToRest == <>[](up => AtRest)
=============================================================================
