# kcat: a verification project

kcat is a control program for the Kachina 505DSP transceiver. It talks to the
radio over a serial port with short command packets, shows the telemetry the
radio sends, keeps the radio's connection alive, and shares frequency, mode,
bandwidth and transmit state with the digital-mode program fldigi. This
directory holds TLA+ models of the concurrent core of that program and of the
parts whose state is hard to keep right, the TLC runs that check them, and TLAPS
proofs about all of the models; what is left to TLC is at the end of section 4.

Paths below are relative to the repository; the program itself is in
`src/support`, `src/UI` and `src/widgets`.

## 1. Inventory

| Component | State | Operations | Talks to |
|---|---|---|---|
| Radio commands, `support/kcat_io.cxx` | `cmd` (current packet), `retval`, `commstack`, packet buffers `cmdK_*` | `sendCmd`, `RequestData`, `setXcvr*`, `initXcvrState`, `Calibrate`, `startComms` | port under `mutex_serial`; pushes stray bytes on `commstack`; reloads `watchdog_count` |
| Serial port, `support/serialcomm.cxx` | file descriptor, timeout | `OpenPort`, `ClosePort`, `ReadBuffer`, `WriteBuffer`, `IOselect` | the radio |
| Telemetry stack, `support/cstack.cxx` | `top`, `stackPtr` | `push`, `pop`, `isEmpty`, `isFull` | telemetry thread, callers of `sendCmd`, GUI; no lock of its own |
| Telemetry thread, `support/support.cxx` | - | `telemetry_thread_loop`, `parseTelemetry` (GUI) | port, stack, `Fl::awake` |
| Watchdog thread, `support/support.cxx` | `watchdog_count` | `watchdog_thread_loop`, `setXcvrNOOP` | `sendCmd` |
| fldigi link, `support/xml_io.cxx` | `xmlvfo`, `qfreq`, `fldigi_online`, `ptt_on`, `try_count` | `xmlrpc_thread_loop`, `send_new_*`, `send_xml_freq`, `get_fldigi_status`, `send_rig_info` | fldigi by XML-RPC; GUI by `Fl::awake`; `mutex_xmlrpc` |
| VFO panel, `support/support.cxx` | `vfoA`, `vfoB`, `rx_on_a`, `tx_on_a`, widgets | `movFreq`, `movFreqB`, `setMode`, `setBW`, `cbRxA` ... `cbB2A`, `set_xml_values` | radio commands, fldigi link |
| Receiver controls, `support/support.cxx`, `support/kcat_io.cxx` | buttons, sliders, `xcvrState` | `setInhibits`, `cbbtnNR`, `cbbtnNotch`, `cbIFsh`, `cbsldrAgcSpeed`, `cbAttenuator`, `cbPreamp`, `initXcvrState`, `checkCalibrate` | radio commands, saved state |
| CW keyboard, `UI/dialogs.cxx`, `support/support.cxx` | text to send, `char_duration` | `cw_thread_loop`, `sendChar`, `delete_char` | `sendCmd`, `Fl::awake` |
| Frequency list, `support/support.cxx` | `oplist`, `numinlist`, browser | `addFreq`, `delFreq`, `sortList`, `updateSelect`, `readFile`, `selectFreq` | `.arv` files, panel |
| Antenna ports, `UI/dialogs.cxx`, `support/kcat_io.cxx`, `support/status.cxx` | `antports`, `numantports` | `antPort`, `cbAddAntRange`, `cbDeleteAntRange`, `loadLastState`, `saveLastState` | `kcat.ant`, every frequency command |
| Frequency display, `widgets/FreqControl.cxx` | `val`, `oldval`, `finp`, the timer `blink_point` | `handle`, `freq_input_cb`, `IncFreq`, `DecFreq`, `value` | `movFreq` |
| Logbook and contest messages, `UI/dialogs.cxx`, `support/xmlrpc_log.cxx` | serial number, `connected` | `expand_msg`, `xml_add_record`, `connect_to_server` | logbook server by XML-RPC, CW keyboard |
| XML-RPC library, `xmlrpcpp` | connection, request and answer buffers, sources | `execute`, `writeRequest`, `readHeader`, `readResponse`, `work`; the server's counterparts | sockets |
| Start and exit, `support/support.cxx` | four `pthread_t`, `exit_*` flags | `startProcessing`, `cbExit` | all threads |
| Preferences, other widgets and dialogs, generated panel, utilities | values, drawing | - | not modelled |

Five threads run: the FLTK GUI thread, the watchdog, the telemetry thread, the
xmlrpc thread and the CW thread. Work goes back to the GUI through `Fl::awake`,
a queue the GUI empties when it is back in its event loop.

What is hard, and what makes each part correct:

* **Serial commands.** Up to three threads send and a fourth reads. An answer
  byte does not say which command it answers, tries are repeated, and answers
  can be late. Correct means: one command at a time, a verdict that is the
  radio's verdict on that command, bounded re-execution, and every call returns.
* **Keep-alive.** `watchdog_count` is decremented by one thread and overwritten
  by others without a lock, and compared with zero for equality only. Correct
  means: zero is never stepped over and the radio is never left alone for long.
* **fldigi link.** Two copies of the settings are edited by two operators; the
  GUI works on one without a lock while the thread works on the other. Correct
  means: the programs end up showing the same, transmit state is followed, the
  radio is not retuned while fldigi transmits, and no thread waits for its own lock.
* **Exit.** The GUI stops four threads in turn and takes away what they use.
  Correct means: nothing is taken from a thread that still uses it, and the
  program does end.
* **Shared packets.** One global pointer `cmd` and one buffer per command serve the
  GUI and the watchdog. Correct means: what is sent for a setting is that setting,
  and an older value never follows a newer one.
* **Telemetry stack.** No lock, three threads. Correct means: no access outside the
  array, and meters that belong to the direction in use.
* **Receiver controls.** The radio takes some commands in some modes, and one command
  serves two controls. Correct means: what is shown is what was taken, or the way in
  which it is not is known.
* **CW keyboard.** One thread keys the text, another deletes it, later and by place.
  Correct means: each character is keyed once, in order.
* **Lists.** Arrays of fixed size beside a browser and a file. Correct means: what
  is shown is what is selected, and what was deleted decides nothing.
* **Frequency entry.** An entry is going on while other controls tune. Correct
  means: the radio is on what is shown, or on what Escape goes back to.
* **Logging.** One message gives, logs and counts a number. Correct means: the
  number logged is the number given, unless it was counted or typed in between.
* **XML-RPC.** A connection outlives its calls, a request is repeated when the
  server closed it. Correct means: no answer to another call, nothing done twice
  by one life of the server, and every call returns.

Every hazard is in `PROJECT.json` at its line, with the properties that cover it.

## 2. Modules

| Module | Stands for | Run or proof |
|---|---|---|
| `SerialLink` | `sendCmd`, `RequestData`, the telemetry thread, `parseTelemetry`, the port and the radio | `SerialLink`, `SerialLinkLive` |
| `CommandChannel` | what `sendCmd` and `RequestData` promise their callers (abstract) | refined by `SerialLink` |
| `SerialLinkProofs` | theorems about `SerialLink` | TLAPS |
| `KeepAlive` | the watchdog and the reload in `sendCmd` | `KeepAlive` |
| `KeepAliveProofs` | theorems about `KeepAlive` | TLAPS |
| `FldigiSync` | the xmlrpc thread, the GUI's calls into it and its callbacks, fldigi | `FldigiSync`, `FldigiSyncLive`, `FldigiSyncDocs` |
| `FldigiSyncProofs` | theorems about `FldigiSync` | TLAPS |
| `Shutdown` | `cbExit` against the loops of the four threads | `Shutdown`, `ShutdownClient` |
| `ShutdownProofs` | theorems about `Shutdown` | TLAPS |
| `XmlRpc` | a client and a server of `xmlrpcpp`, with stops and starts of the server | `XmlRpc` |
| `RemoteCall` | what a caller of `execute` may rely on (abstract) | refined by `XmlRpc` |
| `XmlRpcProofs` | theorems about `XmlRpc` | TLAPS |
| `VfoPanelProofs` | theorems about `VfoPanel` | TLAPS |
| `Receiver` | the receiver's controls, changes of mode, scanner, calibration, start, the radio that takes them | `Parts` |
| `SharedCommand` | the global `cmd`, the packet buffers, `setXcvr*` against `setXcvrNOOP` | `Parts` |
| `Telemetry` | the stack `cStack` without a lock, the meters | `Parts` |
| `CwKeyboard` | `cw_thread_loop` against the text the GUI edits | `Parts` |
| `UnlockedProofs` | theorems about `SharedCommand`, `Telemetry` and `CwKeyboard` | TLAPS |
| `ExchangeSort` | `sortList` and `sortAntPortList`, the same two loops | used by the next two |
| `MemoryList` | the list of frequencies, its browser and file | `Parts` |
| `AntennaPorts` | the table of antenna ranges, its dialog and file | `Parts`, `AntennaPortsAdd` |
| `FreqControl` | the frequency display and its keyboard entry | `Parts` |
| `Contest` | contest messages and the logbook | `Parts` |
| `WidgetProofs` | theorems about `MemoryList`, `AntennaPorts`, `ExchangeSort`, `FreqControl`, `Contest` and `Receiver` | TLAPS |
| `MCVfoPanel`, `MCParts`, `MCAntennaPorts` | the instances TLC checks | |

All modules describe the program with a radio connected. In test mode (`testing`)
`sendCmd` and `RequestData` return at once and the port is never opened.

Operators named "a fault" or "Variant of" in the comments are mutations of the
definition that follows them. No specification uses them; `PROJECT.json` says
which property each one breaks.

### SerialLink

One action per step between two points where another thread can act: taking
`mutex_serial`, one `WriteBuffer`, one `ReadBuffer`, the data block of
`RequestData`, leaving. `tries` is the loop variable `i`, `loopcnt` is itself,
`verdict` is `retval` with `ret`. The two functions share their actions; they
differ in the byte that ends the wait (`Good`). The telemetry thread reads under
the lock and pushes after it, as in the code. The line is a pair of sequences;
the radio answers in the order of arrival, may reject, may lose a damaged packet
and may send telemetry at any time. Bytes are "FF", "FE", "FD" and "T"; "0" is
the cleared buffer of a read that timed out.

Two histories are kept for the properties only: the number of the request each
byte answers, and `clean`, which says that the request in service started on a
quiet line and none of its tries was abandoned while an answer was still due.
The second is the honest limit of this protocol: an answer that arrives after
its try was given up is taken for the answer to the next one, and nothing in the
code can tell. `VerdictSound` therefore speaks of clean requests, and
`AtMostMaxTries` and `EveryCallReturns` of all of them.

`CommandChannel` is the promise without the line: callers ask, are served one at
a time, the radio decides, the call is answered. `ChannelSpec` is the refinement,
with `ServedBy`, `Phase` and `Fate` as its mapping.

### KeepAlive

Timed: a tick is the watchdog's `MilliSleep(100)`. `--watchdog_count == 0` is a
load and a store, `watchdog_count = 1500` in `sendCmd` may fall between them.
`CallTicks` bounds how long one call may hold the port (its tries times its
reads); `reloads` separates `sendCmd`, which reloads, from `RequestData`, which
does not. The reloads 150 and 1500 are constants, and the property bounds are
stated in them.

A call may get the port and the radio still hear nothing: `WritesFail` is a call
whose writes all come back short. It takes no time, and a `sendCmd` reloads the count
at its end all the same, so each such call may add one longer reload to the silence.
`deaf` counts those since the radio heard the last command, and `SilenceBounded` is
stated with it. `MaxDeaf` bounds them in succession: a port that takes nothing any more
keeps the radio from hearing anything, whatever the program does.

### FldigiSync

`gui` is the list of calls the GUI thread has still to make before it is back in
its event loop, so that the xmlrpc thread runs between them; `awake` is the
`Fl::awake` queue; `xpc` is the place in `xmlrpc_thread_loop`, which holds
`mutex_xmlrpc` everywhere but in its sleep. Unlocked structure copies
(`vfoA = xmlvfo`, `xmlvfo = vfoA`) are made field by field in any order. A
request fails when fldigi is down or by a timeout; functions that only log a
failure go on, the others end in the handler of the loop (`Offline`). kcat works
on VFO A for both directions, which is how it starts.

`AtRest` is the state in which nothing is queued and one more round of the
thread would change nothing. `turns` is a history: each edit was made after the
previous one had settled, and none was under way while the link was being set
up. With it the programs always agree (`TakingTurnsStaysInSync`); without it
they need not (`RemainSynchronized`, a violation).

### Shutdown

`cbExit` has four sections of the same form, so `stage` counts them and `gui` is
the place inside one: lock, set the flag, unlock, join. `Section` and `JoinedIn`
say whose mutex and flag and whose `pthread_t` a section uses; they differ in the
fourth. Of a worker's round there remain the test of its flag, the decision that
there is work (a count of zero, a text to send), its own mutex if it has one, and
its uses of the port under `mutex_serial` or of the XML-RPC client. A second join
of a thread is undefined; it is modelled by what the C library does, an immediate
return. `send_no_rig` and `close_rig_xmlrpc` take no mutex, as in the code.

### VfoPanel

One action per callback: the GUI thread runs each to its end, so the hard part is
not their interleaving but their order, since every one of them assumes what the
others left. A callback's commands are a sequence of pairs of a setting and a
value; `Sends` gives them to the radio one after the other, and the radio ignores
those that the inhibit table in `IOspec.cxx` excludes in the state it has reached
by then. Push to talk is not all that puts it on the air: the tune carrier of
`cbCarrier` is a command of the CW transmit buffer, and in CW, where push to talk is
refused, the radio transmits by the carrier alone (`OnAir`). That buffer is also what AM
and FM refuse, with the bandwidth. `op`, `disp`, `btn` and `active` are the widgets: a callback of a widget
happens only while the widget is active. `told` is what fldigi was told or has
chosen. `FldigiPTT` and `FldigiSets` are the callbacks queued by the xmlrpc
thread; how they get there is `FldigiSync`.

`Agree` says that VFOs, radio, fldigi and panel show the same. `KeepsAgreement`
names everything that may end it while there is neither key nor tune carrier
(`Silent`): `cbA2B` and `cbB2A` into the VFO that transmits (mode and bandwidth are
copied but not sent), `set_xml_values` while VFO B is in use (it always writes VFO A and
both radio frequencies), the scanner, and the calibration. `checkCalibrate` tunes the
receiver to a standard frequency, in CW; `cbCalFinished` restores the panel by
`initXcvrState`, which sends the frequency of VFO A and no mode. `PairingResyncs` says
what ends such a state. The bandwidth is compared outside AM and FM only, where the
radio takes none. Both ask for `Silent` and not for `~OnAir`: a carrier left set in USB goes on
the air when the first of a pairing's two modes is CW, and the radio then refuses the second.

`KeyedIsShown` has an exception, which the history `stuck` names. Carrier in USB, fldigi
keys and unkeys (which enables the button again), AM, Carrier again: the radio, in AM, does
not take `TUN0`, both buttons are dark, and the next change to CW transmits. No
document says what the button shall do there, so it is a hazard and not a finding.

IF shift, notch, noise reduction and AGC are in `Receiver`, the list of memories in
`MemoryList`; the tuner is left out. A memory is any of `Presets`. `Start`, `Presets` and `MaxCalls` are bounds.
There is no liveness here: no callback has to happen.

### Receiver

`shown` is what the widgets show, `set` what the radio has taken, one command after the
other: in AM and FM it takes neither notch, noise reduction, AGC nor IF shift, and on
the air no mode. What puts it on the air (`Key`: PTT, the button Carrier, fldigi, the keyer,
a paddle, VOX) may come and go between any two callbacks. The
`groups` are the widgets that `setInhibits` (`ChangeGroups`) and the two buttons enable
together. `ChooseNewMode` and `ChooseSameMode` are `setMode` with the two outcomes of its
test. `VfoMode` sends two modes, as the pairings and `selectFreq` do.
`KeepsSettings` names every way in which panel and radio part: with the automatic
notch, the controls that send the noise reduction's level or a notch width
(`OverAutomatic`; `cbbtnNotch` disables them, `setInhibits` enables them again); a
mode left in which something was not taken (`OutOfInhibits`; the choice of a mode sends
all but the notch again, a pairing or memory nothing); calibration, whose end shows a
mode without sending it (`checkCalibrate`, `ModeNotSent`); the scanner, which selects CW past
the panel (`BeginScan`); a mode chosen on the air, or one that finds the radio there because
the mode sent before it was CW and the tune carrier is set (`ModeRefused`); and `WidthForgotten`:
`setXcvrNotchWidth` saves the 3 of the automatic notch as the notch width, which
`opNOTCH`, with three entries, cannot show at the next start, so that -1 is sent as the
width until one is selected.

`EndAndStart` is an exit that saves followed by a start; the radio stays as it was.
`startMode` is the mode `initXcvrState` shows, that of the last start. Only the
transmit VFO's mode is kept. The two controls that share a command have its values
(`DepthSent`), the AGC speed its formula; IF shift and notch frequency are two
positions each.

The comment at `support/kcat_io.cxx:328` says that automatic notch and noise reduction
"are mutually exclusive" and that "the software toggles between them". `cbbtnNotch`
switches the automatic notch on without switching the noise reduction off: two
buttons pressed in turn, and the radio has both, at the depth as level. That is one
branch of one function and has no run. Likewise `setXcvrIFshift` sends a tenth of the
shift where `IOspec.cxx:99` has that plus 128.

### XmlRpc and RemoteCall

The client's connection outlives its calls, so its state does too:
`connectionState`, `eof`, `sendAttempts`, `bytesWritten` and what was read are the
fields of `XmlRpcClient`. `monitored` says that the client is a source of its
dispatcher; the loop of `work` ends when it is not (`Return`) or at its end time
(`TimedOut`), which leaves everything as it is. A request is two pieces and an
answer three, because a header may come in parts; sockets take and give any
number of them. `ended` is how the server's end of a connection was closed: a
write to a connection closed in order succeeds once and is answered with a reset.
The client acts only inside the loop of `execute`, while its call is under way and it
is monitored (`Working`): a call that timed out leaves a half-used connection, which
nothing touches until the next call. The server is the loop of `XmlRpcDispatch`:
`ready` is what `select` has reported, `Turn` the order in which the loop takes it
(the listening socket first, then the connections in the order of its list), one
connection is accepted a round, and connections are removed when `handleEvent`
returns 0. `Crash` may come anywhere and loses what the server had
read; the system closes its sockets.

`endTime` says whether the call under way has a timeout. Those to fldigi have (`TIMEOUT`, half
a second, `support/xml_io.cxx:32`); those to the log program have none, and without one
`select` waits for ever. `Execute` chooses, so both kinds follow each other on one connection.
`CallsReturn` asks nothing of the server while a call has an end time. A call without one
(`Endless`) returns as long as the server, while it runs, attends to its connections, whatever
an earlier server, an unfinished call or a stop in between has left; but a log program that
hangs with its connection open hangs the GUI thread of kcat, in `xml_add_record` or in the
look-up of a call sign that is typed.

`excused` is a history: the calls during which the server stopped or was not
there, a socket could not be opened, or the time ran out. `halved` are the calls
of which a part only was taken by the socket of a connection that the server had closed
before. `FailsForACause` says that no other call fails: what an earlier call or an
earlier server has left of the connection is repaired by a new connection at the start of
`execute` or by the one retry of `readHeader`. The retry is made for a connection that
ends before an answer, not for a request that cannot be written to its end, and that is
the exception. `RemoteCall` is the view from
outside: a call that returns true was carried out, and no call is carried out
more than twice. Once would be too strong: when the server stops after it
has executed the request and before it has answered, the client repeats it. The
mapping is `Returned` and `Done`: what the caller was told, and how often the server
carried the call out.

### SharedCommand

Three patterns, one of which every `setXcvr*` function follows: fill the buffer and then
point `cmd` at it (`setXcvrRcvFreq` and its like), point `cmd` first and write through
it (`setXcvrCompression` and its like), or choose between commands that never change
(`setXcvrSPOT` and `setXcvrCarrier`, which point at the one that switches off on their way;
`setXcvrTune`, `setXcvrRITfreq` and `checkCalibrate`'s bandwidth, which point once). The argument of `sendCmd(cmd)` is read
before the port is waited for and the bytes are copied after. A byte is the number
of the setting it belongs to, so mixtures show. The watchdog can take `cmd` between
any two of these steps; `overtaken` remembers it. The setting may then be lost, or
go into the buffer of the keep-alive command, but it never arrives mixed with another
(`OwnPacketWhole`), and a value in a buffer never out of order (`NeverGoesBack`).

Commands that are chosen have no such order. The watchdog may take `TUN1` for the
argument of its keep-alive, wait for the port while the GUI sends `TUN0`, and send `TUN1`
after it: the carrier is on again, and stays on. It may as well take the `TUN0` that
`setXcvrCarrier` points at on its way to `TUN1`. `NeverGoesBack` and
`ArrivesOrOvertaken` name this and nothing else; the history `repeated` says that the watchdog
has sent a position of the switch since the last setting was begun.

### Telemetry

`++top` and `top--` are a load and a store each, and the telemetry thread and a
sender interleave with `parseTelemetry`. The tests of full and empty come before.
Two pushes that overlap can step over `isFull`, which tests for equality; the guard
`top <= StackSize` bounds how far. The entries are any readings: newest first,
repeated or lost, the meters must belong to the direction in use.

### CwKeyboard

Time counts in units of 1200 / `CWSPEED` ms. `KeyedAsTyped` is about a queue that
is not one: the head is keyed by one thread and removed by the other. It needs two
things the code does not enforce, which the histories `late` and `crossed` name:
the GUI thread deletes within a character gap, and no text is erased meanwhile.

### MemoryList

The array, the number in use, the browser and the file. The guards called bounds
are where the code leaves the array: adding to a full list writes
`oplist[LISTSIZE]`, deleting the line that stays when the last entry went writes
`oplist[-1]`, deleting from a full list reads `oplist[LISTSIZE]`. `updateSelect`
does nothing for an empty list, which is why that line stays. An empty list
cannot be saved. `readFile` reads as many entries as the file has.

### AntennaPorts

`Slot` is where `cbAddAntRange` writes: it looks in the whole array and not in its
first `numantports` entries. `Load` is `loadLastState`, which reads the file over
the built-in ranges, so a shorter file leaves some of them behind the end.
`PortOfNearestStart` holds all the same; that an added range enters the table does
not (`AntennaPortsAdd`). A table without a free place is written to behind its end;
the guard `~NoSlot` ends the behaviour there.

### FreqControl

`blinking` is `Fl::has_timeout(blink_point)`: it, and nothing else, says that an entry
is going on. Keys of the entry, Enter, Escape, Backspace and ctrl-v; the arrow keys,
buttons and wheel, which call back at once with what is shown; and `value`, by which
other parts of the program set the display. `strayed` remembers that part of an
entry was sent, or a number was pasted, which is shown and not sent. Values count in
the unit of the last digit, so the rounding of `freq_input_cb` (which also lets a zero
pass its test `val > 0.0`) is exact.

### Contest

A message is the set of its tags that change state: `<#>`, `<LOG>`, `<+>` and `<->`,
replaced in this order wherever they stand. `given` is the number the station
worked at present was given last, as a set of none or one, and `moved` says that the number
was counted or typed since; both are of the station, and last until another is entered.
The record keeps what they were when it was written, so `LoggedAsGiven` speaks of every
record: its number is the one given, unless `moved`. The exception is the code's: the record has
the number in force when it is written, so a message that gives a number and counts it on without
logging leaves the next one to the button Log. The messages the program comes with
(`support/status.cxx:159-167`) count in the message that logs, which the property covers, or in
one of their own. The logbook server comes and goes at any moment.
Texts are left out, and with them a tag whose expansion contains its own name, on
which `expand_msg` does not end.

### MCParts

Nine parts share no state in the models, so their product would only multiply
their states. In a behaviour of `PartsSpec` one part moves and the others stay as
they started: TLC explores each whole, in one run. All are extended, so that TLC also
evaluates their assumptions; this is why they say `PointerInit`, `StackNext`, `DisplayNext`
or `LogSpec` for their `Init`, `Next` or `Spec`.

## 3. Runs

| Run | Shows | Bounds |
|---|---|---|
| `SerialLink` | `TypeOK`, `VerdictSound`, `AtMostMaxTries`, refinement of `CommandChannel` | two callers and the telemetry thread, 2 requests, 2 tries of 2 reads, stack of 1: late answers, answers to an earlier request, abandoned data blocks and a full stack all occur |
| `SerialLinkLive` | every call returns | as above with 1 try |
| `KeepAlive` | `ZeroIsSeen`, `SilenceBounded`, `RadioHearsFromUs` | two senders, reloads 3 and 7 for 150 and 1500, calls of up to 2 ticks: a reload fits before, between and after load and store; 2 calls in succession that cannot be written |
| `FldigiSync` | agreement when taking turns, PTT, order of callbacks | 2 frequencies, 2 modes, 3 edits, 1 timeout, any number of restarts |
| `FldigiSyncLive` | calls return, the link comes to rest | frequency and bandwidth, 2 edits, 1 timeout |
| `FldigiSyncDocs` | **violated**: the programs remain synchronised | 2 edits |
| `Shutdown` | no thread loses the port while it uses it, exit ends | 2 packets a character, 2 requests a round; exit at any moment, so that each thread is met at each place |
| `ShutdownClient` | **violated**: the thread is ended before its client is deleted | 1 packet, 1 request |
| `XmlRpc` | answers go to their calls, executions are not repeated in a life of the server, failures have causes, refinement of `RemoteCall`, calls return | 2 calls, each with a timeout or without, 2 stops: a connection is handed to a second call in every state, and a retry can meet a second stop |
| `Parts` | the properties of the nine parts | see below |
| `AntennaPortsAdd` | **violated**: a range that is added enters the table | 3 starts, array of 4, 2 built-in ranges |
| `VfoPanelInhibits` | **violated**: commands are sent only when the radio takes them | 4 callbacks |

Bounds. `Parts`: `VfoPanel`: 5 callbacks, 2 frequencies, 5 bandwidths and 3 presets are enough to
key, change, unkey and pair, and to leave a tune carrier set in AM (on the air it goes with the
sixth; the proof has any number); modes USB, CW and AM are one of each kind the inhibit table
tells apart, and the bandwidths those the code names. `SharedCommand`: 3 settings and 2
keep-alives, so that a buffer is refilled while an earlier pointer to it is still in
use, and a switch is set and put back. `Telemetry`: a stack of 3, met empty, full and beyond. `CwKeyboard`: 2
characters typed from a letter and the space, which last longest and shortest against
the gap. `MemoryList` and `AntennaPorts`: arrays of 4, lists empty to full, 2 and 3
frequencies. `FreqControl`: 3 digits in base 2, entries of 5 keys, so that an entry
can pass the limit and be corrected. `Contest`: numbers from -1 to 3. `Receiver`: 5
callbacks (start with a forgotten width, automatic notch on and off and a change of mode; key, change and unkey),
modes USB, CW and AM, two values of each slider, AGC speeds with and without its lower limit.

Fairness. `SerialLink`: a thread inside a call keeps running and its reads time
out (weak fairness); a thread waiting for `mutex_serial` gets it because every
other thread sleeps at least 10 ms between two uses (strong fairness). Nothing is
assumed of the radio. `KeepAlive`: the same, and time passes. `FldigiSync`: the
xmlrpc thread runs (weak); the GUI gets `mutex_xmlrpc` because the thread sleeps
50 ms without it in every round (strong). Nothing is assumed of operators or fldigi.
`Shutdown`: every worker sleeps outside its mutex and outside `mutex_serial`, so the
GUI and the other workers get them (strong); a use of the port or a request ends,
which `SerialLinkLive` and `XmlRpc` show. `XmlRpc`: time passes, so that the loop of
`work` reaches its end time or has nothing to monitor (weak); nothing is assumed of
the server or the network. A call that has no end time needs more, and only while it lasts: the
loops of client and server attend to what `select` reports (weak), and a socket that is written to again and
again takes some of the answer at last (strong), for the client at its other end reads
whenever there is something to read. The server may still stop at any moment.
In `Parts` and `VfoPanelInhibits` nothing has to happen: no operator has to act.

What the four violations mean. A mode or bandwidth chosen while kcat is connecting
to fldigi leaves the programs different until the next change; the same happens to
a frequency tuned just before a callback with fldigi's settings runs. At exit the
XML-RPC client may be deleted under the thread that uses it, because the wrong
thread is joined. Mode, pairing and memory callbacks send commands on the air that
the inhibit table excludes. After a range was deleted and the program started again,
an added range is written behind the end of the table.

Two more differences between code and documents are facts of a single line and need no
run. `sendCmd` makes one retry, and none after a rejection, where two are promised
(`cat_doc/InterfaceSpec.txt:13`). The first keep-alive comes 150 s after
a command and not 15 s (comment at `support/support.cxx:1142`, `cat_doc/InterfaceSpec.txt:110`);
`SilenceBounded` holds with the longer of the two.

## 4. Proofs

`SerialLinkProofs` proves, for every value of the constants that satisfies
`LinkAssumption`:

* `TypeCorrect`: `Spec => []TypeOK`, which includes the loop bounds and the
  capacity of the stack;
* `PortIsExclusive`: at most one caller is between its first write and its
  verdict, and none while the telemetry thread reads;
* `VerdictsAreSound`: `Spec => []VerdictSound`.

All follow from `Invariance`, `Spec => []IInv`. `VerdictSound` is not inductive:
whether a verdict is true depends on where the answer is. `IInv` adds that the
holder of the mutex is the only caller inside (`LockInv`), that a read belongs to
a try that is left (`TryInv`), that jobs are distinct and untouched before they
are served (`JobInv`), that bytes that answer nothing are telemetry (`WireInv`),
and, for a clean request, `CleanInv`: its packet is on its way, or was dropped
with nothing sent, or its single answer sits at one place on the line, in front of
which there is only telemetry, or has been read. Each part has a step lemma with
one step per action; `Inductive` puts them together. From it also

* `MaxTriesAreKept`: `Spec => []AtMostMaxTries`;
* `LinkServesCommands`: `Spec => ChannelSpec`, the refinement of `CommandChannel`. A
  step of the line or of the telemetry thread is a stutter; taking the mutex, the
  verdict of the radio and leaving with a result are the steps of the channel. The
  invariant is needed where the code could do the wrong one: two callers in service,
  or a verdict delivered twice.

`KeepAliveProofs` proves, under `KeepAliveAssumption`, for any two reloads, any
length of a call and any set of sending threads:

* `ZeroIsAlwaysSeen`: `Spec => []ZeroIsSeen`;
* `SilenceIsBounded`: `Spec => []SilenceBounded`;
* `CountStaysInRange`: `Spec => []TypeOK`, in which the count stays between zero and
  the longer of the two reloads.

The argument is a sum. Each tick adds one to the silence and the watchdog takes one
from the count, so silence plus count does not grow; it can only jump when
`watchdog_count` is overwritten, and then either the radio heard from a thread at most one
call ago, or the thread's writes failed and the limit is one longer reload further away
(`LineInv`: while a thread has the line, the silence is the age of its call, or no time passes
before the call ends). The limit, `SilenceLimit(deaf)`, is a longer reload, a call, and a longer
reload for each call in succession that was not written (`LimitGrows`); of their number
nothing is assumed. The watchdog's stale store writes back less than what it loaded, and that
satisfied the bound when it was loaded; the reload it destroys only lengthened the
wait (`SumInv`). That the count cannot step over zero is `ZeroInv`: outside the
call of the watchdog both the count and what it has loaded are at least one.

`UnlockedProofs` is about what threads share without a lock.

* The command pointer, for any number of settings and keep-alives
  (`PointerAssumption`): `PacketsAreWellFormed` (`PointerTypeOK`), `SettingsAreSentWhole`
  (`OwnPacketWhole`), `SettingsArrive` (`ArrivesOrOvertaken`) and `RadioNeverGoesBack`
  (`NeverGoesBack`), from `PointerInvariance`. None of them is inductive. The watchdog
  changes where `cmd` points and never what a buffer holds: what the GUI thread sends is
  the buffer it has filled, the command it has chosen, or that of the keep-alive (`OwnInv`).
  While the watchdog has not set `cmd` it is one of the first two, and what is sent of that buffer
  later is the same (`ArriveInv`); a switch is where the setting put it, unless the watchdog has
  sent a position it took before. Buffers only get newer, those of a switch never change, and a
  packet that is being copied lies between what the radio has and what its buffer holds
  (`OrderInv`); the mutex keeps the other packet away until it is written.
* The telemetry stack, of any size (`StackAssumption`): `StackStaysInArray`
  (`StaysInArray`), from `StackInvariance`. Below (`Below`): the popper is alone, a pop that
  passed its test finds `top` at 0 or more, and stays so because no push stores less than
  0, not even one that stores an old value. Above (`Above`): a push that is alone keeps
  the room it found at its test, for pops only make more; it is part of the invariant
  for as long as no two pushes have overlapped. `RestingMetersShowZero` is about the
  meters: whatever the stack lost or repeated, the meters of the direction that is not in
  use show zero (`MeterInvariance`). `StackTypes` (`StackTypeOK`) is from both invariants and
  the bound of `PushLoads`, which bounds the copies of `top` as well (`Bounded`).
* The CW keyboard, for any characters and any length of text (`KeyerAssumption`):
  `CharactersKeyedAsTyped` (`KeyedAsTyped`), from `KeyboardInvariance`. The thread waits at
  least a gap after it has queued a deletion, so a deletion that is not late runs before
  the next character is looked at (`WaitInv`): age and rest of the wait add up to a gap.

`FldigiSyncProofs` proves, for any frequencies, modes and widths, any number of edits,
lost requests and restarts of fldigi, under `CheckAssumption` and `WidthAssumption`, all
the safety properties of `FldigiSync`: `SyncTypes` (`TypeOK`), `PttFollows`
(`PttFollowsFldigi`), `NeverRetunes` (`NeverRetunesKeyed`) and `TakingTurnsSuffices`
(`TakingTurnsStaysInSync`). `SyncInvariance` is `Spec => []IInv`, of four parts:

* `FormInv`: the types; what is left of a handler of the GUI thread is one of five
  calls, or a bandwidth and the mode that brought it (`GuiCalls`); and each place of
  the xmlrpc thread goes with whether the link is online.
* `PttInv`: the callbacks wait in the order in which the thread saw what they report.
  The last change of the transmit state that waits is the state last seen; without
  one, it has been run. Settings that wait, or are being copied, were seen in receive,
  and whatever is run before them leaves fldigi's transmitter unkeyed. The list of
  callbacks has no bound, so this is said of every pair of positions in it.
* `CallInv`: what the GUI thread is about to send is what kcat shows.
* `TurnInv`: kcat's settings and the thread's copy agree, or what makes them agree is
  under way: a call that waits, a callback, a field still to be copied (`PairInv`), or
  for the frequency the last one in `qfreq` (`QueueInv`). While a frequency waits nothing
  new comes from fldigi (`QuietInv`), and nothing is edited while the link is set up
  (`SetUpInv`). It holds only while the operators take turns; what comes of an edit
  made before the last has settled is `FldigiSyncDocs`.

The first two need no turns (`HandedInOrder`), and `PttFollows` and `NeverRetunes` rest
on them alone.

`ShutdownProofs` proves, for any number of packets and requests a round,
`ShutdownTypes` and `PortClosesLast`: `Spec => []PortClosedAfterLastUse`, from
`ShutdownInvariance`. The argument is in what a join leaves behind: a thread whose
`pthread_t` was joined has ended, a thread that has ended does not hold a mutex and is not
using the port, and the port is closed after three joins, which are those of the
three threads that use it. That the fourth section joins the wrong thread
(`ShutdownClient`) does not matter for the port; it does for the XML-RPC client.

`VfoPanelProofs` proves, for any frequencies, presets and numbers of callbacks, and any
modes and bandwidths with those the code names (`PanelAssumption`, `PresetsAssumption`):

* `OnTheAirIsShown` (`KeyedIsShown`), from `PanelInvariance`. `IInv` adds to the types that
  each VFO is displayed with its frequency (`Displayed`), and two things of what puts the radio on
  the air (`KeyedInv`). Keyed, it has a button lit and is not in CW: in CW it ignores push to
  talk, so a callback that unkeys there would leave it on the air with no button lit. With
  its tune carrier set, the button Carrier is lit, or the radio refused to put the carrier out
  (`stuck`), in AM or FM and nowhere else.
* `PairingMakesAgree` (`PairingResyncs`) and `AgreementIsKept` (`KeepsAgreement`), the
  action properties, for a radio with neither key nor tune carrier, in which the table refuses
  only the bandwidth in AM and FM. Here the order of the commands within a callback is everything, since the
  radio ignores some of them by what the earlier ones have set. `Run` is the radio
  after a sequence of commands; `RunConcat` says that commands behind others find the
  radio as those left it, and the lemmas after it what `Run` gives for each
  part that callbacks are made of. Each callback then has its own lemma.

`WidgetProofs` is about callbacks of the GUI thread whose state is their own.

* `SortDoes`: for every array and every number of entries in use, `Sort` puts these in
  order, keeps each of them, and leaves the others alone. An exchange keeps `Sortable`,
  `Permutes` and `Settled`; a round that broke them would have a least number, and the one
  before it did not.
* The frequency list, for any frequencies and modes and any size of the array
  (`ListAssumption`, `SizeAssumption`): `BrowserShowsTheList` (`LinesAreTheList`), from
  `ListInvariance`. The lines of the browser are looked up by entry after a sort, so the
  invariant must know that no entry is there twice, in the array or in the file, that both
  are in order, and that an empty list may show the one line that stays.
* The antenna ranges (`PortsAssumption`: the built-in ones are in order, fit, and no range
  starts at 0): `PortIsOfNearestStart` (`PortOfNearestStart`), from `PortsInvariance`: the
  first `numantports` entries are ranges in strictly ascending order, and so is the file.
  What lies behind them is not constrained, which is the reason `AntennaPortsAdd`
  fails and this does not.
* The frequency display, for any base, number of digits and length of an entry:
  `DisplayFollowsRadio` (`ShownIsTuned`), inductive once it is split by whether an entry is
  going on.
* The contest log, for any bound on the numbers (`LogAssumption`): `ContactsLoggedAsGiven`
  and `BoxTellsConnection`, from `LogInvariance`: the number last given to the station that is
  worked is the present serial number, or that has moved since (`GivenIsCurrent`). `LogTypes` (`LogTypeOK`) is inductive by itself.
* The receiver, for any modes and any positions of its widgets that are in their ranges
  (`ReceiverAssumption`): `SettingsAreKept` (`KeepsSettings`), that panel and radio, keyed or
  not, part in the ways it names and in no other, and `ReceiverTypes` (`ReceiverTypeOK`). Since a step
  may assume that panel and radio agree before it, the types are all the invariant it
  needs; the work is in the sequences of commands. `Gets` is the radio after a sequence,
  command by command (`GetsOneByOne`), `GetsConcat` takes a sequence apart, `GetsNothing` says
  that in AM and FM all of it but mode, attenuator and preamplifier is lost, and
  one lemma for each part of a sequence (`NRGets`, `NotchGets`, `SendAllGets`, `ResentGets`,
  `StartGets` and others) says what the radio has after it. Each callback then has
  a lemma that it is `Kept`: if it parts the two, by one of the ways named.

`XmlRpcProofs` proves, for any number of calls and of stops of the server
(`BoundsAssumption`), all the safety properties of `XmlRpc` and the refinement of
`RemoteCall`. The invariants are four, each resting on the one before it:

* `Counted`: `FairSpec => []IInv`, from which `CallTypes` and `AnswersAreOwn`
  (`AnswersItsOwnCall`). What makes an answer the call's own is a count. The client
  keeps a connection for its next call only after a whole request and a whole answer
  (`TalkInv`), so nothing of either is left on its way; every other end closes the
  connection, and a new one is empty. So all the pieces on the client's connection are
  those of the present call, whatever lies on connections it has left.
* `InOrder`: `[]LifeInv`, from which `ExecutedOncePerLife` (`OncePerLife`). The server's
  connections are in the order in which they were opened, and an older one carries an older
  request (`LiveInv`, `AskInv`). A request that can still be executed has not been
  executed since the server started, because the client repeats one only after the server
  closed the connection on it, which a server does when it stops (`RecordInv`).
* `Excused`: `[]CauseInv`, from which `FailuresHaveCauses` (`FailsForACause`). While
  nothing has happened that may fail a call, its connection is open at the server's
  end, or was closed between two calls and nothing is written yet, or the whole request was, and
  the one retry is still to come (`Hopeful`). A request written there in part is the exception
  (`Pardoned`), since the write that follows fails without a retry.
* `Ordered`: `[]OrderedInv`, from which `CallsAreCarriedOut`: `FairSpec =>
  RemoteCallSpec`. The server takes what `select` reported from the oldest connection
  to the newest (`RoundInv`), what can be executed is no older than what was and was
  executed once at most (`TimesInv`), and an answer the client has heard of is that of
  an execution (`HeardInv`). Without `RoundInv` a late first attempt could overtake the
  next call, and `RemoteCall` would be refuted.

They are stated of `FairSpec`, the specification of the run; none uses its fairness.

Only model-checked: everything under fairness (`EveryCallReturns`, `RadioHearsFromUs`,
`CallsReturn`, `ComesToRest`, `QuitEnds`: liveness and ENABLED are outside what TLAPS 1.4.5
proves), and `DisplayTypeOK` of `FreqControl`: that `Number` makes a number of typed
digits is a fold over a sequence of any length, induction over data, which the
installed provers cannot do as such. (`Gets`, `Run` and `Sort` are functions by
recursion that can be unfolded; what they compute is proved by the least argument for which
a claim would fail.) `PartsTypeOK` is put together for its run from the type invariants of
the parts: those of `SharedCommand`, `Telemetry`, `Contest` and `Receiver` are theorems, those
of `VfoPanel`, `CwKeyboard`, `MemoryList` and `AntennaPorts` are in the invariants proved of
them.

## 5. Not modelled

* Data that is compiled in: `support/pixmaps.cxx` (images) and the constant rows
  of `IOspec.cxx`; a quarter of the source lines.
* `UI/kcat_panel.cxx`, generated by FLUID from `kcat_panel.fl`: it places widgets. Its
  callbacks call functions of `support.cxx`, which are modelled there.
* The construction of the dialogs, the colour and configuration dialogs, and the
  widgets that draw (`Fl_SigBar`, `XYplot`, `ValueSlider`) or edit a text.
* The encoding of XML-RPC values (`XmlRpcValue`, `XmlRpcUtil`, base64) and its
  introspection: conversions of data, with no state from call to call.
* The formulas of the `setXcvr*` functions but for the AGC speed and the notch depth,
  and `setvfo`: arithmetic on doubles, which TLC does not have.
* Preferences (`status.cxx` but for `kcat.ant` and the receiver's settings): values read
  at start and written at exit, which nothing else reads meanwhile.
* Opening and closing the port, terminal settings, the Windows port: I/O.
* Start-up, logging, fonts, dates and platform shims.
* The capacity of FLTK's awake queue, which is outside the sources.
* `retval` as text: it is only logged.
* Files that are not well formed: `readFile` and `loadLastState` do not look at how a
  read ended. Characters of the CW keyboard without an entry in `morse`.

The share of the source lines that the models stand for is therefore small (a tenth),
while the files with state and threads, `kcat_io.cxx`, `support.cxx`, `xml_io.cxx`,
`cstack.cxx`, `FreqControl.cxx` and the client and server of `xmlrpcpp`, are modelled
for the larger part.

Hazards without a property are in `PROJECT.json` with the reason.

## 6. Plan

Every safety property a passing run checks is proved, but for what the end of section 4
names. What is left is what the code would have to change first: a bound on `qfreq`, a look
at how much of a data block arrived, and unkeying when fldigi is gone. Each is a hazard in
`PROJECT.json` without a property.
