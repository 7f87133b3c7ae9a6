---------------------------- MODULE SharedCommand ----------------------------
(***************************************************************************)
(* The global command pointer cmd of kcat_io.cxx and the command buffers.  *)
(*                                                                         *)
(* Every setting is sent by a function of the GUI thread that writes it    *)
(* into the buffer of its command, points cmd at the buffer and calls      *)
(* sendCmd(cmd).  About half of them point cmd first and write through it, *)
(* and a few choose between buffers that never change, one for each        *)
(* position of a switch.  The watchdog thread points the same cmd at the   *)
(* keep-alive command and sends it, with no lock in common.  sendCmd holds *)
(* mutex_serial while it copies the buffer and writes the packet.          *)
(*                                                                         *)
(* Settings are numbered as they are made, and a byte is the number of the *)
(* setting it belongs to.  A buffer has two bytes; a setting made through  *)
(* cmd[2] uses the first.                                                  *)
(***************************************************************************)
EXTENDS Naturals, Sequences

CONSTANTS MaxSettings,  \* bound: settings made by the GUI thread
          MaxNoops      \* bound: keep-alives sent by the watchdog

ASSUME PointerAssumption == MaxSettings \in Nat /\ MaxNoops \in Nat

SettingCommands == {"freq", "level"}   \* cmdK_RCVF and the like, cmdK_CMPR and the like
Switches == {"off", "on"}              \* cmdK_TUN0 and cmdK_TUN1, and the like
Buffers == SettingCommands \cup Switches \cup {"noop"}   \* cmdK_NOOP
Threads == {"gui", "watchdog"}
Bytes   == 1..2

VARIABLES
    cmd,         \* the global pointer
    buffer,      \* what each command buffer holds
    pc, str,     \* per thread: where it is, the pointer it has passed to sendCmd
    sendbuff,    \* per thread: the bytes of the packet copied so far
    mutex,       \* the holder of mutex_serial, or "none"
    setting, aim,  \* the last setting made, and its command
    own,         \* history: the packet the GUI thread sent for it
    overtaken,   \* history: the watchdog took cmd while it was being made
    heard,       \* per command, the bytes the radio got last
    switch,      \* the position of the switch in the radio
    repeated,    \* history: since that setting was begun the watchdog has sent a position
                 \* of the switch for its keep-alive
    noops

atRadio == <<heard, switch, repeated>>
pointerVars == <<cmd, buffer, pc, str, sendbuff, mutex, setting, aim, own, overtaken, atRadio,
                 noops>>

Goes(t, from, to) == pc[t] = from /\ pc' = [pc EXCEPT ![t] = to]

-----------------------------------------------------------------------------
(* The setXcvr functions, in the GUI thread.                               *)

\* setXcvrRcvFreq fills its buffer first, setXcvrCompression points cmd at it first.
\* setXcvrSPOT and setXcvrCarrier point at the command that switches off before the one that
\* switches on; setXcvrTune, setXcvrRITfreq with its two ranges, and checkCalibrate point once at
\* one of several commands for the same thing.
Make(b) ==
    /\ setting < MaxSettings
    /\ setting' = setting + 1 /\ aim' = b /\ overtaken' = FALSE /\ repeated' = FALSE
    /\ \E first \in CASE b = "freq"      -> {"fill"}
                     [] b = "level"     -> {"aim"}
                     [] b \in Switches -> {"off", b} :
         Goes("gui", "idle", first)
    /\ UNCHANGED <<cmd, buffer, str, sendbuff, mutex, own, heard, switch, noops>>

\* Variant of Fill: the loop ends a byte early.
FillShort ==
    /\ Goes("gui", "fill", "point")
    /\ buffer' = [buffer EXCEPT !["freq"][2] = setting]
    /\ UNCHANGED <<cmd, str, sendbuff, mutex, setting, aim, own, overtaken, atRadio, noops>>

\* setvfo writes the bytes of the frequency from the last to the first.
Fill ==
    LET n == IF buffer["freq"][2] = setting THEN 1 ELSE 2
    IN  /\ Goes("gui", "fill", IF n = 1 THEN "point" ELSE "fill")
        /\ buffer' = [buffer EXCEPT !["freq"][n] = setting]
        /\ UNCHANGED <<cmd, str, sendbuff, mutex, setting, aim, own, overtaken, atRadio, noops>>

\* cmd = cmdK_RCVF, or cmd = cmdK_CMPR.
PointAtBuffer ==
    /\ Goes("gui", "point", "call") \/ Goes("gui", "aim", "through")
    /\ cmd' = aim
    /\ UNCHANGED <<buffer, str, sendbuff, mutex, setting, aim, own, overtaken, atRadio, noops>>

\* Variant of StoreThrough: the value is forgotten.
StoreNothing ==
    /\ Goes("gui", "through", "call")
    /\ UNCHANGED <<cmd, buffer, str, sendbuff, mutex, setting, aim, own, overtaken, atRadio, noops>>

\* cmd[2] = val: into whichever buffer cmd points at now.
StoreThrough ==
    /\ Goes("gui", "through", "call")
    /\ buffer' = [buffer EXCEPT ![cmd][1] = setting]
    /\ UNCHANGED <<cmd, str, sendbuff, mutex, setting, aim, own, overtaken, atRadio, noops>>

\* cmd = cmdK_TUN0, whatever the position asked for.
PointAtOff ==
    /\ Goes("gui", "off", IF aim = "on" THEN "on" ELSE "call")
    /\ cmd' = "off"
    /\ UNCHANGED <<buffer, str, sendbuff, mutex, setting, aim, own, overtaken, atRadio, noops>>

\* if (val) cmd = cmdK_TUN1.
PointAtOn ==
    /\ Goes("gui", "on", "call")
    /\ cmd' = "on"
    /\ UNCHANGED <<buffer, str, sendbuff, mutex, setting, aim, own, overtaken, atRadio, noops>>

-----------------------------------------------------------------------------
(* setXcvrNOOP, in the watchdog thread.                                    *)

PointAtNoop ==
    /\ noops < MaxNoops /\ noops' = noops + 1
    /\ Goes("watchdog", "idle", "call")
    /\ cmd' = "noop"
    /\ overtaken' = (overtaken \/ pc["gui"] # "idle")
    /\ UNCHANGED <<buffer, str, sendbuff, mutex, setting, aim, own, atRadio>>

-----------------------------------------------------------------------------
(* sendCmd(cmd), in either thread.                                         *)

\* The argument is read.
CallSendCmd(t) ==
    /\ Goes(t, "call", "lock")
    /\ str' = [str EXCEPT ![t] = cmd]
    /\ sendbuff' = [sendbuff EXCEPT ![t] = <<>>]
    /\ UNCHANGED <<cmd, buffer, mutex, setting, aim, own, overtaken, atRadio, noops>>

\* Variant of Lock: the port is not waited for.
LockNoWait(t) ==
    /\ mutex' = t
    /\ Goes(t, "lock", "copy")
    /\ UNCHANGED <<cmd, buffer, str, sendbuff, setting, aim, own, overtaken, atRadio, noops>>

Lock(t) ==
    /\ mutex = "none" /\ mutex' = t
    /\ Goes(t, "lock", "copy")
    /\ UNCHANGED <<cmd, buffer, str, sendbuff, setting, aim, own, overtaken, atRadio, noops>>

CopyByte(t) ==
    LET n == Len(sendbuff[t]) + 1
    IN  /\ Goes(t, "copy", IF n = 2 THEN "write" ELSE "copy")
        /\ sendbuff' = [sendbuff EXCEPT ![t] = Append(@, buffer[str[t]][n])]
        /\ UNCHANGED <<cmd, buffer, str, mutex, setting, aim, own, overtaken, atRadio, noops>>

\* The packet is written, the radio takes it, and the port is free again.
Write(t) ==
    /\ Goes(t, "write", "idle")
    /\ heard' = [heard EXCEPT ![str[t]] = sendbuff[t]]
    /\ switch' = IF str[t] \in Switches THEN str[t] ELSE switch
    /\ repeated' = (repeated \/ (t = "watchdog" /\ str[t] \in Switches))
    /\ own' = IF t = "gui" THEN [cmd |-> str[t], bytes |-> sendbuff[t]] ELSE own
    /\ mutex' = "none"
    /\ UNCHANGED <<cmd, buffer, str, sendbuff, setting, aim, overtaken, noops>>

-----------------------------------------------------------------------------
PointerInit ==
    /\ cmd = "noop"
    /\ buffer = [b \in Buffers |-> <<0, 0>>]
    /\ pc = [t \in Threads |-> "idle"]
    /\ str = [t \in Threads |-> "noop"]
    /\ sendbuff = [t \in Threads |-> <<>>]
    /\ mutex = "none"
    /\ setting = 0 /\ aim = "freq" /\ overtaken = FALSE
    /\ own = [cmd |-> "freq", bytes |-> <<0, 0>>]
    /\ heard = [b \in Buffers |-> <<0, 0>>]
    /\ switch = "off" /\ repeated = FALSE
    /\ noops = 0

PointerNext ==
    \/ \E b \in SettingCommands \cup Switches : Make(b)
    \/ Fill \/ PointAtBuffer \/ StoreThrough \/ PointAtOff \/ PointAtOn
    \/ PointAtNoop
    \/ \E t \in Threads : CallSendCmd(t) \/ Lock(t) \/ CopyByte(t) \/ Write(t)

PointerSpec == PointerInit /\ [][PointerNext]_pointerVars

-----------------------------------------------------------------------------
(* Properties.                                                             *)

\* A packet has the length of its command, and the pointers point at buffers.
PointerTypeOK ==
    /\ {cmd} \cup {str[t] : t \in Threads} \subseteq Buffers
    /\ aim \in SettingCommands \cup Switches
    /\ {buffer, heard} \subseteq [Buffers -> [Bytes -> 0..MaxSettings]]
    /\ pc \in [Threads -> {"idle", "fill", "point", "aim", "through", "off", "on", "call",
                           "lock", "copy", "write"}]
    /\ \A t \in Threads : sendbuff[t] \in Seq(0..MaxSettings) /\ Len(sendbuff[t]) <= 2
    /\ mutex \in Threads \cup {"none"}
    /\ setting \in 0..MaxSettings /\ noops \in 0..MaxNoops /\ overtaken \in BOOLEAN
    /\ switch \in Switches /\ repeated \in BOOLEAN
    /\ own \in [cmd : Buffers, bytes : [Bytes -> 0..MaxSettings]]

\* The last setting, as it must arrive.
Whole == <<IF aim \in Switches THEN 0 ELSE setting, IF aim = "freq" THEN setting ELSE 0>>

\* What the GUI thread sends for a setting is that setting, whole, or else a keep-alive:
\* never an earlier value, a mixture of two or another command's value.
OwnPacketWhole ==
    pc["gui"] = "idle" => own.cmd = "noop" \/ own = [cmd |-> aim, bytes |-> Whole]

\* A setting fails to arrive only if the watchdog took cmd while it was being made; the position
\* of a switch, also if the watchdog's own call took a position of the switch for its argument
\* and sent it since: an earlier one, or the one setXcvrCarrier points at on its way.
ArrivesOrOvertaken ==
    pc["gui"] = "idle" /\ setting > 0 =>
        \/ overtaken
        \/ IF aim \in Switches THEN switch = aim \/ repeated ELSE heard[aim] = Whole

\* Whichever thread sends it, the radio never gets an older value after a newer one; but a switch
\* may be put back by a keep-alive for which the watchdog took the switch's command.
NeverGoesBack ==
    [][/\ \A b \in Buffers, n \in Bytes : heard[b][n] <= heard'[b][n]
       /\ switch' # switch =>
            \/ switch' = aim
            \/ Write("watchdog") /\ str["watchdog"] \in Switches]_pointerVars
=============================================================================
