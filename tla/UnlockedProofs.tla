--------------------------- MODULE UnlockedProofs ---------------------------
(***************************************************************************)
(* What the threads share without a lock: the command pointer, the stack   *)
(* of telemetry readings and the text of the CW keyboard.                  *)
(***************************************************************************)
EXTENDS SharedCommand, Telemetry, CwKeyboard, SequenceTheorems, FiniteSetTheorems, TLAPS

(***************************************************************************)
(* The command pointer that two threads share, for any number of settings  *)
(* and keep-alives.                                                        *)
(*                                                                         *)
(* The watchdog changes where cmd points and never what a buffer holds, so *)
(* what the GUI thread sends is the buffer it has filled, or the buffer of *)
(* the keep-alive (OwnInv).  If cmd was not taken from it meanwhile, it is *)
(* the former, and what the watchdog sends of the same buffer afterwards   *)
(* is the same (ArriveInv); but for a switch, whose positions are          *)
(* different buffers, it may be the other position.  Buffers only get      *)
(* newer, and a packet that is being copied is between what the radio has  *)
(* and what its buffer holds (OrderInv); the mutex keeps the other packet  *)
(* away until it is written.                                               *)
(***************************************************************************)

\* Places of the two threads, and the types of what they share.
Packet == [Bytes -> 0..MaxSettings]

FormInv ==
    /\ cmd \in Buffers /\ str \in [Threads -> Buffers]
    /\ aim \in SettingCommands \cup Switches
    /\ buffer \in [Buffers -> Packet] /\ heard \in [Buffers -> Packet]
    /\ pc \in [Threads -> {"idle", "fill", "point", "aim", "through", "off", "on", "call",
                           "lock", "copy", "write"}]
    /\ pc["watchdog"] \notin {"fill", "point", "aim", "through", "off", "on"}
    /\ sendbuff \in [Threads -> Seq(0..MaxSettings)]
    /\ \A t \in Threads : /\ pc[t] = "lock" => sendbuff[t] = <<>>
                          /\ pc[t] = "copy" => Len(sendbuff[t]) < 2
                          /\ pc[t] = "write" => Len(sendbuff[t]) = 2
                          /\ Len(sendbuff[t]) <= 2
                          /\ pc[t] \in {"copy", "write"} <=> mutex = t
    /\ mutex \in Threads \cup {"none"}
    /\ setting \in 0..MaxSettings /\ noops \in 0..MaxNoops /\ overtaken \in BOOLEAN
    /\ switch \in Switches /\ repeated \in BOOLEAN
    /\ own \in [cmd : Buffers, bytes : Packet]

\* What the GUI thread has made of its setting so far.
OwnInv ==
    /\ pc["gui"] \in {"fill", "point"} => aim = "freq"
    /\ pc["gui"] \in {"aim", "through"} => aim = "level"
    /\ pc["gui"] = "off" => aim \in Switches
    /\ pc["gui"] = "on" => aim = "on"
    /\ pc["gui"] \in {"through", "call"} => cmd \in {aim, "noop"}
    /\ pc["gui"] \in {"lock", "copy", "write"} => str["gui"] \in {aim, "noop"}
    /\ buffer["level"][2] = 0
    /\ \A b \in Switches : buffer[b][1] = 0 /\ buffer[b][2] = 0
    /\ pc["gui"] = "point" => buffer[aim] = Whole
    /\ pc["gui"] = "call" /\ cmd = aim => buffer[aim] = Whole
    /\ pc["gui"] \in {"lock", "copy", "write"} /\ str["gui"] = aim =>
         /\ buffer[aim] = Whole
         /\ \A i \in 1..Len(sendbuff["gui"]) : sendbuff["gui"][i] = Whole[i]
    /\ OwnPacketWhole

\* As long as the watchdog has not taken cmd, the setting is on its way or has arrived, and
\* what is sent after it is the same.
ArriveInv ==
    ~overtaken =>
      /\ pc["gui"] \in {"through", "call"} => cmd = aim
      /\ pc["gui"] \in {"lock", "copy", "write"} => str["gui"] = aim
      /\ pc["gui"] = "idle" /\ setting > 0 =>
           /\ heard[aim] = Whole /\ buffer[aim] = Whole
           /\ aim \in Switches => switch = aim \/ repeated
           /\ mutex = "watchdog" /\ str["watchdog"] = aim =>
                \A i \in 1..Len(sendbuff["watchdog"]) : sendbuff["watchdog"][i] = Whole[i]

\* What the radio has is no newer than what the buffer holds, and a packet that is being
\* copied is between the two.
OrderInv ==
    /\ \A b \in Buffers, n \in Bytes : heard[b][n] <= buffer[b][n] /\ buffer[b][n] <= setting
    /\ \A t \in Threads : mutex = t =>
         \A i \in 1..Len(sendbuff[t]) :
            heard[str[t]][i] <= sendbuff[t][i] /\ sendbuff[t][i] <= buffer[str[t]][i]

PointerInv == FormInv /\ OwnInv /\ ArriveInv /\ OrderInv

-----------------------------------------------------------------------------
(* Packets.                                                                *)

\* A packet of two bytes is known by its bytes.
LEMMA PacketIsPair ==
    ASSUME NEW p, NEW q, DOMAIN p = Bytes, p = [i \in Bytes |-> p[i]],
           DOMAIN q = Bytes, q = [i \in Bytes |-> q[i]], p[1] = q[1], p[2] = q[2]
    PROVE  p = q
  BY DEF Bytes

\* The setting as it must arrive is a packet.
LEMMA WholePacket ==
    ASSUME MaxSettings \in Nat, FormInv
    PROVE  /\ Whole \in Packet
           /\ Whole[1] = IF aim \in Switches THEN 0 ELSE setting
           /\ Whole[2] = IF aim = "freq" THEN setting ELSE 0
<1>1. Whole = [i \in Bytes |-> IF i = 1 THEN IF aim \in Switches THEN 0 ELSE setting
                                           ELSE IF aim = "freq" THEN setting ELSE 0]
  BY DEF Whole, Bytes
<1>2. QED
  BY <1>1 DEF Packet, Bytes, FormInv

\* Two bytes copied one after the other are a packet.
LEMMA CopiedPacket ==
    ASSUME NEW S, NEW s \in Seq(S), Len(s) = 2
    PROVE  s \in [Bytes -> S]
<1>1. s \in [1..Len(s) -> S]
  BY LenProperties
<1>2. QED
  BY <1>1 DEF Bytes

\* One byte more is copied.
LEMMA Copied ==
    ASSUME NEW S, NEW s \in Seq(S), NEW x \in S
    PROVE  /\ Append(s, x) \in Seq(S)
           /\ Len(Append(s, x)) = Len(s) + 1
           /\ Len(s) \in Nat
           /\ \A i \in 1..Len(s) : Append(s, x)[i] = s[i]
           /\ Append(s, x)[Len(s) + 1] = x
  OBVIOUS

-----------------------------------------------------------------------------
\* No packet has been made yet.
LEMMA PointerInitHolds ==
    ASSUME MaxSettings \in Nat, MaxNoops \in Nat, PointerInit
    PROVE  PointerInv
<1>1. <<0, 0>> \in Packet
  <2>1. 0 \in 0..MaxSettings /\ 1 \in Bytes /\ 2 \in Bytes
    BY DEF Bytes
  <2>2. [i \in Bytes |-> 0] \in Packet
    BY <2>1 DEF Packet
  <2>3. <<0, 0>> = [i \in Bytes |-> 0]
    BY DEF Bytes
  <2>4. QED
    BY Zenon, <2>2, <2>3
<1>2. FormInv
  <2>1. /\ buffer \in [Buffers -> Packet] /\ heard \in [Buffers -> Packet]
        /\ own \in [cmd : Buffers, bytes : Packet]
    BY <1>1 DEF PointerInit, Buffers, SettingCommands
  <2>2. sendbuff = [t \in Threads |-> <<>>] /\ <<>> \in Seq(0..MaxSettings) /\ Len(<<>>) = 0
    BY DEF PointerInit
  <2>3. sendbuff \in [Threads -> Seq(0..MaxSettings)]
    BY <2>2
  <2>4. \A t \in Threads : pc[t] = "idle" /\ sendbuff[t] = <<>> /\ mutex # t
    BY DEF PointerInit, Threads
  <2>5. \A t \in Threads : Len(sendbuff[t]) = 0
    BY <2>2, <2>4
  <2>6. /\ cmd \in Buffers /\ str \in [Threads -> Buffers]
        /\ aim \in SettingCommands \cup Switches /\ switch \in Switches
        /\ pc \in [Threads -> {"idle", "fill", "point", "aim", "through", "off", "on", "call",
                               "lock", "copy", "write"}]
        /\ mutex \in Threads \cup {"none"}
        /\ setting \in 0..MaxSettings /\ noops \in 0..MaxNoops
    BY DEF PointerInit, Buffers, SettingCommands, Switches
  <2>7. overtaken \in BOOLEAN /\ repeated \in BOOLEAN
    BY Zenon DEF PointerInit
  <2>8. "watchdog" \in Threads
    BY DEF Threads
  <2>9. QED
    BY <2>1, <2>3, <2>4, <2>5, <2>6, <2>7, <2>8 DEF FormInv
<1>3. OwnInv
  <2>1. Whole = <<0, 0>>
    BY DEF PointerInit, Whole
  <2>2. QED
    BY <1>1, <2>1 DEF PointerInit, OwnInv, OwnPacketWhole, Threads, Buffers, SettingCommands
<1>4. ArriveInv
  BY DEF PointerInit, ArriveInv, Threads
<1>5. OrderInv
  BY <1>1 DEF PointerInit, OrderInv, Threads, Buffers, Bytes
<1>6. QED
  BY <1>2, <1>3, <1>4, <1>5 DEF PointerInv

-----------------------------------------------------------------------------
(* The setXcvr functions.                                                  *)

\* The GUI thread begins the next setting.
LEMMA MakeKeeps ==
    ASSUME MaxSettings \in Nat, PointerInv, NEW b \in SettingCommands \cup Switches, Make(b)
    PROVE  PointerInv'
<1> DEFINE Firsts == CASE b = "freq"      -> {"fill"}
                       [] b = "level"     -> {"aim"}
                       [] b \in Switches -> {"off", b}
<1>0. PICK first \in Firsts : Goes("gui", "idle", first)
  BY DEF Make
<1>a. /\ first \in {"fill", "aim", "off", "on"}
      /\ first = "fill" => b = "freq"
      /\ first = "aim" => b = "level"
      /\ first = "off" => b \in Switches
      /\ first = "on" => b = "on"
  BY <1>0 DEF SettingCommands, Switches
<1> HIDE DEF Firsts
<1>b. /\ setting < MaxSettings /\ setting' = setting + 1
      /\ aim' = b /\ overtaken' = FALSE
      /\ repeated' = FALSE
      /\ UNCHANGED <<cmd, buffer, str, sendbuff, mutex, own, heard, switch, noops>>
  BY DEF Make
<1>c. /\ pc["gui"] = "idle"
      /\ pc' = [pc EXCEPT !["gui"] = first]
  BY <1>0 DEF Goes
<1>d. setting \in 0..MaxSettings
  BY DEF PointerInv, FormInv
<1>1. /\ setting \in Nat /\ setting' = setting + 1 /\ setting' \in 0..MaxSettings
      /\ aim' = b /\ overtaken' = FALSE
      /\ repeated' = FALSE
      /\ pc["gui"] = "idle"
      /\ pc' = [pc EXCEPT !["gui"] = first]
      /\ UNCHANGED <<cmd, buffer, str, sendbuff, mutex, own, heard, switch, noops>>
  BY <1>b, <1>c, <1>d
<1>2. /\ pc'["gui"] = first
      /\ pc'["watchdog"] = pc["watchdog"]
  BY <1>1 DEF PointerInv, FormInv, Threads
<1>3. FormInv'
  BY <1>a, <1>1, <1>2 DEF PointerInv, FormInv, Threads
<1>4. OwnInv'
  BY <1>a, <1>1, <1>2 DEF PointerInv, OwnInv, OwnPacketWhole, SettingCommands
<1>5. ArriveInv'
  BY <1>a, <1>1, <1>2 DEF ArriveInv
<1>6. OrderInv'
  <2>1. \A x \in Buffers, n \in Bytes :
           heard[x][n] <= buffer[x][n] /\ buffer[x][n] <= setting /\ buffer[x][n] \in Nat
    BY DEF PointerInv, OrderInv, FormInv, Packet
  <2>2. \A x \in Buffers, n \in Bytes : buffer[x][n] <= setting + 1
    BY <1>1, <2>1
  <2>3. QED
    BY <1>1, <2>1, <2>2 DEF OrderInv, PointerInv
<1>7. QED
  BY <1>3, <1>4, <1>5, <1>6 DEF PointerInv

\* A byte of the setting makes a buffer newer.
LEMMA StoreOrders ==
    ASSUME MaxSettings \in Nat, PointerInv, NEW b \in Buffers, NEW n \in Bytes,
           buffer' = [buffer EXCEPT ![b][n] = setting],
           UNCHANGED <<str, sendbuff, mutex, setting, heard>>
    PROVE  OrderInv'
<1>1. \A x \in Buffers, i \in Bytes : buffer'[x][i] = buffer[x][i] \/ buffer'[x][i] = setting
  BY DEF PointerInv, FormInv, Packet
<1>2. \A x \in Buffers, i \in Bytes :
         /\ heard[x][i] \in Nat /\ buffer[x][i] \in Nat /\ setting \in Nat
         /\ heard[x][i] <= buffer[x][i] /\ buffer[x][i] <= setting
  BY DEF PointerInv, OrderInv, FormInv, Packet
<1>3. \A x \in Buffers, i \in Bytes :
         buffer[x][i] <= buffer'[x][i] /\ buffer'[x][i] <= setting /\ heard[x][i] <= buffer'[x][i]
  BY <1>1, <1>2
<1>4. \A x \in Buffers, i \in Bytes : buffer'[x][i] \in Nat
  BY <1>1, <1>2
<1>5. ASSUME NEW t \in Threads, mutex = t, NEW i \in 1..Len(sendbuff[t])
      PROVE  /\ heard[str[t]][i] <= sendbuff[t][i]
             /\ sendbuff[t][i] <= buffer'[str[t]][i]
  <2>1. heard[str[t]][i] <= sendbuff[t][i] /\ sendbuff[t][i] <= buffer[str[t]][i]
    BY <1>5 DEF PointerInv, OrderInv
  <2>2. i \in Bytes /\ str[t] \in Buffers /\ sendbuff[t][i] \in Nat
    BY DEF PointerInv, FormInv, Bytes
  <2>3. QED
    BY <2>1, <2>2, <1>2, <1>3, <1>4
<1>6. QED
  BY <1>3, <1>5 DEF OrderInv

\* A byte of the frequency is written.
LEMMA FillKeeps ==
    ASSUME MaxSettings \in Nat, PointerInv, Fill
    PROVE  PointerInv'
<1> DEFINE n == IF buffer["freq"][2] = setting THEN 1 ELSE 2
<1>1. /\ pc["gui"] = "fill" /\ aim = "freq" /\ n \in Bytes /\ "freq" \in Buffers
      /\ pc' = [pc EXCEPT !["gui"] = IF n = 1 THEN "point" ELSE "fill"]
      /\ buffer' = [buffer EXCEPT !["freq"][n] = setting]
      /\ UNCHANGED <<cmd, str, sendbuff, mutex, setting, aim, own, overtaken, heard, switch,
                   repeated, noops>>
  BY DEF Fill, Goes, atRadio, PointerInv, OwnInv, Bytes, Buffers, SettingCommands
<1>2. /\ pc'["gui"] = IF n = 1 THEN "point" ELSE "fill"
      /\ pc'["watchdog"] = pc["watchdog"]
  BY <1>1 DEF PointerInv, FormInv, Threads
<1>3. /\ buffer' \in [Buffers -> Packet]
      /\ buffer'["level"] = buffer["level"]
      /\ buffer'["freq"][n] = setting
      /\ \A i \in Bytes \ {n} : buffer'["freq"][i] = buffer["freq"][i]
      /\ \A x \in Buffers \ {"freq"} : buffer'[x] = buffer[x]
      /\ setting \in 0..MaxSettings
  BY <1>1 DEF PointerInv, FormInv, Packet, Buffers, SettingCommands
<1>4. FormInv'
  BY <1>1, <1>2, <1>3 DEF PointerInv, FormInv, Threads
<1>5. OwnInv'
  <2>1. pc'["gui"] = "point" => buffer'["freq"] = Whole
    <3> SUFFICES ASSUME n = 1 PROVE buffer'["freq"] = Whole
      BY <1>2
    <3>1. buffer'["freq"][1] = setting /\ buffer'["freq"][2] = setting
      BY <1>3 DEF Bytes
    <3>2. Whole \in Packet /\ Whole[1] = setting /\ Whole[2] = setting
      BY <1>1, WholePacket DEF PointerInv, Switches
    <3>3. buffer'["freq"] \in Packet
      BY <1>1, <1>3
    <3>4. QED
      BY <3>1, <3>2, <3>3, PacketIsPair DEF Packet
  <2>2. Whole' = Whole
    BY <1>1 DEF Whole
  <2> HIDE DEF n
  <2>3. QED
    BY <1>1, <1>2, <1>3, <2>1, <2>2 DEF PointerInv, OwnInv, OwnPacketWhole, Switches, Buffers
<1>6. ArriveInv'
  BY <1>1, <1>2 DEF ArriveInv
<1>7. OrderInv'
  <2> HIDE DEF n
  <2>1. QED
    BY <1>1, StoreOrders
<1>8. QED
  BY <1>4, <1>5, <1>6, <1>7 DEF PointerInv

\* cmd points at the buffer of the setting.
LEMMA PointAtBufferKeeps ==
    ASSUME MaxSettings \in Nat, PointerInv, PointAtBuffer
    PROVE  PointerInv'
<1>1. /\ \/ pc["gui"] = "point" /\ pc' = [pc EXCEPT !["gui"] = "call"]
         \/ pc["gui"] = "aim" /\ pc' = [pc EXCEPT !["gui"] = "through"]
      /\ cmd' = aim /\ aim \in Buffers
      /\ UNCHANGED <<buffer, str, sendbuff, mutex, setting, aim, own, overtaken, heard, switch,
                   repeated, noops>>
  BY DEF PointAtBuffer, Goes, atRadio, PointerInv, FormInv, Buffers
<1>2. /\ \/ pc["gui"] = "point" /\ pc'["gui"] = "call"
         \/ pc["gui"] = "aim" /\ pc'["gui"] = "through"
      /\ pc'["watchdog"] = pc["watchdog"]
  BY <1>1 DEF PointerInv, FormInv, Threads
<1>3. FormInv'
  BY <1>1, <1>2 DEF PointerInv, FormInv, Threads
<1>4. Whole' = Whole
  BY <1>1 DEF Whole
<1>5. OwnInv'
  BY <1>1, <1>2, <1>4 DEF PointerInv, OwnInv, OwnPacketWhole
<1>6. ArriveInv'
  BY <1>1, <1>2 DEF ArriveInv
<1>7. OrderInv'
  BY <1>1 DEF PointerInv, OrderInv
<1>8. QED
  BY <1>3, <1>5, <1>6, <1>7 DEF PointerInv

\* cmd points at the position that switches off, asked for or on the way to the other.
LEMMA PointAtOffKeeps ==
    ASSUME MaxSettings \in Nat, PointerInv, PointAtOff \/ PointAtOn
    PROVE  PointerInv'
<1>1. /\ \/ /\ pc["gui"] = "off" /\ cmd' = "off"
            /\ pc' = [pc EXCEPT !["gui"] = IF aim = "on" THEN "on" ELSE "call"]
         \/ pc["gui"] = "on" /\ cmd' = "on" /\ pc' = [pc EXCEPT !["gui"] = "call"]
      /\ cmd' \in Buffers
      /\ UNCHANGED <<buffer, str, sendbuff, mutex, setting, aim, own, overtaken, heard, switch,
                     repeated, noops>>
  BY DEF PointAtOff, PointAtOn, Goes, atRadio, Buffers, Switches
<1>2. /\ aim \in Switches
      /\ \/ pc["gui"] = "off" /\ aim = "on" /\ pc'["gui"] = "on"
         \/ pc["gui"] \in {"off", "on"} /\ pc'["gui"] = "call" /\ cmd' = aim
      /\ pc'["watchdog"] = pc["watchdog"]
  BY <1>1 DEF PointerInv, FormInv, OwnInv, Threads, Switches
<1>3. FormInv'
  BY <1>1, <1>2 DEF PointerInv, FormInv, Threads
<1>4. Whole' = Whole
  BY <1>1 DEF Whole
<1>5. buffer[aim] = Whole
  <2>1. Whole \in Packet /\ Whole[1] = 0 /\ Whole[2] = 0
    BY <1>2, WholePacket DEF PointerInv, Switches
  <2>2. buffer[aim] \in Packet /\ buffer[aim][1] = 0 /\ buffer[aim][2] = 0
    BY <1>2 DEF PointerInv, FormInv, OwnInv, Buffers
  <2>3. QED
    BY <2>1, <2>2, PacketIsPair DEF Packet
<1>6. OwnInv'
  BY <1>1, <1>2, <1>4, <1>5 DEF PointerInv, OwnInv, OwnPacketWhole
<1>7. ArriveInv'
  BY <1>1, <1>2 DEF PointerInv, ArriveInv
<1>8. OrderInv'
  BY <1>1 DEF PointerInv, OrderInv
<1>9. QED
  BY <1>3, <1>6, <1>7, <1>8 DEF PointerInv

\* The value is stored in whichever buffer cmd points at by then.
LEMMA StoreThroughKeeps ==
    ASSUME MaxSettings \in Nat, PointerInv, StoreThrough
    PROVE  PointerInv'
<1>1. /\ pc["gui"] = "through" /\ pc' = [pc EXCEPT !["gui"] = "call"]
      /\ aim = "level" /\ cmd \in {"level", "noop"} /\ cmd \in Buffers
      /\ buffer' = [buffer EXCEPT ![cmd][1] = setting]
      /\ UNCHANGED <<cmd, str, sendbuff, mutex, setting, aim, own, overtaken, heard, switch,
                   repeated, noops>>
  BY DEF StoreThrough, Goes, atRadio, PointerInv, OwnInv, Buffers, SettingCommands
<1>2. pc'["gui"] = "call" /\ pc'["watchdog"] = pc["watchdog"]
  BY <1>1 DEF PointerInv, FormInv, Threads
<1>3. /\ buffer' \in [Buffers -> Packet]
      /\ buffer'[cmd][1] = setting
      /\ buffer'["level"][2] = 0
      /\ \A b \in Switches : buffer'[b] = buffer[b]
  <2>1. buffer \in [Buffers -> Packet] /\ setting \in 0..MaxSettings /\ 1 \in Bytes
    BY DEF PointerInv, FormInv, Bytes
  <2>2. /\ buffer' \in [Buffers -> Packet]
        /\ buffer'[cmd] = [buffer[cmd] EXCEPT ![1] = setting]
        /\ \A b \in Buffers \ {cmd} : buffer'[b] = buffer[b]
    BY <1>1, <2>1 DEF Packet
  <2>3. buffer["level"][2] = 0 /\ "level" \in Buffers
    BY DEF PointerInv, OwnInv, Buffers, SettingCommands
  <2>4. buffer'[cmd][1] = setting /\ buffer'[cmd][2] = buffer[cmd][2]
    BY <1>1, <2>1, <2>2 DEF Packet, Bytes
  <2>5. \A b \in Switches : b \in Buffers \ {cmd}
    BY <1>1 DEF Buffers, Switches
  <2>6. QED
    BY <2>2, <2>3, <2>4, <2>5
<1>4. FormInv'
  BY <1>1, <1>2, <1>3 DEF PointerInv, FormInv, Threads
<1>5. OwnInv'
  <2>1. cmd = "level" => buffer'["level"] = Whole
    <3> SUFFICES ASSUME cmd = "level" PROVE buffer'["level"] = Whole
      OBVIOUS
    <3>1. buffer'["level"][1] = setting /\ buffer'["level"][2] = 0
      BY <1>3
    <3>2. Whole \in Packet /\ Whole[1] = setting /\ Whole[2] = 0
      BY <1>1, WholePacket DEF PointerInv, Switches
    <3>3. buffer'["level"] \in Packet
      BY <1>1, <1>3
    <3>4. QED
      BY <3>1, <3>2, <3>3, PacketIsPair DEF Packet
  <2>2. Whole' = Whole
    BY <1>1 DEF Whole
  <2>3. QED
    BY <1>1, <1>2, <1>3, <2>1, <2>2 DEF PointerInv, OwnInv, OwnPacketWhole
<1>6. ArriveInv'
  BY <1>1, <1>2 DEF PointerInv, ArriveInv
<1>7. OrderInv'
  BY <1>1, StoreOrders, 1 \in Bytes DEF Bytes
<1>8. QED
  BY <1>4, <1>5, <1>6, <1>7 DEF PointerInv

-----------------------------------------------------------------------------
(* setXcvrNOOP and sendCmd.                                                *)

\* The watchdog takes cmd for its keep-alive.
LEMMA PointAtNoopKeeps ==
    ASSUME MaxSettings \in Nat, MaxNoops \in Nat, PointerInv, PointAtNoop
    PROVE  PointerInv'
<1>1. /\ noops' \in 0..MaxNoops
      /\ pc["watchdog"] = "idle" /\ pc' = [pc EXCEPT !["watchdog"] = "call"]
      /\ cmd' = "noop"
      /\ overtaken' = (overtaken \/ pc["gui"] # "idle")
      /\ UNCHANGED <<buffer, str, sendbuff, mutex, setting, aim, own, heard, switch, repeated>>
  BY DEF PointAtNoop, Goes, atRadio, PointerInv, FormInv
<1>2. pc'["gui"] = pc["gui"] /\ pc'["watchdog"] = "call"
  BY <1>1 DEF PointerInv, FormInv, Threads
<1>3. FormInv'
  BY <1>1, <1>2 DEF PointerInv, FormInv, Threads, Buffers
<1>4. Whole' = Whole
  BY <1>1 DEF Whole
<1>5. OwnInv'
  <2>1. aim # "noop"
    BY DEF PointerInv, FormInv, SettingCommands, Switches
  <2>2. QED
    BY <1>1, <1>2, <1>4, <2>1 DEF PointerInv, OwnInv, OwnPacketWhole
<1>6. ArriveInv'
  BY <1>1, <1>2, <1>4 DEF PointerInv, ArriveInv
<1>7. OrderInv'
  BY <1>1 DEF PointerInv, OrderInv
<1>8. QED
  BY <1>3, <1>5, <1>6, <1>7 DEF PointerInv

\* The argument is what cmd points at when the call is made.
LEMMA CallSendCmdKeeps ==
    ASSUME MaxSettings \in Nat, PointerInv, NEW t \in Threads, CallSendCmd(t)
    PROVE  PointerInv'
<1>1. /\ pc[t] = "call" /\ pc' = [pc EXCEPT ![t] = "lock"]
      /\ str' = [str EXCEPT ![t] = cmd]
      /\ sendbuff' = [sendbuff EXCEPT ![t] = <<>>]
      /\ UNCHANGED <<cmd, buffer, mutex, setting, aim, own, overtaken, heard, switch,
                   repeated, noops>>
  BY DEF CallSendCmd, Goes, atRadio
<1>2. /\ pc'[t] = "lock" /\ str'[t] = cmd /\ sendbuff'[t] = <<>> /\ mutex # t
      /\ \A u \in Threads \ {t} : pc'[u] = pc[u] /\ str'[u] = str[u] /\ sendbuff'[u] = sendbuff[u]
  BY <1>1 DEF PointerInv, FormInv
<1>3. FormInv'
  <2>1. sendbuff' \in [Threads -> Seq(0..MaxSettings)] /\ str' \in [Threads -> Buffers]
    BY <1>1 DEF PointerInv, FormInv
  <2>2. QED
    BY <1>1, <1>2, <2>1 DEF PointerInv, FormInv, Threads
<1>4. Whole' = Whole
  BY <1>1 DEF Whole
<1>5. OwnInv'
  <2>1. CASE t = "gui"
    BY <2>1, <1>1, <1>2, <1>4 DEF PointerInv, OwnInv, OwnPacketWhole
  <2>2. CASE t = "watchdog"
    BY <2>2, <1>1, <1>2, <1>4 DEF PointerInv, OwnInv, OwnPacketWhole, Threads
  <2>3. QED
    BY <2>1, <2>2 DEF Threads
<1>6. ArriveInv'
  BY <1>1, <1>2, <1>4 DEF PointerInv, ArriveInv, Threads
<1>7. OrderInv'
  BY <1>1, <1>2 DEF PointerInv, OrderInv
<1>8. QED
  BY <1>3, <1>5, <1>6, <1>7 DEF PointerInv

\* One of the threads gets the mutex of the port.
LEMMA LockKeeps ==
    ASSUME MaxSettings \in Nat, PointerInv, NEW t \in Threads, Lock(t)
    PROVE  PointerInv'
<1>1. /\ pc[t] = "lock" /\ pc' = [pc EXCEPT ![t] = "copy"]
      /\ mutex = "none" /\ mutex' = t /\ sendbuff[t] = <<>>
      /\ UNCHANGED <<cmd, buffer, str, sendbuff, setting, aim, own, overtaken, heard, switch,
                   repeated, noops>>
  BY DEF Lock, Goes, atRadio, PointerInv, FormInv
<1>2. pc'[t] = "copy" /\ \A u \in Threads \ {t} : pc'[u] = pc[u]
  BY <1>1 DEF PointerInv, FormInv
<1>3. FormInv'
  BY <1>1, <1>2 DEF PointerInv, FormInv, Threads
<1>4. Whole' = Whole
  BY <1>1 DEF Whole
<1>5. OwnInv'
  BY <1>1, <1>2, <1>4 DEF PointerInv, OwnInv, OwnPacketWhole, Threads
<1>6. ArriveInv'
  BY <1>1, <1>2, <1>4 DEF PointerInv, ArriveInv, Threads
<1>7. OrderInv'
  BY <1>1, <1>2 DEF PointerInv, OrderInv
<1>8. QED
  BY <1>3, <1>5, <1>6, <1>7 DEF PointerInv

\* A byte of the buffer, as it is now, is copied.
LEMMA CopyByteKeeps ==
    ASSUME MaxSettings \in Nat, PointerInv, NEW t \in Threads, CopyByte(t)
    PROVE  PointerInv'
<1> DEFINE n == Len(sendbuff[t]) + 1
           x == buffer[str[t]][n]
<1>1. /\ pc[t] = "copy" /\ mutex = t /\ n \in Bytes /\ Len(sendbuff[t]) \in Nat
      /\ pc' = [pc EXCEPT ![t] = IF n = 2 THEN "write" ELSE "copy"]
      /\ sendbuff' = [sendbuff EXCEPT ![t] = Append(sendbuff[t], x)]
      /\ UNCHANGED <<cmd, buffer, str, mutex, setting, aim, own, overtaken, heard, switch,
                   repeated, noops>>
  BY DEF CopyByte, Goes, atRadio, PointerInv, FormInv, Bytes
<1>2. x \in 0..MaxSettings /\ sendbuff[t] \in Seq(0..MaxSettings)
  BY <1>1 DEF PointerInv, FormInv, Packet
<1>3. /\ pc'[t] = IF n = 2 THEN "write" ELSE "copy"
      /\ sendbuff'[t] = Append(sendbuff[t], x)
      /\ sendbuff' \in [Threads -> Seq(0..MaxSettings)]
      /\ \A u \in Threads \ {t} : pc'[u] = pc[u] /\ sendbuff'[u] = sendbuff[u]
  BY <1>1, <1>2 DEF PointerInv, FormInv
<1>4. /\ Len(sendbuff'[t]) = n
      /\ \A i \in 1..(n - 1) : sendbuff'[t][i] = sendbuff[t][i]
      /\ sendbuff'[t][n] = x
  BY <1>2, <1>3, Copied
<1>5. \A i \in 1..n : i \in 1..(n - 1) \/ i = n
  BY <1>1
<1> HIDE DEF n
<1>6. n = Len(sendbuff[t]) + 1 /\ 1..Len(sendbuff[t]) = 1..(n - 1)
  BY <1>1 DEF n
<1>7. FormInv'
  BY <1>1, <1>3, <1>4, <1>6 DEF PointerInv, FormInv, Threads, Bytes
<1>8. Whole' = Whole
  BY <1>1 DEF Whole
<1>9. OwnInv'
  <2>1. CASE t = "gui"
    BY <2>1, <1>1, <1>3, <1>4, <1>5, <1>6, <1>8 DEF PointerInv, OwnInv, OwnPacketWhole
  <2>2. CASE t = "watchdog"
    BY <2>2, <1>1, <1>3, <1>8 DEF PointerInv, OwnInv, OwnPacketWhole, Threads
  <2>3. QED
    BY <2>1, <2>2 DEF Threads
<1>10. ArriveInv'
  <2>1. CASE t = "gui"
    BY <2>1, <1>1, <1>3, <1>8 DEF PointerInv, ArriveInv, Threads
  <2>2. CASE t = "watchdog"
    BY <2>2, <1>1, <1>3, <1>4, <1>5, <1>6, <1>8 DEF PointerInv, ArriveInv, Threads
  <2>3. QED
    BY <2>1, <2>2 DEF Threads
<1>11. OrderInv'
  <2>1. str[t] \in Buffers /\ heard[str[t]][n] <= x /\ x <= x
    BY <1>1, <1>2 DEF PointerInv, OrderInv, FormInv
  <2>2. \A i \in 1..n : heard[str[t]][i] <= sendbuff'[t][i] /\ sendbuff'[t][i] <= buffer[str[t]][i]
    BY <2>1, <1>1, <1>4, <1>5, <1>6 DEF PointerInv, OrderInv
  <2>3. QED
    BY <1>1, <1>3, <1>4, <2>2 DEF PointerInv, OrderInv
<1>12. QED
  BY <1>7, <1>9, <1>10, <1>11 DEF PointerInv

\* The radio takes the packet, which is no older than what it has.
LEMMA WriteNewer ==
    ASSUME MaxSettings \in Nat, PointerInv, NEW t \in Threads, Write(t)
    PROVE  /\ sendbuff[t] \in Packet /\ heard' \in [Buffers -> Packet]
           /\ heard'[str[t]] = sendbuff[t]
           /\ \A b \in Buffers \ {str[t]} : heard'[b] = heard[b]
           /\ \A b \in Buffers, n \in Bytes :
                 heard[b][n] <= heard'[b][n] /\ heard'[b][n] <= buffer[b][n]
<1>1. /\ pc[t] = "write" /\ mutex = t /\ Len(sendbuff[t]) = 2
      /\ sendbuff[t] \in Seq(0..MaxSettings) /\ str[t] \in Buffers
      /\ heard' = [heard EXCEPT ![str[t]] = sendbuff[t]]
  BY DEF Write, Goes, PointerInv, FormInv
<1>2. sendbuff[t] \in Packet
  BY <1>1, CopiedPacket DEF Packet
<1>3. /\ heard' \in [Buffers -> Packet]
      /\ heard'[str[t]] = sendbuff[t]
      /\ \A b \in Buffers \ {str[t]} : heard'[b] = heard[b]
  BY <1>1, <1>2 DEF PointerInv, FormInv
<1>4. \A n \in Bytes :
         heard[str[t]][n] <= sendbuff[t][n] /\ sendbuff[t][n] <= buffer[str[t]][n]
  BY <1>1 DEF PointerInv, OrderInv, Bytes
<1>5. \A b \in Buffers, n \in Bytes :
         heard[b][n] <= buffer[b][n] /\ heard[b][n] <= heard[b][n]
  BY DEF PointerInv, OrderInv, FormInv, Packet
<1>6. QED
  BY <1>2, <1>3, <1>4, <1>5

\* The packet goes out, and the other thread may copy its own.
LEMMA WriteKeeps ==
    ASSUME MaxSettings \in Nat, PointerInv, NEW t \in Threads, Write(t)
    PROVE  PointerInv'
<1>1. /\ pc[t] = "write" /\ pc' = [pc EXCEPT ![t] = "idle"]
      /\ mutex = t /\ mutex' = "none" /\ Len(sendbuff[t]) = 2
      /\ own' = IF t = "gui" THEN [cmd |-> str[t], bytes |-> sendbuff[t]] ELSE own
      /\ switch' = IF str[t] \in Switches THEN str[t] ELSE switch
      /\ repeated' = (repeated \/ (t = "watchdog" /\ str[t] \in Switches))
      /\ UNCHANGED <<cmd, buffer, str, sendbuff, setting, aim, overtaken, noops>>
  BY DEF Write, Goes, PointerInv, FormInv
<1>2. pc'[t] = "idle" /\ \A u \in Threads \ {t} : pc'[u] = pc[u]
  BY <1>1 DEF PointerInv, FormInv
<1>3. /\ sendbuff[t] \in Packet /\ heard' \in [Buffers -> Packet]
      /\ heard'[str[t]] = sendbuff[t]
      /\ \A b \in Buffers \ {str[t]} : heard'[b] = heard[b]
      /\ \A b \in Buffers, n \in Bytes : heard'[b][n] <= buffer[b][n]
  BY WriteNewer
<1>4. FormInv'
  BY <1>1, <1>2, <1>3 DEF PointerInv, FormInv, Threads
<1>5. Whole' = Whole
  BY <1>1 DEF Whole
<1>6. ASSUME \A i \in 1..Len(sendbuff[t]) : sendbuff[t][i] = Whole[i]
      PROVE  sendbuff[t] = Whole
  <2>1. Whole \in Packet
    BY WholePacket DEF PointerInv
  <2>2. QED
    BY <1>1, <1>3, <1>6, <2>1, PacketIsPair DEF Packet
<1>7. OwnInv'
  <2>1. CASE t = "gui"
    <3>1. str["gui"] = aim => sendbuff["gui"] = Whole
      BY <2>1, <1>1, <1>6 DEF PointerInv, OwnInv
    <3>2. OwnPacketWhole'
      BY <2>1, <3>1, <1>1, <1>5 DEF PointerInv, OwnInv, OwnPacketWhole
    <3>3. QED
      BY <2>1, <3>2, <1>1, <1>2, <1>5 DEF PointerInv, OwnInv
  <2>2. CASE t = "watchdog"
    BY <2>2, <1>1, <1>2, <1>5 DEF PointerInv, OwnInv, OwnPacketWhole, Threads
  <2>3. QED
    BY <2>1, <2>2 DEF Threads
<1>8. ArriveInv'
  <2>1. CASE t = "gui"
    <3>1. ~overtaken => str["gui"] = aim /\ sendbuff["gui"] = Whole /\ buffer[aim] = Whole
      BY <2>1, <1>1, <1>6 DEF PointerInv, OwnInv, ArriveInv
    <3>2. QED
      BY <2>1, <3>1, <1>1, <1>2, <1>3, <1>5 DEF ArriveInv
  <2>2. CASE t = "watchdog"
    <3> SUFFICES ASSUME ~overtaken PROVE ArriveInv'
      BY <1>1 DEF ArriveInv
    <3>1. pc["gui"] = "idle" /\ setting > 0 /\ str["watchdog"] = aim => sendbuff["watchdog"] = Whole
      BY <2>2, <1>1, <1>6 DEF PointerInv, ArriveInv
    <3>2. aim \in Buffers /\ pc'["gui"] = pc["gui"]
      BY <2>2, <1>2 DEF PointerInv, FormInv, Buffers, Threads
    <3>3. pc["gui"] = "idle" /\ setting > 0 => heard'[aim] = Whole
      BY <2>2, <3>1, <3>2, <1>3 DEF PointerInv, ArriveInv
    <3>4. switch' = switch \/ repeated'
      BY <2>2, <1>1
    <3>5. QED
      BY <3>2, <3>3, <3>4, <1>1, <1>5 DEF PointerInv, ArriveInv
  <2>3. QED
    BY <2>1, <2>2 DEF Threads
<1>9. OrderInv'
  BY <1>1, <1>3 DEF PointerInv, OrderInv, Threads
<1>10. QED
  BY <1>4, <1>7, <1>8, <1>9 DEF PointerInv

-----------------------------------------------------------------------------
\* Every step of the two threads keeps the invariant.
LEMMA PointerStepKeeps ==
    ASSUME MaxSettings \in Nat, MaxNoops \in Nat, PointerInv, [PointerNext]_pointerVars
    PROVE  PointerInv'
<1>1. CASE PointerNext
  BY <1>1, MakeKeeps, FillKeeps, PointAtBufferKeeps, PointAtOffKeeps, StoreThroughKeeps,
     PointAtNoopKeeps, CallSendCmdKeeps, LockKeeps, CopyByteKeeps, WriteKeeps DEF PointerNext
<1>2. CASE UNCHANGED pointerVars
  <2>1. UNCHANGED <<cmd, buffer, pc, str, sendbuff, mutex, setting, aim, own, overtaken, heard,
                    switch, repeated, noops>> /\ Whole' = Whole
    BY <1>2 DEF pointerVars, atRadio, Whole
  <2>2. FormInv'
    BY <2>1 DEF PointerInv, FormInv
  <2>3. OwnInv'
    BY <2>1 DEF PointerInv, OwnInv, OwnPacketWhole
  <2>4. ArriveInv' /\ OrderInv'
    BY <2>1 DEF PointerInv, ArriveInv, OrderInv
  <2>5. QED
    BY <2>2, <2>3, <2>4 DEF PointerInv
<1>3. QED
  BY <1>1, <1>2

\* setXcvr*, setXcvrNOOP and sendCmd: the inductive invariant of the pointer they share.
THEOREM PointerInvariance == PointerSpec => []PointerInv
<1>1. PointerInit => PointerInv
  BY PointerAssumption, PointerInitHolds
<1>2. PointerInv /\ [PointerNext]_pointerVars => PointerInv'
  BY PointerAssumption, PointerStepKeeps
<1>3. QED
  BY <1>1, <1>2, PTL DEF PointerSpec

\* Every packet has the length of its command and every pointer a buffer.
THEOREM PacketsAreWellFormed == PointerSpec => []PointerTypeOK
<1>1. PointerInv => PointerTypeOK
  BY DEF PointerInv, FormInv, PointerTypeOK, Packet, Buffers
<1>2. QED
  BY PointerInvariance, <1>1, PTL

\* setXcvrRcvFreq, setXcvrCompression, setXcvrCarrier: what the GUI thread sends for a setting is that setting,
\* whole, or a keep-alive, wherever the watchdog comes in between.
THEOREM SettingsAreSentWhole == PointerSpec => []OwnPacketWhole
<1>1. PointerInv => OwnPacketWhole
  BY DEF PointerInv, OwnInv
<1>2. QED
  BY PointerInvariance, <1>1, PTL

\* A setting that does not arrive was overtaken by the watchdog while it was being made, or it is
\* the position of a switch, and the watchdog has sent one for its keep-alive.
THEOREM SettingsArrive == PointerSpec => []ArrivesOrOvertaken
<1>1. PointerInv => ArrivesOrOvertaken
  BY DEF PointerInv, ArriveInv, ArrivesOrOvertaken
<1>2. QED
  BY PointerInvariance, <1>1, PTL

\* sendCmd: whichever thread sends, the radio never gets an older value after a newer one; and a
\* switch is put to another position than the last one asked for only by a keep-alive for which
\* the watchdog took the switch's command.
THEOREM RadioNeverGoesBack == PointerSpec => NeverGoesBack
<1> DEFINE A == /\ \A b \in Buffers, n \in Bytes : heard[b][n] <= heard'[b][n]
                /\ switch' # switch =>
                     \/ switch' = aim
                     \/ Write("watchdog") /\ str["watchdog"] \in Switches
<1>1. ASSUME PointerInv, [PointerNext]_pointerVars
      PROVE  [A]_pointerVars
  <2>1. \A b \in Buffers, n \in Bytes : heard[b][n] <= heard[b][n]
    BY <1>1 DEF PointerInv, FormInv, Packet
  <2>2. ASSUME NEW t \in Threads, Write(t) PROVE A
    <3>1. \A b \in Buffers, n \in Bytes : heard[b][n] <= heard'[b][n]
      BY PointerAssumption, <1>1, <2>2, WriteNewer
    <3>2. switch' # switch => switch' = str[t] /\ str[t] \in Switches
      BY <2>2 DEF Write
    <3>3. t = "gui" => str[t] \in {aim, "noop"}
      BY <1>1, <2>2 DEF PointerInv, OwnInv, Write, Goes
    <3>4. QED
      BY <2>2, <3>1, <3>2, <3>3 DEF Threads, Switches
  <2>3. CASE PointerNext /\ ~\E t \in Threads : Write(t)
    <3>1. heard' = heard /\ switch' = switch
      BY <2>3 DEF PointerNext, Make, Fill, PointAtBuffer, PointAtOff, PointAtOn, StoreThrough,
                  PointAtNoop, CallSendCmd, Lock, CopyByte, atRadio
    <3>2. QED
      BY <2>1, <3>1
  <2>4. QED
    BY <1>1, <2>2, <2>3
<1>2. QED
  BY PointerInvariance, <1>1, PTL DEF PointerSpec, NeverGoesBack

-----------------------------------------------------------------------------
(***************************************************************************)
(* The bounds of the telemetry stack, for a stack of any size: whatever    *)
(* the pusher threads and the popper lose of each other's changes of top,  *)
(* no access is below the array, and none is beyond it unless one push     *)
(* began during another.                                                   *)
(***************************************************************************)

\* The program counters and the copies of top.
StackTyped ==
    /\ top \in Int /\ gtop \in Int
    /\ ppc \in [Pushers -> {"idle", "load", "store", "write"}]
    /\ loaded \in [Pushers -> Int]
    /\ gpc \in {"idle", "load", "store", "read"}
    /\ raced \in BOOLEAN

\* A pop that passed the test finds an entry, even when a push has stored an older value of
\* top meanwhile: no push stores less than 0.
Below ==
    /\ top >= -1
    /\ \A p \in Pushers : loaded[p] >= -1
    /\ gpc = "load" => top >= 0
    /\ gpc \in {"store", "read"} => gtop >= 0

\* A push that is alone keeps the room it found: pops only make more.
Above ==
    /\ top < StackSize
    /\ \A p \in Pushers : ppc[p] # "idle" => \A q \in Pushers \ {p} : ppc[q] = "idle"
    /\ \A p \in Pushers : ppc[p] = "load" => top < StackSize - 1
    /\ \A p \in Pushers : ppc[p] \in {"store", "write"} => loaded[p] < StackSize - 1
    /\ gpc \in {"store", "read"} => gtop < StackSize

StackInv == StackTyped /\ Below /\ (raced \/ Above)

-----------------------------------------------------------------------------
\* At the start the stack is empty and no thread is in it.
LEMMA StackInitHolds ==
    ASSUME StackSize \in Nat, StackInit
    PROVE  StackInv
<1> USE DEF StackInit
<1>1. StackTyped
  <2>1. top \in Int /\ gtop \in Int
    OBVIOUS
  <2>2. ppc \in [Pushers -> {"idle", "load", "store", "write"}]
    BY Zenon
  <2>3. loaded \in [Pushers -> Int]
    OBVIOUS
  <2>4. gpc \in {"idle", "load", "store", "read"} /\ raced \in BOOLEAN
    BY Zenon
  <2>5. QED
    BY <2>1, <2>2, <2>3, <2>4 DEF StackTyped
<1>2. Below
  BY DEF Below
<1>3. Above
  BY DEF Above
<1>4. QED
  BY <1>1, <1>2, <1>3 DEF StackInv

\* cStack::push, in its four steps, by either thread.
LEMMA PushKeeps ==
    ASSUME StackSize \in Nat, StackInv, NEW p \in Pushers,
           PushBegins(p) \/ PushLoads(p) \/ PushStores(p) \/ PushWrites(p)
    PROVE  StackInv'
<1>1. CASE PushBegins(p)
  <2> USE <1>1 DEF PushBegins, popper, meters
  <2>1. StackTyped'
    BY DEF StackInv, StackTyped
  <2>2. Below'
    BY DEF StackInv, StackTyped, Below
  <2>3. ASSUME ~raced' PROVE Above'
    <3>1. ~raced /\ \A q \in Pushers \ {p} : ppc[q] = "idle"
      BY <2>3, Zenon
    <3>2. Above /\ top < StackSize - 1
      BY <3>1 DEF StackInv, StackTyped, Above, isFull
    <3>3. QED
      BY <3>1, <3>2 DEF StackInv, StackTyped, Above
  <2>4. QED
    BY <2>1, <2>2, <2>3 DEF StackInv
<1>2. CASE PushLoads(p)
  <2> USE <1>2 DEF PushLoads, popper, meters
  <2>1. StackTyped'
    BY DEF StackInv, StackTyped
  <2>2. Below'
    BY DEF StackInv, StackTyped, Below
  <2>3. ASSUME ~raced' PROVE Above'
    BY <2>3 DEF StackInv, StackTyped, Above
  <2>4. QED
    BY <2>1, <2>2, <2>3 DEF StackInv
<1>3. CASE PushStores(p)
  <2> USE <1>3 DEF PushStores, popper, meters
  <2>1. StackTyped'
    BY DEF StackInv, StackTyped
  <2>2. Below'
    BY DEF StackInv, StackTyped, Below
  <2>3. ASSUME ~raced' PROVE Above'
    BY <2>3 DEF StackInv, StackTyped, Above
  <2>4. QED
    BY <2>1, <2>2, <2>3 DEF StackInv
<1>4. CASE PushWrites(p)
  <2> USE <1>4 DEF PushWrites, popper, meters
  <2>1. StackTyped'
    BY DEF StackInv, StackTyped
  <2>2. Below'
    BY DEF StackInv, StackTyped, Below
  <2>3. ASSUME ~raced' PROVE Above'
    BY <2>3 DEF StackInv, StackTyped, Above
  <2>4. QED
    BY <2>1, <2>2, <2>3 DEF StackInv
<1>5. QED
  BY <1>1, <1>2, <1>3, <1>4

\* cStack::pop, in its four steps, whatever the reading it returns.
LEMMA PopKeeps ==
    ASSUME StackSize \in Nat, StackInv,
           PopBegins \/ PopLoads \/ PopStores \/ \E data \in Readings : PopParses(data)
    PROVE  StackInv'
<1>1. CASE PopBegins
  BY <1>1 DEF PopBegins, isEmpty, pusher, StackInv, StackTyped, Below, Above
<1>2. CASE PopLoads
  BY <1>2 DEF PopLoads, pusher, StackInv, StackTyped, Below, Above
<1>3. CASE PopStores
  BY <1>3 DEF PopStores, pusher, StackInv, StackTyped, Below, Above
<1>4. CASE \E data \in Readings : PopParses(data)
  <2>1. PICK data \in Readings : PopParses(data)
    BY <1>4
  <2>2. /\ gpc' = "idle" /\ gtop' = 0 /\ top' = top
        /\ ppc' = ppc /\ loaded' = loaded /\ raced' = raced
    BY <2>1 DEF PopParses, pusher
  <2>3. QED
    BY <2>2 DEF StackInv, StackTyped, Below, Above
<1>5. QED
  BY <1>1, <1>2, <1>3, <1>4

\* Every step of the stack keeps the invariant.
LEMMA StackStepKeeps ==
    ASSUME StackSize \in Nat, StackInv, [StackNext]_stackVars
    PROVE  StackInv'
<1>1. CASE \E p \in Pushers : PushBegins(p) \/ PushLoads(p) \/ PushStores(p) \/ PushWrites(p)
  BY <1>1, PushKeeps
<1>2. CASE PopBegins \/ PopLoads \/ PopStores \/ \E data \in Readings : PopParses(data)
  BY <1>2, PopKeeps
<1>3. CASE UNCHANGED stackVars
  BY <1>3 DEF stackVars, pusher, popper, StackInv, StackTyped, Below, Above
<1>4. QED
  BY <1>1, <1>2, <1>3 DEF StackNext

\* cStack: the inductive invariant behind the theorem below.
THEOREM StackInvariance == StackSpec => []StackInv
<1>1. StackInit => StackInv
  BY StackAssumption, StackInitHolds
<1>2. StackInv /\ [StackNext]_stackVars => StackInv'
  BY StackAssumption, StackStepKeeps
<1>3. QED
  BY <1>1, <1>2, PTL DEF StackSpec

\* cStack::push and pop: no access outside the array unless two pushes overlapped, for any
\* size of the stack and any loss of updates of top.
THEOREM StackStaysInArray == StackSpec => []StaysInArray
<1>1. StackInv => NeverBelowEmpty
  BY DEF StackInv, Below, NeverBelowEmpty
<1>2. StackInv => OverflowNeedsTwoPushes
  BY StackAssumption DEF StackInv, StackTyped, Above, OverflowNeedsTwoPushes
<1>3. StackInv => StaysInArray
  BY <1>1, <1>2 DEF StaysInArray
<1>4. QED
  BY StackInvariance, <1>3, PTL

-----------------------------------------------------------------------------
(* The meters that parseTelemetry drives.                                  *)

\* One of two directions is in use, and the meter of the other is down.
MeterInv ==
    /\ smeter_active \in BOOLEAN /\ pwrmtr_active \in BOOLEAN
    /\ smeter \in BOOLEAN /\ pwrmeter \in BOOLEAN
    /\ smeter_active <=> ~pwrmtr_active
    /\ smeter => smeter_active
    /\ pwrmeter => pwrmtr_active

\* zeroSmeter and zeroXmtMeters: a reading turns one meter down before it uses the other,
\* and leaves both alone when its direction was in use already.
LEMMA ReadingKeeps ==
    ASSUME MeterInv, NEW data \in Readings, PopParses(data)
    PROVE  MeterInv'
<1>1. CASE ReceiveReading
  BY <1>1, Zenon DEF ReceiveReading, MeterInv
<1>2. CASE TransmitReading
  <2>1. CASE smeter_active
    BY <1>2, <2>1, Zenon DEF TransmitReading, MeterInv
  <2>2. CASE ~smeter_active
    BY <1>2, <2>2, Zenon DEF TransmitReading, MeterInv
  <2>3. QED
    BY <2>1, <2>2
<1>3. CASE UNCHANGED meters
  BY <1>3 DEF meters, MeterInv
<1>4. QED
  BY <1>1, <1>2, <1>3 DEF PopParses

\* Whatever is popped keeps the invariant of the meters.
THEOREM MeterInvariance == StackSpec => []MeterInv
<1>1. StackInit => MeterInv
  BY Zenon DEF StackInit, MeterInv
<1>2. MeterInv /\ [StackNext]_stackVars => MeterInv'
  <2>1. ASSUME MeterInv, UNCHANGED meters
        PROVE  MeterInv'
    BY <2>1 DEF meters, MeterInv
  <2>2. ASSUME NEW p \in Pushers,
               PushBegins(p) \/ PushLoads(p) \/ PushStores(p) \/ PushWrites(p)
        PROVE  UNCHANGED meters
    BY <2>2 DEF PushBegins, PushLoads, PushStores, PushWrites
  <2>3. PopBegins \/ PopLoads \/ PopStores \/ UNCHANGED stackVars => UNCHANGED meters
    BY DEF PopBegins, PopLoads, PopStores, stackVars
  <2>4. QED
    BY <2>1, <2>2, <2>3, ReadingKeeps DEF StackNext
<1>3. QED
  BY <1>1, <1>2, PTL DEF StackSpec

\* parseTelemetry: the meter of the direction that is not in use shows zero, whatever the
\* stack loses, repeats or turns round.
THEOREM RestingMetersShowZero == StackSpec => []RestingMeterShowsZero
<1>1. MeterInv => RestingMeterShowsZero
  BY Zenon DEF MeterInv, RestingMeterShowsZero
<1>2. QED
  BY MeterInvariance, <1>1, PTL

\* The bound of PushLoads bounds top, and the copies of it.
Bounded ==
    /\ top <= StackSize + 1 /\ gtop \in -1..(StackSize + 1)
    /\ \A p \in Pushers : loaded[p] <= StackSize

\* Every step of the stack keeps the bounds.
LEMMA BoundsKeep ==
    ASSUME StackSize \in Nat, StackInv, Bounded, [StackNext]_stackVars
    PROVE  Bounded'
<1> USE DEF StackInv, StackTyped, Below, Bounded
<1>1. ASSUME NEW p \in Pushers, PushBegins(p) PROVE Bounded'
  BY <1>1 DEF PushBegins, popper
<1>2. ASSUME NEW p \in Pushers, PushLoads(p) PROVE Bounded'
  BY <1>2 DEF PushLoads, popper
<1>3. ASSUME NEW p \in Pushers, PushStores(p) PROVE Bounded'
  BY <1>3 DEF PushStores, popper
<1>4. ASSUME NEW p \in Pushers, PushWrites(p) PROVE Bounded'
  BY <1>4 DEF PushWrites, popper
<1>5. CASE PopBegins
  BY <1>5 DEF PopBegins, pusher
<1>6. CASE PopLoads
  BY <1>6 DEF PopLoads, pusher
<1>7. CASE PopStores
  BY <1>7 DEF PopStores, pusher
<1>8. ASSUME NEW data \in Readings, PopParses(data) PROVE Bounded'
  <2>1. gtop' = 0 /\ top' = top /\ loaded' = loaded
    BY <1>8 DEF PopParses, pusher
  <2>2. QED
    BY <2>1
<1>9. CASE UNCHANGED stackVars
  BY <1>9 DEF stackVars, pusher, popper
<1>10. QED
  BY <1>1, <1>2, <1>3, <1>4, <1>5, <1>6, <1>7, <1>8, <1>9 DEF StackNext

\* The stack keeps its types: however top is raced for, it and the copies of it stay within one
\* of the bounds of the array, which is the bound of PushLoads.
THEOREM StackTypes == StackSpec => []StackTypeOK
<1>1. StackInit => Bounded
  BY StackAssumption DEF StackInit, Bounded
<1>2. StackInv /\ Bounded /\ [StackNext]_stackVars => Bounded'
  BY StackAssumption, BoundsKeep
<1>3. StackInv /\ Bounded /\ MeterInv => StackTypeOK
  <2> SUFFICES ASSUME StackInv, Bounded, MeterInv PROVE StackTypeOK
    OBVIOUS
  <2>1. top \in -1..(StackSize + 1)
    BY StackAssumption DEF StackInv, StackTyped, Below, Bounded
  <2>2. loaded \in [Pushers -> -1..StackSize]
    BY StackAssumption DEF StackInv, StackTyped, Below, Bounded
  <2>3. gtop \in -1..(StackSize + 1)
    BY StackAssumption DEF StackInv, StackTyped, Below, Bounded
  <2>4. {smeter_active, pwrmtr_active, smeter, pwrmeter, raced} \subseteq BOOLEAN
    BY DEF StackInv, StackTyped, MeterInv
  <2>5. QED
    BY <2>1, <2>2, <2>3, <2>4 DEF StackInv, StackTyped, StackTypeOK
<1>4. QED
  BY <1>1, <1>2, <1>3, StackInvariance, MeterInvariance, PTL DEF StackSpec

-----------------------------------------------------------------------------
(***************************************************************************)
(* The CW keyboard, for any characters and any number of them typed.       *)
(*                                                                         *)
(* The thread keys the next character only after it has slept as long as   *)
(* the last one lasts, which is never less than a character gap.  As long  *)
(* as the GUI thread takes less than a gap to delete what was keyed, at    *)
(* most one deletion is thus queued, and it is about the first character   *)
(* of the text (WaitInv).                                                  *)
(***************************************************************************)

\* A text is no longer than what was typed, so the bound on typing bounds it.
TextInv == Len(txt) <= Len(typed)

\* The deletion that is queued and the wait of the thread: one of them, and it is over first.
WaitInv ==
    /\ queued = 0 => age = 0
    /\ ~late => /\ queued <= 1
                /\ queued > 0 => age < Gap /\ age + duration >= Gap
    /\ ~late /\ ~crossed /\ queued > 0 => txt # <<>>

KeyerInv == KeyerTypeOK /\ TextInv /\ WaitInv /\ KeyedAsTyped

-----------------------------------------------------------------------------
(* The length of a character and the text.                                 *)

\* A character lasts at least its gap, and none longer than a wait may be.
LEMMA CharDuration ==
    ASSUME NEW c \in Keys
    PROVE  char_duration(c) \in Gap..(7 + Gap + 2)
<1>1. CASE c = " "
  <2>1. char_duration(c) = 7
    BY <1>1, Zenon DEF char_duration
  <2>2. QED
    BY <2>1 DEF Gap
<1>2. CASE c # " "
  <2> DEFINE m == morse[c]
             dahs == {i \in DOMAIN m : m[i] = "-"}
             dits == {i \in DOMAIN m : m[i] = "."}
  <2>1. m = (CASE c = "E" -> <<".">> [] c = "T" -> <<"-">>
               [] c = "A" -> <<".", "-">> [] c = "#" -> <<>>)
    BY <1>2 DEF morse
  <2>2. c \in {"E", "T", "A", "#"}
    BY <1>2 DEF Keys
  <2>3. /\ c = "E" => dahs = {} /\ dits = {1}
        /\ c = "T" => dahs = {1} /\ dits = {}
        /\ c = "A" => dahs = {2} /\ dits = {1}
        /\ c = "#" => dahs = {} /\ dits = {}
    BY <2>1
  <2> HIDE DEF m, dahs, dits
  <2>4. Cardinality(dahs) \in 0..1 /\ Cardinality(dits) \in 0..1
    <3>1. Cardinality({}) = 0 /\ Cardinality({1}) = 1 /\ Cardinality({2}) = 1
      BY FS_EmptySet, FS_Singleton
    <3>2. QED
      BY <2>2, <2>3, <3>1
  <2>5. char_duration(c) = 4 * Cardinality(dahs) + 2 * Cardinality(dits) + Gap
    BY <1>2 DEF char_duration, Elements, m, dahs, dits
  <2>6. QED
    BY <2>4, <2>5 DEF Gap
<1>3. QED
  BY <1>1, <1>2

\* Keying the first character moves it from the text to what was keyed.
LEMMA HeadMoves ==
    ASSUME NEW S, NEW k \in Seq(S), NEW t \in Seq(S), t # <<>>
    PROVE  /\ Head(t) \in S /\ Tail(t) \in Seq(S) /\ Append(k, Head(t)) \in Seq(S)
           /\ Len(Tail(t)) = Len(t) - 1 /\ Len(t) >= 1
           /\ k \o t = Append(k, Head(t)) \o Tail(t)
  OBVIOUS

\* Typing adds to the end of what was keyed and what is left.
LEMMA TypedAtEnd ==
    ASSUME keyed \in Seq(Chars), NEW t \in Seq(Chars), NEW c \in Chars
    PROVE  Append(keyed \o t, c) = keyed \o Append(t, c)
  OBVIOUS

\* The end of a text is beyond its first character.
LEMMA TypedBehindHead ==
    ASSUME NEW S, NEW t \in Seq(S), NEW c \in S
    PROVE  /\ Append(t, c) \in Seq(S) /\ Append(t, c) # <<>> /\ Len(Append(t, c)) = Len(t) + 1
           /\ t # <<>> => Tail(t) \in Seq(S) /\ Tail(Append(t, c)) = Append(Tail(t), c)
  OBVIOUS

-----------------------------------------------------------------------------
(* The operator, the GUI thread and the CW thread.                         *)

\* Nothing is typed and nothing keyed.
LEMMA KeyerInitHolds ==
    ASSUME Chars \subseteq Keys, MaxTyped \in Nat, KeyerInit
    PROVE  KeyerInv
<1>1. <<>> \in Seq(Chars) /\ Len(<<>>) = 0 /\ <<>> \o <<>> = <<>>
  BY EmptySeq
<1>2. btn_send \in BOOLEAN /\ visible \in BOOLEAN /\ late \in BOOLEAN /\ crossed \in BOOLEAN
  BY Zenon DEF KeyerInit
<1>3. KeyerTypeOK
  BY <1>1, <1>2 DEF KeyerInit, KeyerTypeOK, Gap, Idle
<1>4. TextInv /\ WaitInv
  BY <1>1 DEF KeyerInit, TextInv, WaitInv
<1>5. KeyedAsTyped
  <2>1. typed = <<>> /\ keyed = <<>> /\ txt = <<>> /\ queued = 0
    BY DEF KeyerInit
  <2>2. ~(queued > 0)
    BY <2>1
  <2>3. QED
    BY <1>1, <2>1, <2>2 DEF KeyedAsTyped
<1>6. QED
  BY <1>3, <1>4, <1>5 DEF KeyerInv

\* A character is typed behind the others.
LEMMA TypeKeeps ==
    ASSUME Chars \subseteq Keys, MaxTyped \in Nat, KeyerInv, NEW c \in Chars, Type(c)
    PROVE  KeyerInv'
<1>1. /\ Len(typed) < MaxTyped
      /\ txt' = Append(txt, c) /\ typed' = Append(typed, c)
      /\ UNCHANGED <<btn_send, visible, duration, queued, age, keyed, late, crossed>>
  BY DEF Type
<1>2. txt \in Seq(Chars) /\ typed \in Seq(Chars) /\ keyed \in Seq(Chars)
  BY DEF KeyerInv, KeyerTypeOK
<1>3. /\ txt' \in Seq(Chars) /\ typed' \in Seq(Chars) /\ txt' # <<>>
      /\ Len(txt') = Len(txt) + 1 /\ Len(typed') = Len(typed) + 1
  BY <1>1, <1>2, TypedBehindHead
<1>4. KeyerTypeOK' /\ TextInv' /\ WaitInv'
  <2>1. Len(txt) \in Nat /\ Len(typed) \in Nat /\ Len(txt) <= Len(typed)
    BY <1>2 DEF KeyerInv, TextInv
  <2>2. KeyerTypeOK'
    BY <1>1, <1>2, <1>3, <2>1 DEF KeyerInv, KeyerTypeOK
  <2>3. TextInv' /\ WaitInv'
    BY <1>1, <1>3, <2>1 DEF KeyerInv, TextInv, WaitInv
  <2>4. QED
    BY <2>2, <2>3
<1>5. KeyedAsTyped'
  <2> SUFFICES ASSUME ~late, ~crossed
               PROVE  typed' = keyed \o (IF queued > 0 THEN Tail(txt') ELSE txt')
    BY <1>1 DEF KeyedAsTyped
  <2>1. CASE queued > 0
    <3>1. typed = keyed \o Tail(txt) /\ txt # <<>>
      BY <2>1 DEF KeyerInv, KeyedAsTyped, WaitInv
    <3>2. Tail(txt) \in Seq(Chars) /\ Tail(txt') = Append(Tail(txt), c)
      BY <1>1, <1>2, <3>1, TypedBehindHead
    <3>3. Append(keyed \o Tail(txt), c) = keyed \o Append(Tail(txt), c)
      BY <1>2, <3>2, TypedAtEnd
    <3>4. QED
      BY <1>1, <2>1, <3>1, <3>2, <3>3
  <2>2. CASE ~(queued > 0)
    <3>1. typed = keyed \o txt
      BY <2>2 DEF KeyerInv, KeyedAsTyped
    <3>2. Append(keyed \o txt, c) = keyed \o Append(txt, c)
      BY <1>2, TypedAtEnd
    <3>3. QED
      BY <1>1, <2>2, <3>1, <3>2
  <2>3. QED
    BY <2>1, <2>2
<1>6. QED
  BY <1>4, <1>5 DEF KeyerInv

\* The text is cleared; what is being deleted may be lost with it.
LEMMA EraseKeeps ==
    ASSUME Chars \subseteq Keys, MaxTyped \in Nat, KeyerInv, Erase
    PROVE  KeyerInv'
<1>1. /\ txt' = <<>> /\ typed' = keyed /\ crossed' = (crossed \/ queued > 0)
      /\ UNCHANGED <<btn_send, visible, duration, queued, age, keyed, late>>
  BY DEF Erase
<1>2. /\ <<>> \in Seq(Chars) /\ Len(<<>>) = 0 /\ keyed \in Seq(Chars) /\ Len(keyed) \in Nat
      /\ keyed \o <<>> = keyed /\ queued \in Nat
  BY EmptySeq, ConcatEmptySeq DEF KeyerInv, KeyerTypeOK
<1>3. crossed' \in BOOLEAN
  BY <1>1
<1>4. KeyerTypeOK'
  <2>1. /\ txt' \in Seq(Chars) /\ typed' \in Seq(Chars) /\ keyed' \in Seq(Chars)
        /\ Len(txt') <= MaxTyped /\ Len(keyed') <= 2 * MaxTyped
    BY <1>1, <1>2 DEF KeyerInv, KeyerTypeOK
  <2>2. btn_send' \in BOOLEAN /\ visible' \in BOOLEAN /\ late' \in BOOLEAN /\ crossed' \in BOOLEAN
    BY Zenon, <1>1, <1>3 DEF KeyerInv, KeyerTypeOK
  <2>3. duration' = duration /\ age' = age /\ queued' = queued
    BY <1>1
  <2>4. QED
    BY Zenon, <2>1, <2>2, <2>3 DEF KeyerInv, KeyerTypeOK
<1>5. TextInv'
  BY <1>1, <1>2 DEF TextInv
<1>6. late' = late /\ queued' = queued /\ (~crossed' => ~(queued > 0))
  BY Zenon, <1>1
<1>7. WaitInv'
  <2>1. age' = age /\ duration' = duration
    BY <1>1
  <2>2. QED
    BY Zenon, <1>6, <2>1 DEF KeyerInv, WaitInv
<1>8. KeyedAsTyped'
  <2>1. typed' = keyed' \o txt'
    BY <1>1, <1>2
  <2>2. QED
    BY Zenon, <1>6, <2>1 DEF KeyedAsTyped
<1>9. QED
  BY <1>4, <1>5, <1>7, <1>8 DEF KeyerInv

\* delete_char takes a character that was keyed off the text.
LEMMA DeleteKeeps ==
    ASSUME Chars \subseteq Keys, MaxTyped \in Nat, KeyerInv, delete_char
    PROVE  KeyerInv'
<1>1. /\ queued > 0 /\ queued' = queued - 1 /\ age' = 0
      /\ txt' = IF txt = <<>> THEN txt ELSE Tail(txt)
      /\ UNCHANGED <<btn_send, visible, duration, keyed, typed, late, crossed>>
  BY DEF delete_char
<1>2. /\ txt \in Seq(Chars) /\ typed \in Seq(Chars) /\ Len(txt) \in Nat /\ Len(typed) \in Nat
      /\ queued \in Nat
  BY DEF KeyerInv, KeyerTypeOK
<1>3. txt' \in Seq(Chars) /\ Len(txt') <= Len(txt) /\ Len(txt') \in Nat
  BY <1>1, <1>2, HeadMoves
<1>4. KeyerTypeOK' /\ TextInv'
  BY <1>1, <1>2, <1>3 DEF KeyerInv, KeyerTypeOK, TextInv, Gap
<1>5. WaitInv'
  BY <1>1, <1>2 DEF KeyerInv, WaitInv, Gap
<1>6. KeyedAsTyped'
  <2> SUFFICES ASSUME ~late, ~crossed PROVE KeyedAsTyped'
    BY <1>1 DEF KeyedAsTyped
  <2>1. queued = 1 /\ txt # <<>> /\ typed = keyed \o Tail(txt)
    BY <1>1, <1>2 DEF KeyerInv, WaitInv, KeyedAsTyped
  <2>2. txt' = Tail(txt) /\ queued' = 0
    BY <1>1, <2>1
  <2>3. QED
    BY <1>1, <2>1, <2>2 DEF KeyedAsTyped
<1>7. QED
  BY <1>4, <1>5, <1>6 DEF KeyerInv

\* cw_thread_loop waits for the end of the character.
LEMMA TickKeeps ==
    ASSUME Chars \subseteq Keys, MaxTyped \in Nat, KeyerInv, Tick
    PROVE  KeyerInv'
<1>1. /\ duration > 0 /\ duration' = duration - 1
      /\ age' = IF queued > 0 /\ age < Gap THEN age + 1 ELSE age
      /\ late' = (late \/ age' = Gap)
      /\ UNCHANGED <<txt, btn_send, visible, queued, keyed, typed, crossed>>
  BY DEF Tick
<1>2. late' \in BOOLEAN
  BY <1>1
<1>3. duration \in 0..12 /\ age \in 0..3 /\ queued \in Nat
  BY DEF KeyerInv, KeyerTypeOK, Gap
<1>4. KeyerTypeOK' /\ TextInv'
  <2>1. duration' \in 0..12 /\ age' \in 0..3
    BY <1>1, <1>3 DEF Gap
  <2>2. btn_send' \in BOOLEAN /\ visible' \in BOOLEAN /\ late' \in BOOLEAN /\ crossed' \in BOOLEAN
    BY Zenon, <1>1, <1>2 DEF KeyerInv, KeyerTypeOK
  <2>3. UNCHANGED <<txt, typed, keyed, queued>> /\ 7 + Gap + 2 = 12 /\ Gap = 3
    BY <1>1 DEF Gap
  <2>4. KeyerTypeOK'
    BY Zenon, <2>1, <2>2, <2>3 DEF KeyerInv, KeyerTypeOK
  <2>5. QED
    BY Zenon, <2>3, <2>4 DEF KeyerInv, TextInv
<1>5. queued' = queued /\ txt' = txt /\ crossed' = crossed /\ (~late' => ~late /\ age' # Gap)
  BY Zenon, <1>1
<1>6. WaitInv'
  <2>1. queued = 0 => age' = 0
    BY <1>1, <1>3 DEF KeyerInv, WaitInv
  <2>2. ASSUME ~late, age' # Gap
        PROVE  queued <= 1 /\ (queued > 0 => age' < Gap /\ age' + duration' >= Gap)
    BY <1>1, <1>3, <2>2 DEF KeyerInv, WaitInv, Gap
  <2>3. QED
    BY Zenon, <1>5, <2>1, <2>2 DEF KeyerInv, WaitInv
<1>7. KeyedAsTyped'
  <2>1. typed' = typed /\ keyed' = keyed
    BY <1>1
  <2>2. QED
    BY Zenon, <1>5, <2>1 DEF KeyerInv, KeyedAsTyped
<1>8. QED
  BY <1>4, <1>6, <1>7 DEF KeyerInv

\* sendChar keys the first character of the text.
LEMMA SendHeadKeeps ==
    ASSUME Chars \subseteq Keys, MaxTyped \in Nat, KeyerInv, SendHead
    PROVE  KeyerInv'
<1>1. /\ duration = 0 /\ txt # <<>> /\ Len(keyed) < 2 * MaxTyped
      /\ keyed' = Append(keyed, Head(txt))
      /\ queued' = queued + 1
      /\ duration' = char_duration(Head(txt))
      /\ UNCHANGED <<txt, btn_send, visible, age, typed, late, crossed>>
  BY DEF SendHead, Sending
<1>2. txt \in Seq(Chars) /\ keyed \in Seq(Chars) /\ queued \in Nat /\ age \in 0..3
  BY DEF KeyerInv, KeyerTypeOK, Gap
<1>3. /\ keyed' \in Seq(Chars) /\ Head(txt) \in Chars
      /\ keyed \o txt = keyed' \o Tail(txt)
      /\ Len(keyed') = Len(keyed) + 1
  BY <1>1, <1>2, HeadMoves, AppendProperties
<1>4. Head(txt) \in Keys
  BY <1>3
<1>5. duration' \in 3..12
  BY <1>1, <1>4, CharDuration DEF Gap
<1>6. KeyerTypeOK' /\ TextInv'
  BY <1>1, <1>2, <1>3, <1>5 DEF KeyerInv, KeyerTypeOK, TextInv, Gap
<1>7. ~late => queued = 0 /\ age = 0
  BY <1>1, <1>2 DEF KeyerInv, WaitInv, Gap
<1>8. WaitInv'
  BY <1>1, <1>2, <1>5, <1>7 DEF WaitInv, Gap
<1>9. KeyedAsTyped'
  <2> SUFFICES ASSUME ~late, ~crossed PROVE KeyedAsTyped'
    BY <1>1 DEF KeyedAsTyped
  <2>1. typed = keyed \o txt /\ queued' = 1
    BY <1>1, <1>7 DEF KeyerInv, KeyedAsTyped
  <2>2. typed' = keyed' \o Tail(txt') /\ queued' > 0
    BY <1>1, <1>3, <2>1
  <2>3. QED
    BY <2>2 DEF KeyedAsTyped
<1>10. QED
  BY <1>6, <1>8, <1>9 DEF KeyerInv

\* Every step of the operator, the GUI thread and the CW thread keeps the invariant.
LEMMA KeyerStepKeeps ==
    ASSUME Chars \subseteq Keys, MaxTyped \in Nat, KeyerInv, [KeyerNext]_keyerVars
    PROVE  KeyerInv'
<1>1. CASE ToggleSend \/ OpenOrClose \/ Poll
  <2>1. /\ duration' = duration \/ (duration = 0 /\ duration' = Idle)
        /\ txt' = txt /\ queued' = queued /\ age' = age /\ keyed' = keyed /\ typed' = typed
        /\ late' = late /\ crossed' = crossed
    BY <1>1 DEF ToggleSend, OpenOrClose, Poll
  <2>2. KeyerTypeOK' /\ TextInv'
    <3>1. btn_send' \in BOOLEAN /\ visible' \in BOOLEAN /\ late' \in BOOLEAN /\ crossed' \in BOOLEAN
      BY Zenon, <1>1 DEF ToggleSend, OpenOrClose, Poll, KeyerInv, KeyerTypeOK
    <3>2. duration' \in 0..(7 + Gap + 2)
      BY <2>1 DEF KeyerInv, KeyerTypeOK, Gap, Idle
    <3>3. QED
      BY Zenon, <2>1, <3>1, <3>2 DEF KeyerInv, KeyerTypeOK, TextInv
  <2>3. WaitInv' /\ KeyedAsTyped'
    <3>1. ASSUME ~late, queued > 0
          PROVE  age + duration' >= Gap
      BY <2>1, <3>1 DEF KeyerInv, KeyerTypeOK, WaitInv, Gap, Idle
    <3>2. QED
      BY Zenon, <2>1, <3>1 DEF KeyerInv, WaitInv, KeyedAsTyped
  <2>4. QED
    BY <2>2, <2>3 DEF KeyerInv
<1>2. CASE UNCHANGED keyerVars
  BY <1>2 DEF keyerVars, KeyerInv, KeyerTypeOK, TextInv, WaitInv, KeyedAsTyped
<1>3. QED
  BY <1>1, <1>2, TypeKeeps, EraseKeeps, DeleteKeeps, TickKeeps, SendHeadKeeps DEF KeyerNext

\* cw_thread_loop: the inductive invariant of the text and the wait.
THEOREM KeyboardInvariance == KeyerSpec => []KeyerInv
<1>1. KeyerInit => KeyerInv
  BY KeyerAssumption, KeyerInitHolds
<1>2. KeyerInv /\ [KeyerNext]_keyerVars => KeyerInv'
  BY KeyerAssumption, KeyerStepKeeps
<1>3. QED
  BY <1>1, <1>2, PTL DEF KeyerSpec

\* cw_thread_loop: every character is keyed once and in the order typed, however long the
\* text and whatever its characters, unless a deletion is late or text is erased under it.
THEOREM CharactersKeyedAsTyped == KeyerSpec => []KeyedAsTyped
<1>1. KeyerInv => KeyedAsTyped
  BY DEF KeyerInv
<1>2. QED
  BY KeyboardInvariance, <1>1, PTL
=============================================================================
