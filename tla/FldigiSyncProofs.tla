-------------------------- MODULE FldigiSyncProofs --------------------------
(***************************************************************************)
(* The link to fldigi, for any frequencies, modes, widths and number of    *)
(* edits, and whatever is lost or restarted.                               *)
(*                                                                         *)
(*   FormInv   types, and where each thread is with what it has under way  *)
(*   PttInv    the transmit state is handed to the GUI in the order seen   *)
(*   CallInv   what the GUI thread has still to send is what it shows      *)
(*   TurnInv   the two copies of kcat's settings agree, unless what makes  *)
(*             them agree is under way: true while operators take turns    *)
(*                                                                         *)
(* The first two give what holds of the transmitter however the operators  *)
(* act; all four together that the programs agree at rest when every edit  *)
(* has waited for the one before it.                                       *)
(***************************************************************************)
EXTENDS FldigiSync, SequenceTheorems, TLAPS

\* The calls the GUI thread makes: one, or a bandwidth and then its mode.
WidthCalls == {New("iBW", w) : w \in Widths} \cup {Call("tell", Call("iBW", w)) : w \in Widths}
ModeCalls  == {New("imode", m) : m \in Modes} \cup {Call("tell", Call("imode", m)) : m \in Modes}
Pushes     == {Call("push", f) : f \in Freqs}
Stores     == {Call("setmode", m) : m \in Modes}
Copying    == Call("copy", FALSE)
Single     == WidthCalls \cup ModeCalls \cup Pushes \cup Stores \cup {Copying}

GuiCalls ==
    {<<>>} \cup {<<c>> : c \in Single} \cup {<<c, s>> : c \in WidthCalls, s \in Stores}

\* What the xmlrpc thread hands to Fl::awake.
Callbacks == {ValuesChanged, PttChanged(TRUE), PttChanged(FALSE)}

\* Where each thread is, and what that says of what it has under way.
ShapeInv ==
    /\ gui \in GuiCalls
    /\ gleft # {} <=> gui = <<Copying>>
    /\ xleft # {} <=> xpc = "copy"
    /\ status # <<>> <=> xpc = "check"
    /\ fldigi_online => xpc \in {"sleep", "queue", "poll", "check"}
    /\ ~fldigi_online => xpc \in {"sleep", "announce", "copy", "send", "sendfreq"}
    /\ ~fldigi_online /\ xpc = "sleep" => try_count > 0

FormInv == TypeOK /\ ShapeInv

-----------------------------------------------------------------------------
\* Lists of one call and of two.
LEMMA OneCall ==
    ASSUME NEW c, NEW x
    PROVE  /\ <<c>> # <<>> /\ Len(<<c>>) = 1 /\ <<c>>[1] = c
           /\ Head(<<c>>) = c /\ Tail(<<c>>) = <<>>
           /\ <<x>> \o <<>> = <<x>> /\ <<>> \o <<x>> = <<x>>
  OBVIOUS

\* A list of two calls is put together from two lists of one.
LEMMA TwoCalls ==
    ASSUME NEW c, NEW s, NEW x
    PROVE  /\ <<c, s>> # <<>> /\ <<c, s>> # <<x>> /\ Len(<<c, s>>) = 2
           /\ <<c, s>>[1] = c /\ <<c, s>>[2] = s
           /\ Head(<<c, s>>) = c /\ Tail(<<c, s>>) = <<s>>
           /\ <<x>> \o <<s>> = <<x, s>>
<1>1. <<x>> \o <<s>> = <<x, s>>
  <2>1. <<x>> \in Seq({x, s}) /\ <<s>> \in Seq({x, s}) /\ <<x, s>> \in Seq({x, s})
    OBVIOUS
  <2>2. /\ Len(<<x>>) = 1 /\ Len(<<s>>) = 1 /\ Len(<<x, s>>) = 2
        /\ <<x>>[1] = x /\ <<s>>[1] = s /\ <<x, s>>[1] = x /\ <<x, s>>[2] = s
    OBVIOUS
  <2> DEFINE t == <<x>> \o <<s>>
             p == <<x, s>>
  <2>3. t \in Seq({x, s}) /\ Len(t) = 2 /\ t[1] = x /\ t[2] = s
    BY <2>1, <2>2, ConcatProperties
  <2>4. p \in Seq({x, s}) /\ Len(p) = 2 /\ p[1] = x /\ p[2] = s
    BY <2>1, <2>2
  <2> HIDE DEF t, p
  <2>5. t = p
    BY <2>3, <2>4, SeqEqual
  <2> QED
    BY <2>5 DEF t, p
<1> QED
  BY <1>1

\* A setting that is stored is there, the others are as they were.
LEMMA PutSetting ==
    ASSUME NEW s \in Settings, NEW f \in Fields, NEW v,
           f = "freq" => v \in Freqs, f = "imode" => v \in Modes, f = "iBW" => v \in Widths
    PROVE  /\ [s EXCEPT ![f] = v] \in Settings
           /\ [s EXCEPT ![f] = v][f] = v
           /\ \A g \in Fields \ {f} : [s EXCEPT ![f] = v][g] = s[g]
BY DEF Settings, Fields

\* Settings that agree on every field are the same.
LEMMA SettingsEqual ==
    ASSUME NEW s \in Settings, NEW t \in Settings, \A g \in Fields : s[g] = t[g]
    PROVE  s = t
BY DEF Settings, Fields

\* What a check makes of reported settings: the frequency always, mode and bandwidth when
\* they differ from those kcat shows.
LEMMA HeardFields ==
    ASSUME vfoA \in Settings, xmlvfo \in Settings, NEW s \in Settings
    PROVE  /\ Heard(s) \in Settings
           /\ Heard(s).freq = s.freq
           /\ \A g \in {"imode", "iBW"} :
                Heard(s)[g] = IF s[g] # vfoA[g] THEN s[g] ELSE xmlvfo[g]
BY DEF Settings, Heard

\* What the GUI thread has next to do says what else it has to do.
LEMMA NextCall ==
    ASSUME gui \in GuiCalls, gui # <<>>
    PROVE  /\ Head(gui) = gui[1] /\ Tail(gui) \in {<<>>} \cup {<<s>> : s \in Stores}
           /\ Head(gui).op = "push" => \E f \in Freqs : gui = <<Call("push", f)>>
           /\ Head(gui).op = "copy" => gui = <<Copying>>
           /\ Head(gui).op = "setmode" => \E m \in Modes : gui = <<Call("setmode", m)>>
           /\ Head(gui).op \in {"new", "tell"} =>
                \/ \E w \in Widths : Head(gui) = Call(Head(gui).op, Call("iBW", w))
                \/ /\ \E m \in Modes : Head(gui) = Call(Head(gui).op, Call("imode", m))
                   /\ Tail(gui) = <<>>
<1>1. CASE \E c \in Single : gui = <<c>>
  <2>1. PICK c \in Single : gui = <<c>>
    BY <1>1
  <2>2. Head(gui) = c /\ gui[1] = c /\ Tail(gui) = <<>>
    BY <2>1, OneCall
  <2>3. CASE c \in WidthCalls
    BY <2>1, <2>2, <2>3 DEF WidthCalls, New, Call
  <2>4. CASE c \in ModeCalls
    BY <2>1, <2>2, <2>4 DEF ModeCalls, New, Call
  <2>5. CASE c \in Pushes \cup Stores \cup {Copying}
    BY <2>1, <2>2, <2>5 DEF Pushes, Stores, Copying, Call
  <2> QED
    BY <2>3, <2>4, <2>5 DEF Single
<1>2. CASE \E c \in WidthCalls, s \in Stores : gui = <<c, s>>
  <2>1. PICK c \in WidthCalls, s \in Stores : gui = <<c, s>>
    BY <1>2
  <2>2. Head(gui) = c /\ gui[1] = c /\ Tail(gui) = <<s>>
    BY <2>1, TwoCalls
  <2>3. \E w \in Widths : c = New("iBW", w) \/ c = Call("tell", Call("iBW", w))
    BY DEF WidthCalls
  <2> QED
    BY <2>2, <2>3 DEF New, Call
<1> QED
  BY <1>1, <1>2 DEF GuiCalls

\* The setting that the GUI thread is about to tell fldigi.
LEMMA NextSetting ==
    ASSUME gui \in GuiCalls, gui # <<>>, Head(gui).op \in {"new", "tell"}
    PROVE  \/ \E w \in Widths : Head(gui).val = Call("iBW", w)
           \/ (\E m \in Modes : Head(gui).val = Call("imode", m)) /\ Tail(gui) = <<>>
<1>1. CASE \E w \in Widths : Head(gui) = Call(Head(gui).op, Call("iBW", w))
  <2>1. PICK w \in Widths : Head(gui) = Call(Head(gui).op, Call("iBW", w))
    BY <1>1
  <2>2. Head(gui).val = Call("iBW", w)
    BY <2>1 DEF Call
  <2> QED
    BY <2>2
<1>2. CASE (\E m \in Modes : Head(gui) = Call(Head(gui).op, Call("imode", m))) /\ Tail(gui) = <<>>
  <2>1. PICK m \in Modes : Head(gui) = Call(Head(gui).op, Call("imode", m))
    BY <1>2
  <2>2. Head(gui).val = Call("imode", m)
    BY <2>1 DEF Call
  <2> QED
    BY <1>2, <2>2
<1> QED
  BY <1>1, <1>2, NextCall

\* Types of the flags, one by one.
Flags == /\ fldigi_online \in BOOLEAN /\ ptt_on \in BOOLEAN /\ tx \in BOOLEAN
         /\ trx \in BOOLEAN /\ up \in BOOLEAN /\ turns \in BOOLEAN

\* The clause of TypeOK on the flags says the same.
LEMMA FlagTypes == ({fldigi_online, ptt_on, tx, trx, up, turns} \subseteq BOOLEAN) <=> Flags
  BY DEF Flags

-----------------------------------------------------------------------------
(* Types and places.                                                       *)

\* kcat starts offline with nothing under way.
LEMMA InitForm == Init => FormInv
<1> SUFFICES ASSUME Init PROVE FormInv
  OBVIOUS
<1>1. ShapeInv
  <2>1. gui \in GuiCalls /\ gui # <<Copying>>
    BY OneCall DEF Init, GuiCalls
  <2>2. QED
    BY <2>1, CheckAssumption DEF Init, ShapeInv
<1>2. TypeOK
  <2>1. {fldigi_online, ptt_on, tx, trx, up, turns} \subseteq BOOLEAN
    BY DEF Init
  <2>2. Len(gui) = 0 /\ Len(awake) = 0 /\ qfreq \in Seq(Freqs)
    BY EmptySeq DEF Init
  <2>3. QED
    BY <2>1, <2>2, CheckAssumption DEF Init, TypeOK
<1> QED
  BY <1>1, <1>2 DEF FormInv

\* A call of the GUI thread has one of the five names.
LEMMA CallNames ==
    ASSUME gui \in GuiCalls
    PROVE  \A i \in 1..Len(gui) : gui[i].op \in {"push", "setmode", "new", "tell", "copy"}
<1>1. CASE gui = <<>>
  BY <1>1
<1>2. CASE \E c \in Single : gui = <<c>>
  <2>1. PICK c \in Single : gui = <<c>>
    BY <1>2
  <2>2. Len(gui) = 1 /\ gui[1] = c
    BY <2>1, OneCall
  <2>3. QED
    BY <2>2 DEF Single, WidthCalls, ModeCalls, Pushes, Stores, Copying, New, Call
<1>3. CASE \E c \in WidthCalls, s \in Stores : gui = <<c, s>>
  <2>1. PICK c \in WidthCalls, s \in Stores : gui = <<c, s>>
    BY <1>3
  <2>2. Len(gui) = 2 /\ gui[1] = c /\ gui[2] = s
    BY <2>1, TwoCalls
  <2>3. c.op \in {"new", "tell"} /\ s.op = "setmode"
    BY DEF WidthCalls, Stores, New, Call
  <2>4. QED
    BY <2>2, <2>3
<1> QED
  BY <1>1, <1>2, <1>3 DEF GuiCalls

\* The types without those of gui and of the flags.
DataTypes ==
    /\ vfoA \in Settings /\ xmlvfo \in Settings /\ fldigi \in Settings
    /\ status \in {<<>>} \cup {<<st>> : st \in Status} /\ qfreq \in Seq(Freqs)
    /\ try_count \in 0..CheckCount
    /\ xpc \in {"sleep", "queue", "poll", "check", "announce", "copy", "send", "sendfreq"}
    /\ xleft \subseteq Fields /\ gleft \subseteq Fields
    /\ awake \in Seq({ValuesChanged, PttChanged(TRUE), PttChanged(FALSE)})
    /\ keyedBy \in {"kcat", "fldigi"}

\* TypeOK in the form the steps are proved in.
LEMMA Types == FormInv <=> DataTypes /\ Flags /\ ShapeInv
BY CallNames, FlagTypes DEF FormInv, TypeOK, DataTypes, ShapeInv

\* A step of the GUI thread leaves what is left of a handler, and types and places.
LEMMA GuiForm == FormInv /\ GuiStep => FormInv'
<1> SUFFICES ASSUME DataTypes, Flags, ShapeInv, GuiStep
             PROVE  DataTypes' /\ Flags' /\ ShapeInv'
  BY Types, PTL
<1>1. gui \in GuiCalls /\ <<>> \in GuiCalls
  BY DEF ShapeInv, GuiCalls
<1>2. (Tail(gui) \in GuiCalls /\ Tail(gui) # <<Copying>>) \/ gui = <<>>
  <2>1. ASSUME NEW s \in Stores
        PROVE  <<s>> \in GuiCalls /\ <<s>> # <<Copying>>
    BY OneCall DEF GuiCalls, Single, Stores, Copying, Call
  <2>2. <<>> # <<Copying>>
    BY OneCall
  <2>3. QED
    BY <1>1, <2>1, <2>2, NextCall
<1>3. CASE Push
  <2>1. \E f \in Freqs : gui = <<Call("push", f)>>
    BY <1>1, <1>3, NextCall DEF Push
  <2>2. Head(gui).val \in Freqs /\ gui # <<Copying>>
    BY <2>1, OneCall DEF Call, Copying
  <2>3. qfreq' \in Seq(Freqs)
    BY <1>3, <2>2 DEF Push, DataTypes
  <2>4. DataTypes' /\ Flags'
    BY <1>3, <2>3 DEF Push, DataTypes, Flags, thread, peer
  <2>5. ShapeInv'
    BY <1>2, <1>3, <2>2 DEF Push, ShapeInv, thread
  <2> QED
    BY <2>4, <2>5
<1>4. CASE StoreMode
  <2>1. PICK m \in Modes : gui = <<Call("setmode", m)>>
    BY <1>1, <1>4, NextCall DEF StoreMode
  <2>2. Head(gui).val = m /\ gui # <<Copying>>
    BY <2>1, OneCall DEF Call, Copying
  <2>3. gui' = <<New("imode", m)>> /\ gui' \in GuiCalls /\ gui' # <<Copying>>
    <3>1. gui' = <<New("imode", m)>>
      BY <1>4, <2>2 DEF StoreMode
    <3>2. New("imode", m) \in Single /\ New("imode", m) # Copying
      BY DEF Single, ModeCalls, New, Copying, Call
    <3> QED
      BY <3>1, <3>2, OneCall DEF GuiCalls
  <2>4. vfoA' \in Settings
    <3>1. [vfoA EXCEPT !["imode"] = m] \in Settings
      BY PutSetting DEF DataTypes, Fields
    <3> QED
      BY <1>4, <2>2, <3>1 DEF StoreMode
  <2>5. DataTypes' /\ Flags'
    BY <1>4, <2>4 DEF StoreMode, DataTypes, Flags, thread, peer
  <2>6. ShapeInv'
    BY <1>4, <2>2, <2>3 DEF StoreMode, ShapeInv, thread
  <2> QED
    BY <2>5, <2>6
<1>5. CASE NewSetting
  <2>1. gui # <<Copying>>
    BY <1>5, OneCall DEF NewSetting, Copying, Call
  <2>2. gui' \in GuiCalls /\ gui' # <<Copying>>
    <3>1. CASE ~fldigi_online
      BY <1>2, <1>5, <3>1 DEF NewSetting
    <3>2. CASE fldigi_online
      <4> DEFINE c == Call("tell", Head(gui).val)
      <4>1. gui' = <<c>> \o Tail(gui) /\ c # Copying
        BY <1>5, <3>2 DEF NewSetting, Copying, Call
      <4>2. \/ c \in WidthCalls
            \/ c \in ModeCalls /\ Tail(gui) = <<>>
        BY <1>1, <1>5, NextSetting DEF NewSetting, WidthCalls, ModeCalls
      <4>3. Tail(gui) \in {<<>>} \cup {<<s>> : s \in Stores}
        BY <1>1, <1>5, NextCall DEF NewSetting
      <4> HIDE DEF c
      <4>4. CASE Tail(gui) = <<>>
        <5>1. gui' = <<c>> /\ c \in Single
          BY <4>1, <4>2, <4>4, OneCall DEF Single
        <5>2. gui' \in GuiCalls
          BY <5>1 DEF GuiCalls
        <5>3. gui' # <<Copying>>
          BY <4>1, <5>1, OneCall
        <5> QED
          BY <5>2, <5>3
      <4>5. CASE Tail(gui) # <<>>
        <5>1. PICK s \in Stores : Tail(gui) = <<s>>
          BY <4>3, <4>5
        <5>2. gui' = <<c, s>>
          BY <4>1, <5>1, TwoCalls
        <5> QED
          BY <4>2, <4>5, <5>2, TwoCalls DEF GuiCalls
      <4> QED
        BY <4>4, <4>5
    <3> QED
      BY <3>1, <3>2
  <2>3. DataTypes' /\ Flags'
    BY <1>5 DEF NewSetting, DataTypes, Flags, thread, peer
  <2>4. ShapeInv'
    BY <1>5, <2>1, <2>2 DEF NewSetting, ShapeInv, thread
  <2> QED
    BY <2>3, <2>4
<1>6. CASE TellFldigi
  <2>1. gui # <<Copying>>
    BY <1>6, OneCall DEF TellFldigi, Copying, Call
  <2>2. PICK g, v : /\ g \in {"iBW", "imode"} /\ Head(gui).val = Call(g, v)
                   /\ (g = "iBW" => v \in Widths) /\ (g = "imode" => v \in Modes)
    BY <1>1, <1>6, NextSetting DEF TellFldigi
  <2>3. Head(gui).val.op = g /\ Head(gui).val.val = v
    BY <2>2 DEF Call
  <2>4. /\ [xmlvfo EXCEPT ![g] = v] \in Settings
        /\ [fldigi EXCEPT ![g] = v] \in Settings
    BY <2>2, PutSetting DEF DataTypes, Fields
  <2>5. xmlvfo' \in Settings /\ fldigi' \in Settings /\ UNCHANGED <<trx, up>>
    BY <1>6, <2>3, <2>4 DEF TellFldigi, SetAtFldigi, DataTypes
  <2>6. DataTypes' /\ Flags'
    BY <1>6, <2>5 DEF TellFldigi, DataTypes, Flags, thread
  <2>7. ShapeInv'
    BY <1>2, <1>6, <2>1 DEF TellFldigi, ShapeInv, thread
  <2> QED
    BY <2>6, <2>7
<1>7. CASE RunAwake

  <2>1. awake' \in Seq(Callbacks) /\ Head(awake) \in Callbacks
    BY <1>7, HeadTailProperties DEF RunAwake, DataTypes, Callbacks
  <2> DEFINE Kept == /\ tx' \in BOOLEAN /\ keyedBy' \in {"kcat", "fldigi"}
                     /\ gleft' \in SUBSET Fields /\ gui' \in GuiCalls
                     /\ gleft' # {} <=> gui' = <<Copying>>
  <2>2. ASSUME Head(awake) = ValuesChanged, gui' = <<Copying>>, gleft' = Fields,
               UNCHANGED <<tx, keyedBy>>
        PROVE  Kept
    <3>1. gui' \in GuiCalls /\ gleft' # {}
      BY <2>2, OneCall DEF GuiCalls, Single, Fields
    <3>2. tx' \in BOOLEAN /\ keyedBy' \in {"kcat", "fldigi"}
      BY <2>2 DEF DataTypes, Flags
    <3> QED
      BY <2>2, <3>1, <3>2
  <2>3. ASSUME Head(awake).op = "ptt", tx' = Head(awake).val, keyedBy' = "fldigi",
               UNCHANGED <<gui, gleft>>
        PROVE  Kept
    <3>1. tx' \in BOOLEAN /\ keyedBy' \in {"kcat", "fldigi"}
      <4>1. Head(awake) \in {ValuesChanged, PttChanged(TRUE), PttChanged(FALSE)}
        BY <2>1 DEF Callbacks
      <4>2. ValuesChanged.op # "ptt" /\ PttChanged(TRUE).val = TRUE /\ PttChanged(FALSE).val = FALSE
        BY DEF ValuesChanged, PttChanged, Call
      <4> QED
        BY <2>3, <4>1, <4>2, Zenon
    <3> QED
      BY <1>1, <2>3, <3>1 DEF ShapeInv, DataTypes
  <2>4. Kept
    BY <1>7, <2>2, <2>3 DEF RunAwake, Copying
  <2>6. DataTypes' /\ Flags'
    BY <1>7, <2>1, <2>4 DEF RunAwake, DataTypes, Callbacks, Flags, thread, peer
  <2>5. ShapeInv'
    BY <1>7, <2>4 DEF RunAwake, ShapeInv, thread
  <2> QED
    BY <2>5, <2>6
<1>8. CASE \E f \in Fields : CopyFromXml(f)
  <2>1. PICK f \in Fields : CopyFromXml(f)
    BY <1>8
  <2>2. vfoA' \in Settings
    <3>1. /\ f = "freq" => xmlvfo[f] \in Freqs
          /\ f = "imode" => xmlvfo[f] \in Modes
          /\ f = "iBW" => xmlvfo[f] \in Widths
      BY DEF DataTypes, Settings
    <3> QED
      BY <2>1, <3>1, PutSetting DEF CopyFromXml, DataTypes
  <2>3. DataTypes' /\ Flags'
    BY <2>1, <2>2 DEF CopyFromXml, DataTypes, Flags, thread, peer
  <2>4. gui = <<Copying>> /\ <<>> # <<Copying>>
    BY <2>1, OneCall DEF CopyFromXml, ShapeInv
  <2>5. ShapeInv'
    BY <1>1, <2>1, <2>4 DEF CopyFromXml, ShapeInv, thread
  <2> QED
    BY <2>3, <2>5
<1> QED
  BY <1>3, <1>4, <1>5, <1>6, <1>7, <1>8 DEF GuiStep
\* Settings reported by fldigi that are still to be checked are settings.
LEMMA StatusTypes ==
    ASSUME DataTypes, xpc = "check", ShapeInv
    PROVE  Head(status).set \in Settings /\ Head(status).tx \in BOOLEAN
<1>1. PICK st \in Status : status = <<st>>
  BY DEF DataTypes, ShapeInv
<1>2. Head(status) = st
  BY <1>1, OneCall
<1> QED
  BY <1>2 DEF Status

\* What a check stores and hands over: at most one callback of each kind, the transmit state
\* first.
LEMMA CheckNotices ==
    ASSUME DataTypes, Flags, ShapeInv, Check
    PROVE  /\ ptt_on' = Head(status).tx /\ ptt_on' \in BOOLEAN
           /\ xmlvfo' = IF ptt_on' THEN xmlvfo ELSE Heard(Head(status).set)
           /\ xmlvfo' \in Settings
           /\ \E p, v \in Seq(Callbacks) :
                /\ p = IF ptt_on' # ptt_on THEN <<PttChanged(ptt_on')>> ELSE <<>>
                /\ v = IF xmlvfo' # xmlvfo THEN <<ValuesChanged>> ELSE <<>>
                /\ awake' = awake \o p \o v
<1>1. Head(status).set \in Settings /\ Head(status).tx \in BOOLEAN
  BY StatusTypes DEF Check
<1>2. ptt_on' = Head(status).tx /\ ptt_on' \in BOOLEAN
  BY <1>1, Zenon DEF Check
<1>3. xmlvfo' = IF ptt_on' THEN xmlvfo ELSE Heard(Head(status).set)
  BY Zenon DEF Check
<1>4. xmlvfo' \in Settings
  BY <1>1, <1>3, HeardFields DEF DataTypes
<1> DEFINE p == IF ptt_on' # ptt_on THEN <<PttChanged(ptt_on')>> ELSE <<>>
           v == IF xmlvfo' # xmlvfo THEN <<ValuesChanged>> ELSE <<>>
<1>5. PttChanged(ptt_on') \in Callbacks /\ ValuesChanged \in Callbacks
  BY <1>2, Zenon DEF Callbacks
<1>6. p \in Seq(Callbacks) /\ v \in Seq(Callbacks)
  BY <1>5, EmptySeq
<1>7. awake' = awake \o p \o v
  BY <1>3, Zenon DEF Check
<1> QED
  BY <1>2, <1>3, <1>4, <1>6, <1>7

\* The handler of a failed request starts the count again.
LEMMA OfflineTypes ==
    Offline => fldigi_online' \in BOOLEAN /\ try_count' \in 1..CheckCount /\ xpc' = "sleep"
<1>1. Offline => fldigi_online' \in BOOLEAN /\ try_count' = CheckCount /\ xpc' = "sleep"
  BY Zenon DEF Offline
<1>2. CheckCount \in 1..CheckCount
  BY CheckAssumption
<1> QED
  BY <1>1, <1>2, Zenon

\* A step of the xmlrpc thread keeps types and places.
LEMMA ThreadForm == FormInv /\ XmlRpcStep => FormInv'
<1> SUFFICES ASSUME DataTypes, Flags, ShapeInv, XmlRpcStep
             PROVE  DataTypes' /\ Flags' /\ ShapeInv'
  BY Types, PTL
<1>1. CASE WakeUp
  <2>1. try_count' \in 0..CheckCount
    BY <1>1, CheckAssumption DEF WakeUp, DataTypes, ShapeInv
  <2>2. DataTypes' /\ Flags'
    BY <1>1, <2>1 DEF WakeUp, DataTypes, Flags, kcat, peer
  <2>3. ShapeInv'
    BY <1>1, <2>1 DEF WakeUp, ShapeInv, kcat
  <2> QED
    BY <2>2, <2>3
<1>2. CASE SendQueued
  <2>1. Head(qfreq) \in Freqs /\ qfreq' \in Seq(Freqs)
    BY <1>2 DEF SendQueued, DataTypes
  <2>2. /\ [xmlvfo EXCEPT !["freq"] = Head(qfreq)] \in Settings
        /\ [fldigi EXCEPT !["freq"] = Head(qfreq)] \in Settings
    BY <2>1, PutSetting DEF DataTypes, Fields
  <2>3. xmlvfo' \in Settings /\ fldigi' \in Settings /\ UNCHANGED <<trx, up>>
    BY <1>2, <2>2 DEF SendQueued, SetAtFldigi, DataTypes
  <2>4. DataTypes' /\ Flags'
    BY <1>2, <2>1, <2>3 DEF SendQueued, DataTypes, Flags, kcat, thread
  <2>5. ShapeInv'
    BY <1>2 DEF SendQueued, ShapeInv, kcat, thread
  <2> QED
    BY <2>4, <2>5
<1>3. CASE QueueSent
  <2>1. DataTypes' /\ Flags'
    BY <1>3 DEF QueueSent, DataTypes, Flags, kcat, peer
  <2>2. ShapeInv'
    BY <1>3 DEF QueueSent, ShapeInv, kcat
  <2> QED
    BY <2>1, <2>2
<1>4. CASE Poll
  <2>1. /\ fldigi_online' \in BOOLEAN /\ try_count' \in 0..CheckCount
        /\ xpc' \in {"check", "sleep"}
    <3>1. CASE Offline
      BY <3>1, OfflineTypes
    <3>2. CASE xpc' = "check" /\ UNCHANGED <<fldigi_online, try_count>>
      BY <3>2 DEF DataTypes, Flags
    <3> QED
      BY <1>4, <3>1, <3>2 DEF Poll
  <2>2. status' \in {<<>>} \cup {<<st>> : st \in Status}
    <3>1. [set |-> fldigi, tx |-> trx] \in Status
      BY DEF DataTypes, Flags, Status
    <3> QED
      BY <1>4, <3>1 DEF Poll, DataTypes
  <2>3. DataTypes' /\ Flags'
    BY <1>4, <2>1, <2>2 DEF Poll, DataTypes, Flags, kcat, peer
  <2>4. ShapeInv'
    <3>1. CASE xpc' = "check"
      <4>1. status' = <<[set |-> fldigi, tx |-> trx]>> /\ fldigi_online' = fldigi_online
        BY <1>4, <3>1 DEF Poll, Offline
      <4>2. status' # <<>>
        BY <4>1, OneCall
      <4> QED
        BY <1>4, <3>1, <4>1, <4>2 DEF Poll, ShapeInv, kcat
    <3>2. CASE xpc' # "check"
      BY <1>4, <3>2, CheckAssumption DEF Poll, Offline, ShapeInv, kcat
    <3> QED
      BY <3>1, <3>2
  <2> QED
    BY <2>3, <2>4
<1>5. CASE Check
  <2>1. awake' \in Seq(Callbacks)
    <3>1. PICK p \in Seq(Callbacks), v \in Seq(Callbacks) : awake' = awake \o p \o v
      BY <1>5, CheckNotices
    <3>2. awake \in Seq(Callbacks)
      BY DEF DataTypes, Callbacks
    <3> QED
      BY <3>1, <3>2, ConcatProperties
  <2>2. ptt_on' \in BOOLEAN /\ xmlvfo' \in Settings
    BY <1>5, CheckNotices
  <2>3. DataTypes' /\ Flags'
    BY <1>5, <2>1, <2>2 DEF Check, DataTypes, Callbacks, Flags, kcat, peer
  <2>4. ShapeInv'
    BY <1>5 DEF Check, ShapeInv, kcat
  <2> QED
    BY <2>3, <2>4
<1>6. CASE Announce
  <2>1. /\ fldigi_online' \in BOOLEAN /\ try_count' \in 0..CheckCount
        /\ xpc' \in {"copy", "sleep"} /\ xleft' \in SUBSET Fields
    <3>1. xleft' \in SUBSET Fields
      BY <1>6 DEF Announce, DataTypes
    <3>2. CASE Offline
      BY <3>1, <3>2, OfflineTypes
    <3>3. CASE xpc' = "copy" /\ UNCHANGED <<fldigi_online, try_count>>
      BY <3>1, <3>3 DEF DataTypes, Flags
    <3> QED
      BY <1>6, <3>2, <3>3 DEF Announce
  <2>2. turns' \in BOOLEAN
    BY <1>6 DEF Announce, Flags
  <2>3. DataTypes' /\ Flags'
    BY <1>6, <2>1, <2>2 DEF Announce, DataTypes, Flags, kcat, peer
  <2>4. ShapeInv'
    BY <1>6, CheckAssumption DEF Announce, Offline, ShapeInv, kcat, Fields
  <2> QED
    BY <2>3, <2>4
<1>7. CASE SendSettings
  <2>1. DataTypes' /\ Flags'
    BY <1>7 DEF SendSettings, DataTypes, Flags, kcat, peer
  <2>2. ShapeInv'
    BY <1>7 DEF SendSettings, ShapeInv, kcat
  <2> QED
    BY <2>1, <2>2
<1>8. CASE GoOnline
  <2>1. [fldigi EXCEPT !["freq"] = xmlvfo.freq] \in Settings
    <3>1. xmlvfo.freq \in Freqs
      BY DEF DataTypes, Settings
    <3> QED
      BY <3>1, PutSetting DEF DataTypes, Fields
  <2>2. fldigi' \in Settings /\ UNCHANGED <<trx, up>>
    BY <1>8, <2>1 DEF GoOnline, SetAtFldigi, DataTypes
  <2>3. DataTypes' /\ Flags'
    BY <1>8, <2>2 DEF GoOnline, DataTypes, Flags, kcat
  <2>4. ShapeInv'
    BY <1>8 DEF GoOnline, ShapeInv, kcat
  <2> QED
    BY <2>3, <2>4
<1>9. CASE \E f \in Fields : CopyToXml(f)
  <2>1. PICK f \in Fields : CopyToXml(f)
    BY <1>9
  <2>2. xmlvfo' \in Settings
    <3>1. /\ f = "freq" => vfoA[f] \in Freqs
          /\ f = "imode" => vfoA[f] \in Modes
          /\ f = "iBW" => vfoA[f] \in Widths
      BY DEF DataTypes, Settings
    <3> QED
      BY <2>1, <3>1, PutSetting DEF CopyToXml, DataTypes
  <2>3. DataTypes' /\ Flags'
    BY <2>1, <2>2 DEF CopyToXml, DataTypes, Flags, kcat, peer
  <2>4. ShapeInv'
    BY <2>1 DEF CopyToXml, ShapeInv, kcat
  <2> QED
    BY <2>3, <2>4
<1> QED
  BY <1>1, <1>2, <1>3, <1>4, <1>5, <1>6, <1>7, <1>8, <1>9 DEF XmlRpcStep

\* So does an edit at kcat, which starts when the GUI thread has nothing left to call.
LEMMA OperatorForm == FormInv /\ OperatorStep => FormInv'
<1> SUFFICES ASSUME DataTypes, Flags, ShapeInv, OperatorStep
             PROVE  DataTypes' /\ Flags' /\ ShapeInv'
  BY Types, PTL
<1>1. CASE \E f \in Freqs : Tune(f)
  <2>1. PICK f \in Freqs : Tune(f)
    BY <1>1
  <2>2. [vfoA EXCEPT !["freq"] = f] \in Settings
    BY PutSetting DEF DataTypes, Fields
  <2>3. gui' = <<Call("push", f)>> /\ gui' \in GuiCalls /\ gui' # <<Copying>>
    BY <2>1, OneCall DEF Tune, GuiCalls, Single, Pushes, Copying, Call
  <2>4. gui # <<Copying>>
    BY <2>1, OneCall DEF Tune
  <2>5. turns' \in BOOLEAN
    BY <2>1, Zenon DEF Tune, SettingEdit, Flags
  <2>6. DataTypes' /\ Flags'
    BY <2>1, <2>2, <2>5 DEF Tune, DataTypes, Flags, thread, peer
  <2>7. ShapeInv'
    BY <2>1, <2>3, <2>4 DEF Tune, ShapeInv, thread
  <2> QED
    BY <2>6, <2>7
<1>2. CASE \E w \in Widths : SelectBW(w)
  <2>1. PICK w \in Widths : SelectBW(w)
    BY <1>2
  <2>2. [vfoA EXCEPT !["iBW"] = w] \in Settings
    BY PutSetting DEF DataTypes, Fields
  <2>3. gui' = <<New("iBW", w)>> /\ gui' \in GuiCalls /\ gui' # <<Copying>>
    BY <2>1, OneCall DEF SelectBW, GuiCalls, Single, WidthCalls, Copying, New, Call
  <2>4. gui # <<Copying>>
    BY <2>1, OneCall DEF SelectBW
  <2>5. turns' \in BOOLEAN
    BY <2>1, Zenon DEF SelectBW, SettingEdit, Flags
  <2>6. DataTypes' /\ Flags'
    BY <2>1, <2>2, <2>5 DEF SelectBW, DataTypes, Flags, thread, peer
  <2>7. ShapeInv'
    BY <2>1, <2>3, <2>4 DEF SelectBW, ShapeInv, thread
  <2> QED
    BY <2>6, <2>7
<1>3. CASE \E m \in Modes : SelectMode(m)
  <2>1. PICK m \in Modes : SelectMode(m)
    BY <1>3
  <2> DEFINE w == IF m = vfoA.imode THEN vfoA.iBW ELSE DefaultBW(m)
  <2>2. w \in Widths /\ [vfoA EXCEPT !["iBW"] = w] \in Settings
    BY <2>1, PutSetting DEF SelectMode, DataTypes, Fields
  <2>3. gui' \in GuiCalls /\ gui' # <<Copying>>
    <3> HIDE DEF w
    <3>1. New("iBW", w) \in WidthCalls /\ Call("setmode", m) \in Stores /\ New("iBW", w) # Copying
      BY <2>2 DEF WidthCalls, Stores, New, Copying, Call
    <3>2. gui' = <<New("iBW", w)>> \/ gui' = <<New("iBW", w), Call("setmode", m)>>
      BY <2>1, OneCall, TwoCalls DEF SelectMode, w
    <3> QED
      BY <3>1, <3>2, OneCall, TwoCalls DEF GuiCalls, Single
  <2>4. gui # <<Copying>>
    BY <2>1, OneCall DEF SelectMode
  <2>5. turns' \in BOOLEAN
    BY <2>1, Zenon DEF SelectMode, SettingEdit, Flags
  <2>6. DataTypes' /\ Flags'
    BY <2>1, <2>2, <2>5 DEF SelectMode, DataTypes, Flags, thread, peer
  <2>7. ShapeInv'
    BY <2>1, <2>3, <2>4 DEF SelectMode, ShapeInv, thread
  <2> QED
    BY <2>6, <2>7
<1>4. CASE PressPTT
  <2>1. tx' \in BOOLEAN
    BY <1>4, Zenon DEF PressPTT, Flags
  <2>2. DataTypes' /\ Flags'
    BY <1>4, <2>1 DEF PressPTT, DataTypes, Flags, thread, peer
  <2>3. ShapeInv'
    BY <1>4 DEF PressPTT, ShapeInv, thread
  <2> QED
    BY <2>2, <2>3
<1> QED
  BY <1>1, <1>2, <1>3, <1>4 DEF OperatorStep

\* So does a step of fldigi or its operator.
LEMMA FldigiForm == FormInv /\ FldigiStep => FormInv'
<1> SUFFICES ASSUME DataTypes, Flags, ShapeInv, FldigiStep
             PROVE  DataTypes' /\ Flags' /\ ShapeInv'
  BY Types, PTL
<1>1. ASSUME NEW f \in Fields, NEW v, FldigiSet(f, v),
             f = "freq" => v \in Freqs, f = "imode" => v \in Modes, f = "iBW" => v \in Widths
      PROVE  DataTypes' /\ Flags' /\ ShapeInv'
  <2>1. [fldigi EXCEPT ![f] = v] \in Settings
    BY <1>1, PutSetting DEF DataTypes
  <2>2. turns' \in BOOLEAN
    BY <1>1, Zenon DEF FldigiSet, SettingEdit, Flags
  <2>3. DataTypes' /\ Flags'
    BY <1>1, <2>1, <2>2 DEF FldigiSet, DataTypes, Flags, kcat, thread
  <2>4. ShapeInv'
    BY <1>1 DEF FldigiSet, ShapeInv, kcat, thread
  <2> QED
    BY <2>3, <2>4
<1>2. CASE FldigiTR \/ FldigiStops \/ FldigiStarts
  <2>1. trx' \in BOOLEAN /\ up' \in BOOLEAN /\ turns' \in BOOLEAN /\ fldigi' \in Settings
    <3>1. CASE FldigiTR
      <4>1. trx' = ~trx /\ UNCHANGED <<up, turns, fldigi>>
        BY <3>1, Zenon DEF FldigiTR
      <4> QED
        BY <4>1, Zenon DEF Flags, DataTypes
    <3>2. CASE FldigiStops
      BY <3>2 DEF FldigiStops, Flags, DataTypes
    <3>3. CASE FldigiStarts
      <4>1. up' = TRUE /\ trx' = FALSE /\ turns' \in BOOLEAN /\ fldigi' \in Settings
        BY <3>3, Zenon DEF FldigiStarts, Flags
      <4> QED
        BY <4>1
    <3> QED
      BY <1>2, <3>1, <3>2, <3>3
  <2>2. UNCHANGED <<kcat, thread, xmlvfo, qfreq, awake>>
    BY <1>2 DEF FldigiTR, FldigiStops, FldigiStarts
  <2>3. DataTypes' /\ Flags'
    BY <2>1, <2>2 DEF DataTypes, Flags, kcat, thread
  <2>4. ShapeInv'
    BY <2>2 DEF ShapeInv, kcat, thread
  <2> QED
    BY <2>3, <2>4
<1>3. "freq" \in Fields /\ "imode" \in Fields /\ "iBW" \in Fields
  BY DEF Fields
<1> QED
  BY <1>1, <1>2, <1>3 DEF FldigiStep

-----------------------------------------------------------------------------
(* The transmitter.                                                        *)

\* A transmitter that fldigi has keyed.
Keyed  == tx /\ keyedBy = "fldigi"

\* Positions in the list of waiting callbacks.
Places == 1..Len(awake)

\* The last change of the transmit state that waits is the one last seen; without one it has
\* been run.  Settings that wait, and those that are being copied, find the transmitter
\* unkeyed, whatever is run before them.
PttInv ==
    /\ \A i \in Places :
         awake[i] # ValuesChanged /\ (\A j \in Places : j > i => awake[j] = ValuesChanged)
           => awake[i] = PttChanged(ptt_on)
    /\ keyedBy = "fldigi" /\ (\A i \in Places : awake[i] = ValuesChanged) => tx = ptt_on
    /\ gleft # {} => ~Keyed
    /\ \A i \in Places : awake[i] = ValuesChanged =>
         /\ (\A j \in Places : j < i => awake[j] = ValuesChanged) => ~Keyed
         /\ \A j \in Places :
              /\ j < i /\ awake[j] # ValuesChanged
              /\ \A k \in Places : j < k /\ k < i => awake[k] = ValuesChanged
              => awake[j] = PttChanged(FALSE)

\* The three callbacks can be told apart.
LEMMA CallbacksDiffer ==
    /\ ValuesChanged # PttChanged(TRUE) /\ ValuesChanged # PttChanged(FALSE)
    /\ PttChanged(TRUE) # PttChanged(FALSE) /\ ValuesChanged.op # "ptt"
    /\ PttChanged(TRUE).val = TRUE /\ PttChanged(FALSE).val = FALSE
BY DEF ValuesChanged, PttChanged, Call

\* The list of callbacks after a check.
LEMMA NoticesQueued ==
    ASSUME DataTypes, Flags, ShapeInv, Check
    PROVE  \E a, b \in {0, 1} :
             /\ Len(awake') = Len(awake) + a + b
             /\ \A i \in Places : awake'[i] = awake[i]
             /\ a = 1 => awake'[Len(awake) + 1] = PttChanged(ptt_on')
             /\ a = 0 => ptt_on' = ptt_on
             /\ b = 1 => /\ awake'[Len(awake) + a + 1] = ValuesChanged
                         /\ ptt_on' = FALSE /\ xmlvfo' # xmlvfo
             /\ b = 0 => xmlvfo' = xmlvfo
<1>1. PICK p \in Seq(Callbacks), v \in Seq(Callbacks) :
        /\ p = IF ptt_on' # ptt_on THEN <<PttChanged(ptt_on')>> ELSE <<>>
        /\ v = IF xmlvfo' # xmlvfo THEN <<ValuesChanged>> ELSE <<>>
        /\ awake' = awake \o p \o v
  BY CheckNotices
<1>2. awake \in Seq(Callbacks) /\ Len(awake) \in Nat
  BY DEF DataTypes, Callbacks
<1>3. \/ Len(p) = 0 /\ ptt_on' = ptt_on
      \/ Len(p) = 1 /\ p[1] = PttChanged(ptt_on')
  <2>1. CASE ptt_on' = ptt_on
    <3>1. p = <<>>
      BY <1>1, <2>1, Zenon
    <3>2. Len(p) = 0
      BY <3>1
    <3> QED
      BY <2>1, <3>1, <3>2, Zenon
  <2>2. CASE ptt_on' # ptt_on
    <3>1. p = <<PttChanged(ptt_on')>>
      BY <1>1, <2>2, Zenon
    <3> QED
      BY <3>1, OneCall
  <2> QED
    BY <2>1, <2>2
<1>4. \/ Len(v) = 0 /\ xmlvfo' = xmlvfo
      \/ Len(v) = 1 /\ v[1] = ValuesChanged /\ ptt_on' = FALSE /\ xmlvfo' # xmlvfo
  <2>1. CASE xmlvfo' = xmlvfo
    BY <1>1, <2>1
  <2>2. CASE xmlvfo' # xmlvfo
    <3>1. v = <<ValuesChanged>>
      BY <1>1, <2>2
    <3>2. ptt_on' = FALSE
      BY <2>2, CheckNotices, Zenon
    <3> QED
      BY <2>2, <3>1, <3>2, OneCall
  <2> QED
    BY <2>1, <2>2
<1>5. /\ Len(awake') = Len(awake) + Len(p) + Len(v)
      /\ \A i \in 1..Len(awake) : awake'[i] = awake[i]
      /\ \A i \in 1..Len(p) : awake'[Len(awake) + i] = p[i]
      /\ \A i \in 1..Len(v) : awake'[Len(awake) + Len(p) + i] = v[i]
  <2> DEFINE s == awake \o p
  <2>1. /\ s \in Seq(Callbacks) /\ Len(s) = Len(awake) + Len(p)
        /\ \A i \in 1..Len(s) : s[i] = IF i <= Len(awake) THEN awake[i] ELSE p[i - Len(awake)]
    BY <1>2, ConcatProperties
  <2>2. Len(p) \in Nat /\ Len(v) \in Nat
    OBVIOUS
  <2> HIDE DEF s
  <2>3. /\ Len(s \o v) = Len(s) + Len(v)
        /\ \A i \in 1..(Len(s) + Len(v)) :
             (s \o v)[i] = IF i <= Len(s) THEN s[i] ELSE v[i - Len(s)]
    <3>1. s \in Seq(Callbacks) /\ v \in Seq(Callbacks)
      BY <2>1
    <3> QED
      BY <3>1, ConcatProperties
  <2>4. awake' = s \o v
    BY <1>1 DEF s
  <2>5. Len(awake') = Len(awake) + Len(p) + Len(v)
    BY <2>1, <2>3, <2>4
  <2>6. \A i \in 1..(Len(awake) + Len(p)) : awake'[i] = s[i]
    BY <1>2, <2>1, <2>2, <2>3, <2>4
  <2>7. \A i \in 1..Len(awake) : awake'[i] = awake[i]
    BY <1>2, <2>1, <2>2, <2>6
  <2>8. \A i \in 1..Len(p) : awake'[Len(awake) + i] = p[i]
    BY <1>2, <2>1, <2>2, <2>6
  <2>9. \A i \in 1..Len(v) : awake'[Len(awake) + Len(p) + i] = v[i]
    BY <1>2, <2>1, <2>2, <2>3, <2>4
  <2> QED
    BY <2>5, <2>7, <2>8, <2>9
<1>6. 1 \in 1..1 /\ 0 \in {0, 1} /\ 1 \in {0, 1}
  OBVIOUS
<1> DEFINE a == Len(p)
           b == Len(v)
<1>7. /\ a \in {0, 1} /\ b \in {0, 1} /\ Len(awake') = Len(awake) + a + b
      /\ a = 1 => awake'[Len(awake) + 1] = PttChanged(ptt_on')
      /\ b = 1 => awake'[Len(awake) + a + 1] = ValuesChanged /\ ptt_on' = FALSE
                  /\ xmlvfo' # xmlvfo
      /\ b = 0 => xmlvfo' = xmlvfo
  BY <1>3, <1>4, <1>5, <1>6
<1>8. a = 0 => ptt_on' = ptt_on
  BY <1>3
<1> HIDE DEF a, b
<1> QED
  BY <1>5, <1>7, <1>8 DEF Places

\* A check queues a change of the transmit state behind those before it and, when it finds
\* settings, does so while fldigi receives.
LEMMA CheckPtt ==
    ASSUME DataTypes, Flags, ShapeInv, PttInv, Check
    PROVE  PttInv'
<1>1. PICK a \in {0, 1}, b \in {0, 1} :
         /\ Len(awake') = Len(awake) + a + b
         /\ \A i \in Places : awake'[i] = awake[i]
         /\ a = 1 => awake'[Len(awake) + 1] = PttChanged(ptt_on')
         /\ a = 0 => ptt_on' = ptt_on
         /\ b = 1 => awake'[Len(awake) + a + 1] = ValuesChanged /\ ptt_on' = FALSE
  BY NoticesQueued
<1>2. UNCHANGED <<tx, keyedBy, gleft>> /\ (Keyed' <=> Keyed)
  BY DEF Check, kcat, Keyed
<1>3. Len(awake) \in Nat /\ ptt_on' \in BOOLEAN
  BY CheckNotices DEF DataTypes
<1> DEFINE n == Len(awake)
<1>4. PttChanged(ptt_on') # ValuesChanged
  BY <1>3, CallbacksDiffer, Zenon
<1>5. ptt_on' = FALSE => PttChanged(ptt_on') = PttChanged(FALSE)
  BY Zenon
<1>6. ASSUME NEW i \in Places', awake'[i] # ValuesChanged,
             \A j \in Places' : j > i => awake'[j] = ValuesChanged
      PROVE  awake'[i] = PttChanged(ptt_on')
  <2>1. CASE a = 1
    <3>1. n + 1 \in Places' /\ awake'[n + 1] # ValuesChanged
      BY <1>1, <1>3, <1>4, <2>1 DEF Places
    <3>2. i >= n + 1
      BY <1>3, <1>6, <3>1 DEF Places
    <3>3. i = n + 1
      BY <1>1, <1>3, <1>6, <2>1, <3>2 DEF Places
    <3> QED
      BY <1>1, <2>1, <3>3
  <2>2. CASE a = 0
    <3>1. i \in Places
      BY <1>1, <1>3, <1>6, <2>2 DEF Places
    <3>2. \A j \in Places : j > i => awake[j] = ValuesChanged
      BY <1>1, <1>3, <1>6 DEF Places
    <3>3. awake[i] # ValuesChanged
      BY <1>1, <1>6, <3>1
    <3>4. awake[i] = PttChanged(ptt_on)
      BY <3>1, <3>2, <3>3 DEF PttInv
    <3> QED
      BY <1>1, <2>2, <3>1, <3>4, Zenon
  <2> QED
    BY <2>1, <2>2
<1>7. ASSUME keyedBy' = "fldigi", \A i \in Places' : awake'[i] = ValuesChanged
      PROVE  tx' = ptt_on' /\ a = 0 /\ \A i \in Places : awake[i] = ValuesChanged
  <2>1. a = 0
    <3>1. a = 1 => n + 1 \in Places'
      BY <1>1, <1>3 DEF Places
    <3> QED
      BY <1>1, <1>4, <1>7, <3>1
  <2>2. \A i \in Places : awake[i] = ValuesChanged
    BY <1>1, <1>3, <1>7 DEF Places
  <2>3. tx = ptt_on
    BY <1>2, <1>7, <2>2 DEF PttInv
  <2> QED
    BY <1>1, <1>2, <2>1, <2>2, <2>3, Zenon
<1>8. ASSUME NEW i \in Places', awake'[i] = ValuesChanged
      PROVE  /\ (\A j \in Places' : j < i => awake'[j] = ValuesChanged) => ~Keyed'
             /\ \A j \in Places' :
                  /\ j < i /\ awake'[j] # ValuesChanged
                  /\ \A k \in Places' : j < k /\ k < i => awake'[k] = ValuesChanged
                  => awake'[j] = PttChanged(FALSE)
  <2>1. CASE i \in Places
    <3>1. /\ awake[i] = ValuesChanged /\ Places \subseteq Places'
          /\ \A j \in Places' : j < i => j \in Places /\ awake'[j] = awake[j]
      BY <1>1, <1>3, <1>8, <2>1 DEF Places
    <3>2. ASSUME \A j \in Places' : j < i => awake'[j] = ValuesChanged
          PROVE  ~Keyed'
      <4>1. \A j \in Places : j < i => awake[j] = ValuesChanged
        BY <3>1, <3>2
      <4> QED
        BY <1>2, <2>1, <3>1, <4>1 DEF PttInv
    <3>3. ASSUME NEW j \in Places', j < i, awake'[j] # ValuesChanged,
                 \A k \in Places' : j < k /\ k < i => awake'[k] = ValuesChanged
          PROVE  awake'[j] = PttChanged(FALSE)
      <4>1. j \in Places /\ awake[j] # ValuesChanged
        BY <3>1, <3>3
      <4>2. \A k \in Places : j < k /\ k < i => awake[k] = ValuesChanged
        BY <3>1, <3>3
      <4>3. awake[j] = PttChanged(FALSE)
        BY <2>1, <3>1, <3>3, <4>1, <4>2 DEF PttInv
      <4> QED
        BY <3>1, <3>3, <4>3
    <3> QED
      BY <3>2, <3>3
  <2>2. CASE i \notin Places
    <3>1. /\ i = n + a + 1 /\ b = 1 /\ ptt_on' = FALSE
          /\ a = 1 => n + 1 \in Places' /\ n + 1 < i /\ awake'[n + 1] = PttChanged(FALSE)
      <4>1. i \in (n + 1)..(n + a + b) /\ n \in Nat
        BY <1>1, <1>3, <1>8, <2>2 DEF Places
      <4>2. a = 1 => n + 1 \in Places' /\ awake'[n + 1] # ValuesChanged
        BY <1>1, <1>3, <1>4 DEF Places
      <4>3. b = 1
        BY <1>8, <4>1, <4>2
      <4>4. i = n + a + 1
        BY <1>8, <4>1, <4>2, <4>3
      <4>5. ptt_on' = FALSE
        BY <1>1, <4>3
      <4>6. a = 1 => awake'[n + 1] = PttChanged(FALSE)
        BY <1>1, <1>5, <4>5, Zenon
      <4> QED
        <5>1. a = 1 => n + 1 < i
          BY <4>1, <4>4
        <5> QED
          BY <4>2, <4>3, <4>4, <4>5, <4>6, <5>1, Zenon
    <3>2. CASE a = 1
      <4>1. ~ (\A j \in Places' : j < i => awake'[j] = ValuesChanged)
        BY <3>1, <3>2, CallbacksDiffer
      <4>2. ASSUME NEW j \in Places', j < i,
                   \A k \in Places' : j < k /\ k < i => awake'[k] = ValuesChanged
            PROVE  awake'[j] = PttChanged(FALSE)
        <5>1. ~(j < n + 1)
          BY <3>1, <3>2, <4>2, CallbacksDiffer
        <5>2. j = n + 1
          BY <1>3, <3>1, <3>2, <4>2, <5>1 DEF Places
        <5> QED
          BY <3>1, <3>2, <5>2
      <4> QED
        BY <4>1, <4>2
    <3>3. CASE a = 0
      <4>1. i = n + 1 /\ Places \subseteq Places'
        BY <1>1, <1>3, <3>1, <3>3 DEF Places
      <4>2. ptt_on = FALSE
        BY <1>1, <3>1, <3>3, Zenon
      <4>3. ASSUME \A j \in Places' : j < i => awake'[j] = ValuesChanged
            PROVE  ~Keyed'
        <5>1. \A j \in Places : awake[j] = ValuesChanged
          BY <1>1, <1>3, <4>1, <4>3 DEF Places
        <5>2. keyedBy = "fldigi" => tx = FALSE
          BY <4>2, <5>1, Zenon DEF PttInv
        <5> QED
          BY <1>2, <5>2, Zenon DEF Keyed
      <4>4. ASSUME NEW j \in Places', j < i, awake'[j] # ValuesChanged,
                   \A k \in Places' : j < k /\ k < i => awake'[k] = ValuesChanged
            PROVE  awake'[j] = PttChanged(FALSE)
        <5>1. j \in Places /\ awake[j] # ValuesChanged
          BY <1>1, <1>3, <4>1, <4>4 DEF Places
        <5>2. \A k \in Places : k > j => awake[k] = ValuesChanged
          BY <1>1, <1>3, <4>1, <4>4 DEF Places
        <5>3. awake[j] = PttChanged(ptt_on)
          BY <5>1, <5>2 DEF PttInv
        <5> QED
          BY <1>1, <4>2, <5>1, <5>3, Zenon
      <4> QED
        BY <4>3, <4>4
    <3> QED
      BY <3>2, <3>3
  <2> QED
    BY <2>1, <2>2
<1>9. gleft' # {} => ~Keyed'
  BY <1>2 DEF PttInv
<1> QED
  BY <1>6, <1>7, <1>8, <1>9, Zenon DEF PttInv

\* The callback that is run is the oldest; what it leaves is still in order.
LEMMA RunAwakePtt ==
    ASSUME DataTypes, Flags, ShapeInv, PttInv, RunAwake
    PROVE  PttInv'
<1>1. /\ Len(awake) \in Nat \ {0} /\ Len(awake') = Len(awake) - 1
      /\ \A i \in 1..Len(awake') : awake'[i] = awake[i + 1]
      /\ Head(awake) = awake[1] /\ awake[1] \in Callbacks
  <2>1. awake \in Seq(Callbacks) /\ awake # <<>> /\ awake' = Tail(awake)
    BY DEF RunAwake, DataTypes, Callbacks
  <2>2. Len(awake) \in Nat \ {0} /\ Head(awake) = awake[1]
    BY <2>1
  <2>3. /\ Head(awake) \in Callbacks /\ Len(awake') = Len(awake) - 1
        /\ \A i \in 1..Len(awake') : awake'[i] = awake[i + 1]
    BY <2>1, HeadTailProperties
  <2> QED
    BY <2>2, <2>3
<1>2. /\ 1 \in Places
      /\ \A i \in Places' : i + 1 \in Places /\ i + 1 > 1 /\ awake'[i] = awake[i + 1]
      /\ \A i \in Places : i = 1 \/ (i - 1 \in Places' /\ (i - 1) + 1 = i)
  BY <1>1 DEF Places
<1>3. ptt_on' = ptt_on /\ gleft = {}
  BY OneCall DEF RunAwake, thread, ShapeInv
<1>4. ASSUME NEW i \in Places', awake'[i] # ValuesChanged,
             \A j \in Places' : j > i => awake'[j] = ValuesChanged
      PROVE  awake'[i] = PttChanged(ptt_on')
  <2>1. ASSUME NEW j \in Places, j > i + 1
        PROVE  awake[j] = ValuesChanged
    <3>1. j - 1 \in Places' /\ j - 1 > i /\ awake'[j - 1] = awake[j]
      BY <1>1, <2>1 DEF Places
    <3> QED
      BY <1>4, <3>1
  <2>2. awake[i + 1] = PttChanged(ptt_on)
    BY <1>2, <1>4, <2>1 DEF PttInv
  <2> QED
    BY <1>2, <1>3, <2>2, Zenon
<1>5. ASSUME NEW i \in Places', awake'[i] = ValuesChanged,
             NEW j \in Places', j < i, awake'[j] # ValuesChanged,
             \A k \in Places' : j < k /\ k < i => awake'[k] = ValuesChanged
      PROVE  awake'[j] = PttChanged(FALSE)
  <2>1. ASSUME NEW k \in Places, j + 1 < k, k < i + 1
        PROVE  awake[k] = ValuesChanged
    <3>1. k - 1 \in Places' /\ j < k - 1 /\ k - 1 < i /\ awake'[k - 1] = awake[k]
      BY <1>1, <2>1 DEF Places
    <3> QED
      BY <1>5, <3>1
  <2>2. /\ i + 1 \in Places /\ awake[i + 1] = ValuesChanged
        /\ j + 1 \in Places /\ j + 1 < i + 1 /\ awake[j + 1] # ValuesChanged
    BY <1>2, <1>5 DEF Places
  <2>3. awake[j + 1] = PttChanged(FALSE)
    BY <2>1, <2>2 DEF PttInv
  <2> QED
    BY <1>2, <2>3
<1>6. CASE awake[1] = ValuesChanged
  <2>1. UNCHANGED <<tx, keyedBy>>
    BY <1>1, <1>6, CallbacksDiffer DEF RunAwake
  <2>2. ~Keyed /\ ~Keyed'
    <3>1. ~ \E j \in Places : j < 1
      BY DEF Places
    <3>2. ~Keyed
      BY <1>2, <1>6, <3>1 DEF PttInv
    <3> QED
      BY <2>1, <3>2 DEF Keyed
  <2>3. ASSUME keyedBy' = "fldigi", \A i \in Places' : awake'[i] = ValuesChanged
        PROVE  tx' = ptt_on'
    <3>1. \A i \in Places : awake[i] = ValuesChanged
      BY <1>2, <1>6, <2>3
    <3>2. tx = ptt_on
      BY <2>1, <2>3, <3>1 DEF PttInv
    <3> QED
      BY <1>3, <2>1, <3>2, Zenon
  <2> QED
    BY <1>4, <1>5, <2>2, <2>3, Zenon DEF PttInv
<1>7. CASE awake[1] # ValuesChanged
  <2>1. tx' = awake[1].val /\ keyedBy' = "fldigi" /\ gleft' = gleft
    BY <1>1, <1>7 DEF RunAwake
  <2>2. awake[1] = PttChanged(TRUE) \/ awake[1] = PttChanged(FALSE)
    BY <1>1, <1>7 DEF Callbacks
  <2>3. ASSUME \A i \in Places' : awake'[i] = ValuesChanged
        PROVE  tx' = ptt_on'
    <3>1. ASSUME NEW j \in Places, j > 1
          PROVE  awake[j] = ValuesChanged
      BY <1>2, <2>3, <3>1
    <3>2. awake[1] = PttChanged(ptt_on)
      BY <1>2, <1>7, <3>1 DEF PttInv
    <3>3. PttChanged(ptt_on).val = ptt_on
      BY DEF PttChanged, Call
    <3> QED
      BY <1>3, <2>1, <3>2, <3>3, Zenon
  <2>4. ASSUME NEW i \in Places', awake'[i] = ValuesChanged,
               \A j \in Places' : j < i => awake'[j] = ValuesChanged
        PROVE  ~Keyed'
    <3>1. ASSUME NEW k \in Places, 1 < k, k < i + 1
          PROVE  awake[k] = ValuesChanged
      <4>1. k - 1 \in Places' /\ k - 1 < i /\ awake'[k - 1] = awake[k]
        BY <1>1, <3>1 DEF Places
      <4> QED
        BY <2>4, <4>1
    <3>2. i + 1 \in Places /\ awake[i + 1] = ValuesChanged /\ 1 < i + 1
      BY <1>2, <2>4 DEF Places
    <3>3. awake[1] = PttChanged(FALSE)
      <4>1. \A j \in Places :
              /\ j < i + 1 /\ awake[j] # ValuesChanged
              /\ \A k \in Places : j < k /\ k < i + 1 => awake[k] = ValuesChanged
              => awake[j] = PttChanged(FALSE)
        BY <3>2 DEF PttInv
      <4> QED
        BY <1>2, <1>7, <3>1, <3>2, <4>1
    <3>4. tx' = FALSE
      BY <2>1, <3>3, CallbacksDiffer, Zenon
    <3> QED
      BY <3>4, Zenon DEF Keyed
  <2>5. gleft' = {}
    BY <1>3, <2>1
  <2> QED
    BY <1>4, <1>5, <2>3, <2>4, <2>5, Zenon DEF PttInv
<1> QED
  BY <1>6, <1>7

\* No other step touches the callbacks; one that keys is the kcat operator's.
LEMMA PttKept ==
    ASSUME DataTypes, Flags, ShapeInv, PttInv, [Next]_vars
    PROVE  PttInv'
<1> DEFINE pttVars == <<awake, ptt_on, tx, keyedBy, gleft>>
<1>1. ASSUME UNCHANGED pttVars
      PROVE  PttInv'
  BY <1>1, ZenonT(30) DEF PttInv, Places, Keyed
<1>2. CASE Check
  BY <1>2, CheckPtt
<1>3. CASE RunAwake
  BY <1>3, RunAwakePtt
<1>4. CASE PressPTT
  <2>1. UNCHANGED <<awake, gleft, ptt_on>> /\ keyedBy' = "kcat"
    BY <1>4 DEF PressPTT, thread
  <2>2. ~Keyed'
    BY <2>1 DEF Keyed
  <2> QED
    BY <2>1, <2>2, ZenonT(30) DEF PttInv, Places
<1>5. CASE \E f \in Fields : CopyFromXml(f)
  <2>1. UNCHANGED <<awake, ptt_on, tx, keyedBy>> /\ (Keyed' <=> Keyed) /\ gleft # {}
    BY <1>5 DEF CopyFromXml, thread, Keyed
  <2> QED
    BY <2>1, ZenonT(30) DEF PttInv, Places
<1>6. CASE Push \/ StoreMode \/ NewSetting \/ TellFldigi
  BY <1>1, <1>6 DEF Push, StoreMode, NewSetting, TellFldigi, thread
<1>7. CASE WakeUp \/ SendQueued \/ QueueSent \/ Poll \/ Announce \/ SendSettings \/ GoOnline
  BY <1>1, <1>7
  DEF WakeUp, SendQueued, QueueSent, Poll, Announce, SendSettings, GoOnline, kcat, thread
<1>8. CASE \E f \in Fields : CopyToXml(f)
  BY <1>1, <1>8 DEF CopyToXml, kcat
<1>9. CASE \/ \E f \in Freqs  : Tune(f)
           \/ \E m \in Modes  : SelectMode(m)
           \/ \E w \in Widths : SelectBW(w)
  BY <1>1, <1>9 DEF Tune, SelectMode, SelectBW, thread
<1>10. CASE FldigiStep
  BY <1>1, <1>10
  DEF FldigiStep, FldigiSet, FldigiTR, FldigiStops, FldigiStarts, kcat, thread
<1>11. CASE UNCHANGED vars
  BY <1>1, <1>11 DEF vars, kcat, thread
<1> QED
  BY <1>2, <1>3, <1>4, <1>5, <1>6, <1>7, <1>8, <1>9, <1>10, <1>11
  DEF Next, GuiStep, XmlRpcStep, OperatorStep

\* Types and places are kept by every step.
LEMMA FormKept == FormInv /\ [Next]_vars => FormInv'
<1>1. CASE UNCHANGED vars
  <2>1. DataTypes /\ Flags /\ ShapeInv => DataTypes' /\ Flags' /\ ShapeInv'
    BY <1>1 DEF vars, kcat, thread, peer, DataTypes, Flags, ShapeInv
  <2> QED
    BY <2>1, Types, PTL
<1>2. CASE Next
  BY <1>2, GuiForm, ThreadForm, OperatorForm, FldigiForm DEF Next
<1> QED
  BY <1>1, <1>2

\* Where the threads are, and that the transmit state is handed over in order.
THEOREM HandedInOrder == Spec => [](FormInv /\ PttInv)
<1>1. Init => FormInv /\ PttInv
  <2> SUFFICES ASSUME Init PROVE PttInv
    BY InitForm
  <2>1. Places = {}
    BY DEF Init, Places
  <2>2. tx = ptt_on /\ gleft = {}
    BY DEF Init
  <2> QED
    BY <2>1, <2>2, Zenon DEF PttInv
<1>2. FormInv /\ PttInv /\ [Next]_vars => (FormInv /\ PttInv)'
  <2>1. FormInv <=> DataTypes /\ Flags /\ ShapeInv
    BY Types
  <2> QED
    BY <2>1, FormKept, PttKept
<1> QED
  BY <1>1, <1>2, PTL DEF Spec

\* The types, and that a lost link starts the count to the next attempt again.
THEOREM SyncTypes == Spec => []TypeOK
BY HandedInOrder, PTL DEF FormInv

\* A transmitter that fldigi keyed is unkeyed when fldigi returns to receive: at rest no change
\* of the transmit state waits, so what was run last is what was last seen.
THEOREM PttFollows == Spec => []PttFollowsFldigi
<1>1. PttInv => PttFollowsFldigi
  <2> SUFFICES ASSUME PttInv, AtRest, keyedBy = "fldigi"
               PROVE  tx = trx
    BY DEF PttFollowsFldigi
  <2>1. Places = {} /\ ptt_on = trx
    BY DEF AtRest, GuiIdle, Places
  <2>2. tx = ptt_on
    BY <2>1 DEF PttInv
  <2> QED
    BY <2>1, <2>2, Zenon
<1> QED
  BY <1>1, HandedInOrder, PTL

\* set_xml_values never runs while the transmitter is keyed by fldigi, nor does it go on.
THEOREM NeverRetunes == Spec => NeverRetunesKeyed
<1>1. FormInv /\ PttInv /\ [Next]_vars => [tx /\ keyedBy = "fldigi" => gleft' = gleft]_vars
  <2> SUFFICES ASSUME DataTypes, ShapeInv, PttInv, Next, Keyed
               PROVE  gleft' = gleft
    BY Types DEF Keyed
  <2>1. CASE RunAwake
    <3>1. 1 \in Places /\ Head(awake) = awake[1] /\ ~ \E j \in Places : j < 1
      BY <2>1 DEF RunAwake, DataTypes, Places
    <3>2. Head(awake) # ValuesChanged
      BY <3>1 DEF PttInv
    <3> QED
      BY <2>1, <3>2 DEF RunAwake
  <2>2. CASE \E f \in Fields : CopyFromXml(f)
    BY <2>2 DEF CopyFromXml, PttInv
  <2>3. CASE Push \/ StoreMode \/ NewSetting \/ TellFldigi
    BY <2>3 DEF Push, StoreMode, NewSetting, TellFldigi
  <2>4. CASE \/ \E f \in Freqs  : Tune(f)
             \/ \E m \in Modes  : SelectMode(m)
             \/ \E w \in Widths : SelectBW(w)
             \/ PressPTT
    BY <2>4 DEF Tune, SelectMode, SelectBW, PressPTT
  <2>5. CASE XmlRpcStep
    BY <2>5 DEF XmlRpcStep, WakeUp, SendQueued, QueueSent, Poll, Check, Announce, SendSettings,
                GoOnline, CopyToXml, kcat
  <2>6. CASE FldigiStep
    BY <2>6 DEF FldigiStep, FldigiSet, FldigiTR, FldigiStops, FldigiStarts, kcat
  <2> QED
    BY <2>1, <2>2, <2>3, <2>4, <2>5, <2>6 DEF Next, GuiStep, OperatorStep
<1> QED
  BY <1>1, HandedInOrder, PTL DEF Spec, NeverRetunesKeyed

-----------------------------------------------------------------------------
(* What the GUI thread has still to say is what it shows.                  *)

\* The GUI thread is about to queue a frequency; to send setting g to fldigi.
PushWaits    == gui # <<>> /\ Head(gui).op = "push"
TellWaits(g) == gui # <<>> /\ Head(gui).op \in {"new", "tell"} /\ Head(gui).val.op = g

\* What it is about to send is what kcat shows.
CallInv ==
    /\ PushWaits => Head(gui).val = vfoA.freq
    /\ \A g \in {"imode", "iBW"} : TellWaits(g) => Head(gui).val.val = vfoA[g]

\* After a call, at most the second half of setMode is left.
LEMMA CallDone ==
    ASSUME ShapeInv, gui # <<>>, gui' = Tail(gui)
    PROVE  ~PushWaits' /\ \A g \in {"imode", "iBW"} : ~TellWaits(g)'
<1>1. gui' = <<>> \/ \E s \in Stores : gui' = <<s>>
  BY NextCall DEF ShapeInv
<1>2. ASSUME NEW s \in Stores, gui' = <<s>>
      PROVE  Head(gui').op = "setmode"
  BY <1>2, OneCall DEF Stores, Call
<1> QED
  BY <1>1, <1>2 DEF PushWaits, TellWaits

\* Every step keeps it: nothing is stored over a value before it is sent.
LEMMA CallKept ==
    ASSUME DataTypes, ShapeInv, CallInv, [Next]_vars
    PROVE  CallInv'
<1>1. ASSUME UNCHANGED <<gui, vfoA>>
      PROVE  CallInv'
  BY <1>1 DEF CallInv, PushWaits, TellWaits
<1>2. CASE Push
  BY <1>2, CallDone DEF Push, CallInv
<1>3. CASE StoreMode
  <2>1. PICK m \in Modes : gui = <<Call("setmode", m)>>
    BY <1>3, NextCall DEF StoreMode, ShapeInv
  <2>2. Head(gui).val = m
    BY <2>1, OneCall DEF Call
  <2>3. Head(gui') = New("imode", m) /\ vfoA'.imode = m
    <3>1. [vfoA EXCEPT !["imode"] = m]["imode"] = m
      BY DEF DataTypes, Settings
    <3> QED
      BY <1>3, <2>2, <3>1, OneCall DEF StoreMode
  <2>4. Head(gui').op = "new" /\ Head(gui').val.op = "imode" /\ Head(gui').val.val = m
    BY <2>3 DEF New, Call
  <2> QED
    BY <2>3, <2>4 DEF CallInv, PushWaits, TellWaits
<1>4. CASE NewSetting
  <2>1. UNCHANGED vfoA /\ gui # <<>> /\ Head(gui).op = "new"
    BY <1>4 DEF NewSetting
  <2>2. CASE ~fldigi_online
    BY <1>4, <2>1, <2>2, CallDone DEF NewSetting, CallInv
  <2>3. CASE fldigi_online
    <3>1. gui' = <<Call("tell", Head(gui).val)>> \o Tail(gui)
      BY <1>4, <2>3 DEF NewSetting
    <3>2. Tail(gui) \in {<<>>} \cup {<<s>> : s \in Stores}
      BY <2>1, NextCall DEF ShapeInv
    <3>3. Head(gui') = Call("tell", Head(gui).val)
      <4>1. CASE Tail(gui) = <<>>
        BY <3>1, <4>1, OneCall
      <4>2. CASE \E s \in Stores : Tail(gui) = <<s>>
        BY <3>1, <4>2, TwoCalls
      <4> QED
        BY <3>2, <4>1, <4>2
    <3>4. Head(gui').op = "tell" /\ Head(gui').val = Head(gui).val
      BY <3>3 DEF Call
    <3> QED
      BY <2>1, <3>4 DEF CallInv, PushWaits, TellWaits
  <2> QED
    BY <2>2, <2>3
<1>5. CASE TellFldigi
  BY <1>5, CallDone DEF TellFldigi, CallInv
<1>6. CASE RunAwake
  <2>1. UNCHANGED vfoA /\ (UNCHANGED gui \/ gui' = <<Call("copy", FALSE)>>)
    BY <1>6 DEF RunAwake
  <2>2. gui' = <<Call("copy", FALSE)>> => Head(gui').op = "copy"
    BY OneCall DEF Call
  <2> QED
    BY <1>1, <2>1, <2>2 DEF CallInv, PushWaits, TellWaits
<1>7. CASE \E f \in Fields : CopyFromXml(f)
  <2>1. gui = <<Copying>> /\ (gui' = <<>> \/ gui' = gui)
    BY <1>7 DEF CopyFromXml, ShapeInv
  <2>2. gui' # <<>> => Head(gui').op = "copy"
    BY <2>1, OneCall DEF Copying, Call
  <2> QED
    BY <2>2 DEF CallInv, PushWaits, TellWaits
<1>8. CASE \E f \in Freqs : Tune(f)
  <2>1. PICK f \in Freqs : Tune(f)
    BY <1>8
  <2>2. Head(gui').op = "push" /\ Head(gui').val = f
    BY <2>1, OneCall DEF Tune, Call
  <2>3. vfoA'.freq = f
    <3>1. [vfoA EXCEPT !["freq"] = f]["freq"] = f
      BY DEF DataTypes, Settings
    <3> QED
      BY <2>1, <3>1 DEF Tune
  <2> QED
    BY <2>2, <2>3 DEF CallInv, PushWaits, TellWaits
<1>9. ASSUME NEW w \in Widths, Head(gui') = New("iBW", w), vfoA' = [vfoA EXCEPT !.iBW = w]
      PROVE  CallInv'
  <2>1. Head(gui').op = "new" /\ Head(gui').val.op = "iBW" /\ Head(gui').val.val = w
    BY <1>9 DEF New, Call
  <2>2. vfoA'.iBW = w
    <3>1. vfoA \in Settings /\ "iBW" \in DOMAIN vfoA
      BY DEF DataTypes, Settings
    <3> QED
      BY <1>9, <3>1
  <2> QED
    BY <2>1, <2>2 DEF CallInv, PushWaits, TellWaits
<1>10. CASE \E w \in Widths : SelectBW(w)
  BY <1>9, <1>10, OneCall DEF SelectBW
<1>11. CASE \E m \in Modes : SelectMode(m)
  <2>1. PICK m \in Modes : SelectMode(m)
    BY <1>11
  <2> DEFINE w == IF m = vfoA.imode THEN vfoA.iBW ELSE DefaultBW(m)
  <2>2. w \in Widths /\ vfoA' = [vfoA EXCEPT !.iBW = w]
    BY <2>1 DEF SelectMode
  <2>3. gui' = <<New("iBW", w)>> \/ gui' = <<New("iBW", w), Call("setmode", m)>>
    BY <2>1, OneCall, TwoCalls DEF SelectMode
  <2> HIDE DEF w
  <2>4. Head(gui') = New("iBW", w)
    BY <2>3, OneCall, TwoCalls
  <2> QED
    BY <1>9, <2>2, <2>4
<1>12. CASE PressPTT \/ FldigiStep \/ UNCHANGED vars
  BY <1>1, <1>12 DEF PressPTT, FldigiStep, FldigiSet, FldigiTR, FldigiStops, FldigiStarts,
                     vars, kcat
<1>13. CASE XmlRpcStep
  BY <1>1, <1>13 DEF XmlRpcStep, WakeUp, SendQueued, QueueSent, Poll, Check, Announce,
                     SendSettings, GoOnline, CopyToXml, kcat
<1> QED
  BY <1>2, <1>3, <1>4, <1>5, <1>6, <1>7, <1>8, <1>10, <1>11, <1>12, <1>13
  DEF Next, GuiStep, OperatorStep

-----------------------------------------------------------------------------
(* Taking turns.                                                           *)

\* A set_xml_values is waiting to be run.
ValuesWait == \E i \in Places : awake[i] = ValuesChanged

\* The thread's copy of setting g is taken for kcat's: online, and from its copying on.
Synced(g) == \/ fldigi_online
             \/ xpc \in {"send", "sendfreq"}
             \/ xpc = "copy" /\ g \notin xleft

\* The GUI thread rests while the link is set up.
SetUpInv == xpc \in {"copy", "send", "sendfreq"} => GuiIdle

\* Mode and bandwidth: the copy is kcat's, or one is about to be taken over from the other.
PairInv ==
    \A g \in {"imode", "iBW"} :
      Synced(g) => vfoA[g] = xmlvfo[g] \/ ValuesWait \/ g \in gleft \/ TellWaits(g)

\* The frequency: the last one queued is kcat's; and when none is, as for the others.
QueueInv ==
    /\ qfreq # <<>> /\ ~PushWaits => qfreq[Len(qfreq)] = vfoA.freq
    /\ Synced("freq") /\ qfreq = <<>> /\ ~PushWaits =>
         vfoA.freq = xmlvfo.freq \/ ValuesWait \/ "freq" \in gleft
    /\ ValuesWait \/ gleft # {} => qfreq = <<>> /\ ~PushWaits
    /\ fldigi_online /\ PushWaits => qfreq = <<>>

\* While a frequency is on its way to the queue, or misses the round that goes on, nothing
\* new comes from fldigi.
QuietInv ==
    fldigi_online /\ (PushWaits \/ (qfreq # <<>> /\ xpc \in {"poll", "check"})) =>
      fldigi = xmlvfo /\ (xpc = "check" => Head(status).set = fldigi)

\* All four, as they hold while the operators take turns.
TurnInv == SetUpInv /\ PairInv /\ QueueInv /\ QuietInv

\* When both operators have taken turns and nothing is under way, the programs agree.
LEMMA RestAgrees ==
    ASSUME DataTypes, ShapeInv, TurnInv, AtRest, NothingNew
    PROVE  vfoA = fldigi /\ xmlvfo = fldigi
<1>1. gui = <<>> /\ awake = <<>> /\ fldigi_online /\ qfreq = <<>>
  BY DEF AtRest, GuiIdle
<1>2. ~ValuesWait /\ gleft = {} /\ ~PushWaits /\ \A g \in {"imode", "iBW"} : ~TellWaits(g)
  BY <1>1, OneCall DEF ValuesWait, Places, PushWaits, TellWaits, ShapeInv
<1>3. \A g \in {"imode", "iBW"} : vfoA[g] = xmlvfo[g]
  BY <1>1, <1>2 DEF TurnInv, PairInv, Synced
<1>4. vfoA.freq = xmlvfo.freq
  BY <1>1, <1>2 DEF TurnInv, QueueInv, Synced
<1>5. vfoA = xmlvfo
  BY <1>3, <1>4, SettingsEqual DEF DataTypes, Fields
<1>6. fldigi.freq = xmlvfo.freq
  BY HeardFields DEF NothingNew, DataTypes
<1>7. \A g \in {"imode", "iBW"} : fldigi[g] = xmlvfo[g]
  BY <1>3, HeardFields DEF NothingNew, DataTypes
<1>8. fldigi = xmlvfo
  BY <1>6, <1>7, SettingsEqual DEF DataTypes, Fields
<1> QED
  BY <1>5, <1>8

\* A check while a frequency is under way finds nothing new.
LEMMA NothingHeard ==
    ASSUME DataTypes, Flags, ShapeInv, QuietInv, Check, PushWaits \/ qfreq # <<>>
    PROVE  xmlvfo' = xmlvfo /\ fldigi = xmlvfo
<1>1. xpc = "check" /\ fldigi_online
  BY DEF Check, ShapeInv
<1>2. fldigi = xmlvfo /\ Head(status).set = xmlvfo
  BY <1>1 DEF QuietInv
<1>3. Heard(xmlvfo) = xmlvfo
  <2>1. /\ Heard(xmlvfo) \in Settings /\ xmlvfo \in Settings
        /\ Heard(xmlvfo).freq = xmlvfo.freq
        /\ \A g \in {"imode", "iBW"} : Heard(xmlvfo)[g] = xmlvfo[g]
    BY HeardFields DEF DataTypes
  <2> HIDE DEF Heard
  <2> QED
    BY <2>1, SettingsEqual DEF Fields
<1>4. xmlvfo' = xmlvfo
  BY <1>2, <1>3, CheckNotices
<1> QED
  BY <1>2, <1>4

\* The variables TurnInv speaks of.
turnVars == <<vfoA, xmlvfo, qfreq, fldigi_online, xpc, status, xleft, gui, gleft, awake, fldigi>>

\* A step that leaves them alone keeps it.
LEMMA TurnFrame == TurnInv /\ UNCHANGED turnVars => TurnInv'
BY DEF TurnInv, SetUpInv, PairInv, QueueInv, QuietInv, GuiIdle, Synced, ValuesWait, Places,
       PushWaits, TellWaits, turnVars

\* A setting put at one place leaves the others.
LEMMA PutOne ==
    ASSUME NEW s \in Settings, NEW f \in Fields, NEW v, NEW t, t = [s EXCEPT ![f] = v]
    PROVE  t[f] = v /\ \A g \in Fields \ {f} : t[g] = s[g]
BY DEF Settings, Fields

\* A store into the thread's copy changes the one field.
LEMMA PutInCopy ==
    ASSUME xmlvfo \in Settings, NEW f \in Fields, NEW v, xmlvfo' = [xmlvfo EXCEPT ![f] = v]
    PROVE  xmlvfo'[f] = v /\ \A g \in Fields \ {f} : xmlvfo'[g] = xmlvfo[g]
  BY DEF Settings, Fields

\* The GUI thread: each call it makes, and each field set_xml_values copies, makes agree
\* what was about to agree.
LEMMA GuiTurn ==
    ASSUME DataTypes, Flags, ShapeInv, CallInv, TurnInv, GuiStep
    PROVE  TurnInv'
<1>1. CASE Push
  <2>1. PushWaits /\ gui # <<>> /\ ~PushWaits' /\ \A g \in {"imode", "iBW"} : ~TellWaits(g)'
    BY <1>1, CallDone DEF Push, PushWaits
  <2>2. /\ UNCHANGED <<vfoA, xmlvfo, fldigi_online, xpc, status, xleft, gleft, awake, fldigi>>
        /\ qfreq' = Append(qfreq, Head(gui).val)
    BY <1>1 DEF Push, thread, peer
  <2>3. qfreq' # <<>> /\ qfreq'[Len(qfreq')] = vfoA.freq
    BY <2>1, <2>2 DEF DataTypes, CallInv
  <2>4. ~ValuesWait' /\ gleft' = {}
    <3>1. ~ValuesWait /\ gleft = {}
      BY <2>1 DEF TurnInv, QueueInv
    <3> QED
      BY <2>2, <3>1 DEF ValuesWait, Places
  <2>5. SetUpInv'
    BY <2>1, <2>2 DEF TurnInv, SetUpInv, GuiIdle
  <2>6. PairInv'
    <3>1. \A g \in {"imode", "iBW"} : ~TellWaits(g)
      BY <2>1 DEF PushWaits, TellWaits
    <3> QED
      BY <2>2, <3>1 DEF TurnInv, PairInv, Synced, ValuesWait, Places
  <2>7. QueueInv'
    BY <2>1, <2>2, <2>3, <2>4 DEF QueueInv
  <2>8. QuietInv'
    BY <2>1, <2>2 DEF TurnInv, QuietInv
  <2> QED
    BY <2>5, <2>6, <2>7, <2>8 DEF TurnInv
<1>2. CASE StoreMode
  <2>1. PICK m \in Modes : gui = <<Call("setmode", m)>>
    BY <1>2, NextCall DEF StoreMode, ShapeInv
  <2>2. /\ UNCHANGED <<xmlvfo, qfreq, fldigi_online, xpc, status, xleft, gleft, awake, fldigi>>
        /\ vfoA' = [vfoA EXCEPT !["imode"] = m] /\ gui' = <<New("imode", m)>>
    BY <1>2, <2>1, OneCall DEF StoreMode, thread, peer, Call
  <2>3. /\ ~PushWaits /\ ~PushWaits' /\ ~TellWaits("iBW") /\ TellWaits("imode")'
    BY <2>1, <2>2, OneCall DEF PushWaits, TellWaits, New, Call
  <2>4. vfoA'.freq = vfoA.freq /\ vfoA'.iBW = vfoA.iBW
    BY <2>2, PutOne DEF DataTypes, Fields
  <2>5. SetUpInv'
    BY <2>1, <2>2, OneCall DEF TurnInv, SetUpInv, GuiIdle
  <2>6. PairInv'
    BY <2>2, <2>3, <2>4 DEF TurnInv, PairInv, Synced, ValuesWait, Places
  <2>7. QueueInv' /\ QuietInv'
    BY <2>2, <2>3, <2>4 DEF TurnInv, QueueInv, QuietInv, Synced, ValuesWait, Places
  <2> QED
    BY <2>5, <2>6, <2>7 DEF TurnInv
<1>3. CASE NewSetting
  <2>1. /\ UNCHANGED <<vfoA, xmlvfo, qfreq, fldigi_online, xpc, status, xleft, gleft, awake,
                       fldigi>>
        /\ gui # <<>> /\ Head(gui).op = "new"
    BY <1>3 DEF NewSetting, thread, peer
  <2>2. xpc \notin {"copy", "send", "sendfreq"}
    BY <2>1 DEF TurnInv, SetUpInv, GuiIdle
  <2>3. CASE ~fldigi_online
    <3>1. ~PushWaits /\ ~PushWaits'
      BY <1>3, <2>1, <2>3, CallDone DEF NewSetting, PushWaits
    <3>2. \A g : ~Synced(g)'
      BY <2>1, <2>2, <2>3 DEF Synced
    <3> QED
      BY <2>1, <2>2, <2>3, <3>1, <3>2
      DEF TurnInv, SetUpInv, PairInv, QueueInv, QuietInv, ValuesWait, Places
  <2>4. CASE fldigi_online
    <3>1. gui' = <<Call("tell", Head(gui).val)>> \o Tail(gui)
      BY <1>3, <2>4 DEF NewSetting
    <3>2. Tail(gui) \in {<<>>} \cup {<<s>> : s \in Stores}
      BY <2>1, NextCall DEF ShapeInv
    <3>3. gui' # <<>> /\ Head(gui') = Call("tell", Head(gui).val)
      <4>1. CASE Tail(gui) = <<>>
        BY <3>1, <4>1, OneCall
      <4>2. CASE \E s \in Stores : Tail(gui) = <<s>>
        BY <3>1, <4>2, TwoCalls
      <4> QED
        BY <3>2, <4>1, <4>2
    <3>4. Head(gui').op = "tell" /\ Head(gui').val = Head(gui).val
      BY <3>3 DEF Call
    <3>5. ~PushWaits /\ ~PushWaits' /\ \A g \in {"imode", "iBW"} : TellWaits(g) => TellWaits(g)'
      BY <2>1, <3>3, <3>4 DEF PushWaits, TellWaits
    <3> QED
      BY <2>1, <2>2, <3>5
      DEF TurnInv, SetUpInv, PairInv, QueueInv, QuietInv, Synced, ValuesWait, Places
  <2> QED
    BY <2>3, <2>4
<1>4. CASE TellFldigi
  <2>1. /\ UNCHANGED <<vfoA, qfreq, fldigi_online, xpc, status, xleft, gleft, awake>>
        /\ gui # <<>> /\ Head(gui).op = "tell" /\ xpc = "sleep"
    BY <1>4 DEF TellFldigi, thread
  <2>2. PICK h \in {"iBW", "imode"} : Head(gui).val.op = h
    <3>1. ASSUME NEW g \in {"iBW", "imode"}, NEW v, Head(gui).val = Call(g, v)
          PROVE  Head(gui).val.op = g
      BY <3>1 DEF Call
    <3> QED
      BY <2>1, <3>1, NextSetting DEF ShapeInv
  <2>3. Head(gui).val.val = vfoA[h] /\ xmlvfo' = [xmlvfo EXCEPT ![h] = vfoA[h]]
    BY <1>4, <2>1, <2>2 DEF TellFldigi, CallInv, TellWaits
  <2>4. xmlvfo'[h] = vfoA[h] /\ \A g \in Fields \ {h} : xmlvfo'[g] = xmlvfo[g]
    <3>1. h \in Fields
      BY DEF Fields
    <3>2. xmlvfo \in Settings
      BY DEF DataTypes
    <3> QED
      BY <2>3, <3>1, <3>2, PutOne
  <2>5. ~PushWaits /\ ~PushWaits' /\ \A g \in Fields \ {h} : ~TellWaits(g)
    BY <1>4, <2>1, <2>2, CallDone DEF TellFldigi, PushWaits, TellWaits
  <2>6. PairInv'
    <3> SUFFICES ASSUME NEW g \in {"imode", "iBW"}, Synced(g)', ~ValuesWait', g \notin gleft'
                 PROVE  vfoA'[g] = xmlvfo'[g]
      BY DEF PairInv
    <3>1. CASE g = h
      BY <2>1, <2>4, <3>1
    <3>2. CASE g # h
      <4>1. g \in Fields \ {h} /\ Synced(g) /\ ~ValuesWait /\ g \notin gleft
        BY <2>1, <3>2 DEF Synced, ValuesWait, Places, Fields
      <4>2. vfoA[g] = xmlvfo[g]
        BY <2>5, <4>1 DEF TurnInv, PairInv
      <4> QED
        BY <2>1, <2>4, <4>1, <4>2
    <3> QED
      BY <3>1, <3>2
  <2>7. xmlvfo'.freq = xmlvfo.freq
    BY <2>4 DEF Fields
  <2>8. QueueInv' /\ QuietInv' /\ SetUpInv'
    BY <2>1, <2>5, <2>7
    DEF TurnInv, SetUpInv, QueueInv, QuietInv, Synced, ValuesWait, Places
  <2> QED
    BY <2>6, <2>8 DEF TurnInv
<1>5. CASE RunAwake
  <2>1. /\ UNCHANGED <<vfoA, xmlvfo, qfreq, fldigi_online, xpc, status, xleft, fldigi>>
        /\ gui = <<>> /\ awake # <<>> /\ awake' = Tail(awake)
    BY <1>5 DEF RunAwake, thread, peer
  <2>2. xpc \notin {"copy", "send", "sendfreq"} /\ gleft = {} /\ ~PushWaits
    BY <2>1, OneCall DEF TurnInv, SetUpInv, GuiIdle, ShapeInv, PushWaits
  <2>3. /\ 1 \in Places /\ Head(awake) = awake[1]
        /\ \A i \in Places' : i + 1 \in Places /\ awake'[i] = awake[i + 1]
        /\ \A i \in Places : i = 1 \/ (i - 1 \in Places' /\ awake'[i - 1] = awake[i])
    <3>1. awake \in Seq(Callbacks)
      BY DEF DataTypes, Callbacks
    <3>2. /\ Len(awake) \in Nat \ {0} /\ Head(awake) = awake[1]
          /\ Len(awake') = Len(awake) - 1
          /\ \A i \in 1..Len(awake') : awake'[i] = awake[i + 1]
      BY <2>1, <3>1, HeadTailProperties
    <3> QED
      BY <3>2 DEF Places
  <2>4. ValuesWait' => ValuesWait
    BY <2>3 DEF ValuesWait
  <2>5. CASE Head(awake) = ValuesChanged
    <3>1. gui' = <<Copying>> /\ gleft' = Fields /\ qfreq = <<>>
      <4>1. gui' = <<Copying>> /\ gleft' = Fields
        BY <1>5, <2>5, CallbacksDiffer DEF RunAwake, Copying
      <4>2. ValuesWait
        BY <2>3, <2>5 DEF ValuesWait
      <4> QED
        BY <4>1, <4>2 DEF TurnInv, QueueInv
    <3>2. ~PushWaits' /\ "freq" \in gleft' /\ {"imode", "iBW"} \subseteq gleft'
      BY <3>1, OneCall DEF PushWaits, Copying, Call, Fields
    <3> QED
      BY <2>1, <2>2, <3>1, <3>2 DEF TurnInv, SetUpInv, PairInv, QueueInv, QuietInv
  <2>6. CASE Head(awake) # ValuesChanged
    <3>1. UNCHANGED <<gui, gleft>>
      BY <1>5, <2>6 DEF RunAwake
    <3>2. ValuesWait' = ValuesWait
      BY <2>3, <2>4, <2>6 DEF ValuesWait
    <3> QED
      BY <2>1, <2>2, <3>1, <3>2
      DEF TurnInv, SetUpInv, PairInv, QueueInv, QuietInv, Synced, PushWaits, TellWaits
  <2> QED
    BY <2>5, <2>6
<1>6. CASE \E f \in Fields : CopyFromXml(f)
  <2>1. PICK f \in Fields : CopyFromXml(f)
    BY <1>6
  <2>2. /\ UNCHANGED <<xmlvfo, qfreq, fldigi_online, xpc, status, xleft, awake, fldigi>>
        /\ f \in gleft /\ gleft' = gleft \ {f} /\ (gui' = <<>> \/ gui' = gui)
        /\ gui = <<Copying>> /\ vfoA' = [vfoA EXCEPT ![f] = xmlvfo[f]]
    BY <2>1 DEF CopyFromXml, thread, peer, ShapeInv
  <2>3. vfoA'[f] = xmlvfo[f] /\ \A g \in Fields \ {f} : vfoA'[g] = vfoA[g]
    <3>1. vfoA \in Settings
      BY DEF DataTypes
    <3>2. vfoA' = [vfoA EXCEPT ![f] = xmlvfo[f]]
      BY <2>2
    <3> QED
      BY <3>1, <3>2, PutOne
  <2>4. xpc \notin {"copy", "send", "sendfreq"} /\ qfreq = <<>>
    BY <2>2, OneCall DEF TurnInv, SetUpInv, GuiIdle, QueueInv
  <2>5. ~PushWaits /\ ~PushWaits' /\ \A g \in {"imode", "iBW"} : ~TellWaits(g)
    BY <2>2, OneCall DEF PushWaits, TellWaits, Copying, Call
  <2>6. \A g \in Fields : Synced(g)' = Synced(g)
    BY <2>2 DEF Synced
  <2>7. ValuesWait' = ValuesWait
    BY <2>2 DEF ValuesWait, Places
  <2>8. PairInv'
    <3> SUFFICES ASSUME NEW g \in {"imode", "iBW"}, Synced(g)', ~ValuesWait', g \notin gleft'
                 PROVE  vfoA'[g] = xmlvfo'[g]
      BY DEF PairInv
    <3>1. CASE g = f
      BY <2>2, <2>3, <3>1
    <3>2. CASE g # f
      <4>1. g \in Fields \ {f} /\ Synced(g) /\ ~ValuesWait /\ g \notin gleft
        BY <2>2, <2>6, <2>7, <3>2 DEF Fields
      <4>2. vfoA[g] = xmlvfo[g]
        BY <2>5, <4>1 DEF TurnInv, PairInv
      <4> QED
        BY <2>2, <2>3, <4>1, <4>2
    <3> QED
      BY <3>1, <3>2
  <2>9. QueueInv'
    <3>1. ASSUME Synced("freq")', ~ValuesWait', "freq" \notin gleft'
          PROVE  vfoA'.freq = xmlvfo'.freq
      <4>1. CASE f = "freq"
        BY <2>2, <2>3, <4>1
      <4>2. CASE f # "freq"
        <5>1. "freq" \in Fields \ {f} /\ Synced("freq") /\ ~ValuesWait /\ "freq" \notin gleft
          BY <2>2, <2>6, <2>7, <3>1, <4>2 DEF Fields
        <5>2. vfoA.freq = xmlvfo.freq
          BY <2>4, <2>5, <5>1 DEF TurnInv, QueueInv
        <5> QED
          BY <2>2, <2>3, <5>1, <5>2
      <4> QED
        BY <4>1, <4>2
    <3> QED
      BY <2>2, <2>4, <2>5, <3>1 DEF QueueInv
  <2>10. SetUpInv' /\ QuietInv'
    BY <2>2, <2>4, <2>5 DEF SetUpInv, QuietInv
  <2> QED
    BY <2>8, <2>9, <2>10 DEF TurnInv
<1> QED
  BY <1>1, <1>2, <1>3, <1>4, <1>5, <1>6 DEF GuiStep

\* A check that stores what it hears also queues the callback that shows it.
LEMMA CheckTurn ==
    ASSUME DataTypes, Flags, ShapeInv, TurnInv, Check
    PROVE  TurnInv'
<1>1. /\ UNCHANGED <<vfoA, qfreq, fldigi_online, xleft, gui, gleft, fldigi>>
      /\ xpc' = "sleep" /\ xpc = "check" /\ fldigi_online
  BY DEF Check, kcat, peer, ShapeInv
<1>2. PICK a \in {0, 1}, b \in {0, 1} :
        /\ Len(awake') = Len(awake) + a + b
        /\ \A i \in Places : awake'[i] = awake[i]
        /\ a = 1 => awake'[Len(awake) + 1] = PttChanged(ptt_on')
        /\ b = 1 => awake'[Len(awake) + a + 1] = ValuesChanged /\ xmlvfo' # xmlvfo
        /\ b = 0 => xmlvfo' = xmlvfo
  BY NoticesQueued
<1>3. Len(awake) \in Nat
  BY DEF DataTypes
<1>4. ValuesWait => ValuesWait'
  BY <1>2, <1>3 DEF ValuesWait, Places
<1>5. (PushWaits' <=> PushWaits) /\ \A g : TellWaits(g)' <=> TellWaits(g)
  BY <1>1 DEF PushWaits, TellWaits
<1>6. PushWaits \/ qfreq # <<>> => xmlvfo' = xmlvfo /\ fldigi = xmlvfo
  BY NothingHeard DEF TurnInv
<1>7. CASE b = 1
  <2>1. ValuesWait'
    <3>1. Len(awake) + a + 1 \in Places'
      BY <1>2, <1>3, <1>7 DEF Places
    <3> QED
      BY <1>2, <1>7, <3>1 DEF ValuesWait
  <2>2. ~PushWaits /\ qfreq = <<>>
    BY <1>2, <1>6, <1>7
  <2> QED
    BY <1>1, <1>5, <2>1, <2>2 DEF TurnInv, SetUpInv, PairInv, QueueInv, QuietInv
<1>8. CASE b = 0
  <2>1. ValuesWait' => ValuesWait
    <3>1. PttChanged(ptt_on') # ValuesChanged
      BY CheckNotices, CallbacksDiffer, Zenon
    <3>2. ASSUME NEW i \in Places', i \notin Places
          PROVE  awake'[i] # ValuesChanged
      <4>1. a = 1 /\ i = Len(awake) + 1
        BY <1>2, <1>3, <1>8, <3>2 DEF Places
      <4> QED
        BY <1>2, <3>1, <4>1
    <3> QED
      BY <1>2, <3>2 DEF ValuesWait
  <2>2. xmlvfo' = xmlvfo /\ (ValuesWait' <=> ValuesWait)
    BY <1>2, <1>4, <1>8, <2>1
  <2>3. SetUpInv' /\ PairInv' /\ QueueInv'
    BY <1>1, <1>5, <2>2 DEF TurnInv, SetUpInv, PairInv, QueueInv, Synced
  <2>4. QuietInv'
    BY <1>1, <1>5, <1>6, <2>2 DEF QuietInv
  <2> QED
    BY <2>3, <2>4 DEF TurnInv
<1> QED
  BY <1>7, <1>8

\* The xmlrpc thread: it empties the queue before it asks, and copies before it is online.
LEMMA ThreadTurn ==
    ASSUME DataTypes, Flags, ShapeInv, TurnInv, XmlRpcStep, turns'
    PROVE  TurnInv'
<1>1. ASSUME UNCHANGED <<vfoA, gui, gleft, awake>>
      PROVE  /\ (PushWaits' <=> PushWaits) /\ (ValuesWait' <=> ValuesWait) /\ (GuiIdle' <=> GuiIdle)
             /\ \A g : TellWaits(g)' <=> TellWaits(g)
  BY <1>1 DEF PushWaits, TellWaits, ValuesWait, Places, GuiIdle
<1>2. CASE WakeUp
  <2>1. /\ UNCHANGED <<vfoA, gui, gleft, awake, xmlvfo, qfreq, fldigi_online, status, xleft, fldigi>>
        /\ xpc = "sleep" /\ xpc' \in {"sleep", "queue", "announce"}
    BY <1>2 DEF WakeUp, kcat, peer
  <2>2. \A g : Synced(g)' = Synced(g)
    BY <2>1 DEF Synced
  <2> QED
    BY <1>1, <2>1, <2>2 DEF TurnInv, SetUpInv, PairInv, QueueInv, QuietInv
<1>3. CASE SendQueued
  <2>1. /\ UNCHANGED <<vfoA, gui, gleft, awake, fldigi_online, xpc, status, xleft>>
        /\ xpc = "queue" /\ qfreq # <<>> /\ qfreq' = Tail(qfreq)
        /\ xmlvfo' = [xmlvfo EXCEPT !["freq"] = Head(qfreq)]
    BY <1>3 DEF SendQueued, kcat, thread
  <2>2. fldigi_online /\ ~PushWaits /\ ~ValuesWait /\ gleft = {}
    BY <2>1 DEF ShapeInv, TurnInv, QueueInv
  <2>3. xmlvfo'.freq = Head(qfreq) /\ \A g \in {"imode", "iBW"} : xmlvfo'[g] = xmlvfo[g]
    <3>1. xmlvfo \in Settings /\ "freq" \in Fields
      BY DEF DataTypes, Fields
    <3>2. xmlvfo' = [xmlvfo EXCEPT !["freq"] = Head(qfreq)]
      BY <2>1
    <3>3. xmlvfo'["freq"] = Head(qfreq) /\ \A g \in Fields \ {"freq"} : xmlvfo'[g] = xmlvfo[g]
      BY <3>1, <3>2, PutInCopy
    <3>4. "imode" \in Fields \ {"freq"} /\ "iBW" \in Fields \ {"freq"}
      BY DEF Fields
    <3> QED
      BY <3>3, <3>4
  <2>4. qfreq[Len(qfreq)] = vfoA.freq
    BY <2>1, <2>2 DEF TurnInv, QueueInv
  <2>5. /\ qfreq' # <<>> => qfreq'[Len(qfreq')] = vfoA.freq
        /\ qfreq' = <<>> => xmlvfo'.freq = vfoA.freq
    <3>1. qfreq \in Seq(Freqs) /\ Len(qfreq) \in Nat \ {0} /\ Head(qfreq) = qfreq[1]
      BY <2>1 DEF DataTypes
    <3>2. /\ Len(qfreq') = Len(qfreq) - 1 /\ qfreq' \in Seq(Freqs)
          /\ \A i \in 1..Len(qfreq') : qfreq'[i] = qfreq[i + 1]
      BY <2>1, <3>1, HeadTailProperties
    <3>3. CASE qfreq' = <<>>
      <4>1. Len(qfreq) = 1
        BY <3>1, <3>2, <3>3
      <4> QED
        BY <2>3, <2>4, <3>1, <3>3, <4>1
    <3>4. CASE qfreq' # <<>>
      <4>1. Len(qfreq') \in 1..Len(qfreq') /\ Len(qfreq') + 1 = Len(qfreq)
        BY <3>1, <3>2, <3>4
      <4> QED
        BY <2>4, <3>2, <3>4, <4>1
    <3> QED
      BY <3>3, <3>4
  <2>6. PairInv'
    BY <1>1, <2>1, <2>3 DEF TurnInv, PairInv, Synced
  <2>7. SetUpInv' /\ QueueInv' /\ QuietInv'
    BY <1>1, <2>1, <2>2, <2>5 DEF SetUpInv, QueueInv, QuietInv
  <2> QED
    BY <2>6, <2>7 DEF TurnInv
<1>4. CASE QueueSent
  <2>1. /\ UNCHANGED <<vfoA, gui, gleft, awake, xmlvfo, qfreq, fldigi_online, status, xleft, fldigi>>
        /\ xpc = "queue" /\ xpc' = "poll" /\ qfreq = <<>>
    BY <1>4 DEF QueueSent, kcat, peer
  <2>2. \A g : Synced(g)' = Synced(g)
    BY <2>1 DEF Synced
  <2> QED
    BY <1>1, <2>1, <2>2 DEF TurnInv, SetUpInv, PairInv, QueueInv, QuietInv
<1>5. CASE Poll
  <2>1. /\ UNCHANGED <<vfoA, gui, gleft, awake, xmlvfo, qfreq, xleft, fldigi>>
        /\ xpc = "poll" /\ fldigi_online
    BY <1>5 DEF Poll, kcat, peer, ShapeInv
  <2>2. CASE xpc' = "sleep" /\ ~fldigi_online'
    <3>1. \A g : ~Synced(g)'
      BY <2>2 DEF Synced
    <3> QED
      BY <1>1, <2>1, <2>2, <3>1 DEF TurnInv, SetUpInv, PairInv, QueueInv, QuietInv
  <2>3. CASE /\ xpc' = "check" /\ UNCHANGED fldigi_online
             /\ status' = <<[set |-> fldigi, tx |-> trx]>>
    <3>1. Head(status').set = fldigi
      BY <2>3, OneCall
    <3>2. \A g \in Fields : Synced(g) /\ Synced(g)'
      BY <2>1, <2>3 DEF Synced
    <3>3. SetUpInv' /\ PairInv' /\ QueueInv'
      BY <1>1, <2>1, <2>3, <3>2 DEF TurnInv, SetUpInv, PairInv, QueueInv, Fields
    <3>4. QuietInv'
      BY <1>1, <2>1, <2>3, <3>1 DEF TurnInv, QuietInv
    <3> QED
      BY <3>3, <3>4 DEF TurnInv
  <2> QED
    BY <1>5, <2>2, <2>3, OfflineTypes DEF Poll, Offline
<1>6. CASE Check
  BY <1>6, CheckTurn
<1>7. CASE Announce
  <2>1. /\ UNCHANGED <<vfoA, gui, gleft, awake, xmlvfo, qfreq, status, fldigi>>
        /\ xpc = "announce" /\ GuiIdle /\ ~fldigi_online
    BY <1>7 DEF Announce, kcat, peer, ShapeInv
  <2>2. ~fldigi_online' /\ (xpc' = "sleep" \/ (xpc' = "copy" /\ xleft' = Fields))
    <3>1. CASE Offline
      BY <3>1, Zenon DEF Offline
    <3>2. CASE xpc' = "copy" /\ xleft' = Fields /\ UNCHANGED <<fldigi_online, try_count>>
      BY <2>1, <3>2
    <3> QED
      BY <1>7, <3>1, <3>2, Zenon DEF Announce
  <2>3. \A g \in Fields : ~Synced(g)'
    BY <2>2 DEF Synced
  <2> QED
    BY <1>1, <2>1, <2>2, <2>3 DEF TurnInv, SetUpInv, PairInv, QueueInv, QuietInv, Fields
<1>8. CASE SendSettings
  <2>1. /\ UNCHANGED <<vfoA, gui, gleft, awake, xmlvfo, qfreq, fldigi_online, status, xleft, fldigi>>
        /\ xpc = "send" /\ xpc' = "sendfreq"
    BY <1>8 DEF SendSettings, kcat, peer
  <2>2. \A g : Synced(g)
    BY <2>1 DEF Synced
  <2> QED
    BY <1>1, <2>1, <2>2 DEF TurnInv, SetUpInv, PairInv, QueueInv, QuietInv
<1>9. CASE GoOnline
  <2>1. /\ UNCHANGED <<vfoA, gui, gleft, awake, xmlvfo, qfreq, status, xleft>>
        /\ xpc = "sendfreq" /\ xpc' = "sleep"
    BY <1>9 DEF GoOnline, kcat
  <2>2. GuiIdle /\ ~PushWaits
    BY <2>1 DEF TurnInv, SetUpInv, GuiIdle, PushWaits
  <2>3. \A g : Synced(g)
    BY <2>1 DEF Synced
  <2> QED
    BY <1>1, <2>1, <2>2, <2>3 DEF TurnInv, SetUpInv, PairInv, QueueInv, QuietInv
<1>10. CASE \E f \in Fields : CopyToXml(f)
  <2>1. PICK f \in Fields : CopyToXml(f)
    BY <1>10
  <2>2. /\ UNCHANGED <<vfoA, gui, gleft, awake, qfreq, fldigi_online, status, fldigi>>
        /\ xpc = "copy" /\ xleft' = xleft \ {f} /\ xpc' = (IF xleft' = {} THEN "send" ELSE "copy")
    BY <2>1 DEF CopyToXml, kcat, peer
  <2>3. xmlvfo'[f] = vfoA[f] /\ \A g \in Fields \ {f} : xmlvfo'[g] = xmlvfo[g]
    <3>1. xmlvfo \in Settings
      BY DEF DataTypes
    <3>2. xmlvfo' = [xmlvfo EXCEPT ![f] = vfoA[f]]
      BY <2>1 DEF CopyToXml
    <3>3. f \in Fields
      BY <2>1
    <3> QED
      BY <3>1, <3>2, <3>3, PutInCopy
  <2>4. ~fldigi_online /\ GuiIdle /\ ~PushWaits
    BY <2>2 DEF ShapeInv, TurnInv, SetUpInv, GuiIdle, PushWaits
  <2>5. ASSUME NEW g \in Fields, Synced(g)'
        PROVE  g = f \/ Synced(g)
    BY <2>2, <2>4, <2>5 DEF Synced
  <2>6. PairInv'
    <3> SUFFICES ASSUME NEW g \in {"imode", "iBW"}, Synced(g)', ~ValuesWait', g \notin gleft', ~TellWaits(g)'
                 PROVE  vfoA'[g] = xmlvfo'[g]
      BY DEF PairInv
    <3>1. g \in Fields
      BY DEF Fields
    <3>2. CASE g = f
      BY <2>2, <2>3, <3>2
    <3>3. CASE g # f
      <4>1. Synced(g) /\ ~ValuesWait /\ g \notin gleft /\ ~TellWaits(g)
        BY <1>1, <2>2, <2>5, <3>1, <3>3
      <4>2. vfoA[g] = xmlvfo[g]
        BY <4>1 DEF TurnInv, PairInv
      <4> QED
        BY <2>2, <2>3, <3>1, <3>3, <4>2
    <3> QED
      BY <3>2, <3>3
  <2>7. QueueInv'
    <3>1. ASSUME Synced("freq")', qfreq' = <<>>, ~ValuesWait', "freq" \notin gleft'
          PROVE  vfoA'.freq = xmlvfo'.freq
      <4>1. "freq" \in Fields
        BY DEF Fields
      <4>2. CASE f = "freq"
        BY <2>2, <2>3, <4>2
      <4>3. CASE f # "freq"
        <5>1. Synced("freq") /\ qfreq = <<>> /\ ~ValuesWait /\ "freq" \notin gleft
          BY <1>1, <2>2, <2>5, <3>1, <4>1, <4>3
        <5>2. vfoA.freq = xmlvfo.freq
          BY <2>4, <5>1 DEF TurnInv, QueueInv
        <5> QED
          BY <2>2, <2>3, <4>1, <4>3, <5>2
      <4> QED
        BY <4>2, <4>3
    <3> QED
      BY <1>1, <2>2, <2>4, <3>1 DEF TurnInv, QueueInv
  <2>8. SetUpInv' /\ QuietInv'
    BY <1>1, <2>2, <2>4 DEF SetUpInv, QuietInv
  <2> QED
    BY <2>6, <2>7, <2>8 DEF TurnInv
<1> QED
  BY <1>2, <1>3, <1>4, <1>5, <1>6, <1>7, <1>8, <1>9, <1>10 DEF XmlRpcStep

\* An edit that takes its turn finds nothing under way.
LEMMA CalmBefore ==
    ASSUME DataTypes, ShapeInv, TurnInv, Calm
    PROVE  /\ GuiIdle /\ gleft = {} /\ ~ValuesWait /\ ~PushWaits
           /\ \A g \in {"imode", "iBW"} : ~TellWaits(g)
           /\ xpc \notin {"copy", "send", "sendfreq"}
           /\ fldigi_online => /\ qfreq = <<>> /\ fldigi = xmlvfo
                               /\ xpc = "check" => Head(status).set = fldigi
<1>1. GuiIdle /\ gui = <<>> /\ awake = <<>>
  BY DEF Calm, AtRest, GuiIdle
<1>2. gleft = {} /\ ~ValuesWait /\ ~PushWaits /\ \A g \in {"imode", "iBW"} : ~TellWaits(g)
  BY <1>1, OneCall DEF ShapeInv, ValuesWait, Places, PushWaits, TellWaits
<1>3. xpc \notin {"copy", "send", "sendfreq"}
  BY DEF Calm, AtRest
<1>4. ASSUME fldigi_online
      PROVE  /\ qfreq = <<>> /\ fldigi = xmlvfo
             /\ xpc = "check" => Head(status).set = fldigi
  <2>1. AtRest /\ NothingNew
    BY <1>4 DEF Calm
  <2>2. fldigi = xmlvfo
    BY <2>1, RestAgrees
  <2>3. qfreq = <<>> /\ (xpc = "check" => status = <<[set |-> fldigi, tx |-> trx]>>)
    BY <2>1 DEF AtRest
  <2> QED
    BY <2>2, <2>3, OneCall
<1> QED
  BY <1>1, <1>2, <1>3, <1>4

\* An edit at kcat that takes its turn leaves the call that will send it.
LEMMA OperatorTurn ==
    ASSUME DataTypes, Flags, ShapeInv, CallInv', TurnInv, OperatorStep, turns'
    PROVE  TurnInv'
<1>1. ASSUME Calm, UNCHANGED <<xmlvfo, qfreq, fldigi_online, xpc, status, xleft, gleft, awake, fldigi>>,
             \A g \in {"imode", "iBW"} : vfoA'[g] = vfoA[g] \/ TellWaits(g)',
             PushWaits' \/ vfoA'.freq = vfoA.freq
      PROVE  TurnInv'
  <2>1. ~ValuesWait' /\ \A g : Synced(g)' = Synced(g)
    BY <1>1, CalmBefore DEF ValuesWait, Places, Synced
  <2>2. PairInv'
    BY <1>1, <2>1, CalmBefore DEF TurnInv, PairInv
  <2>3. QueueInv'
    BY <1>1, <2>1, CalmBefore DEF TurnInv, QueueInv
  <2>4. SetUpInv' /\ QuietInv'
    BY <1>1, <2>1, CalmBefore DEF SetUpInv, QuietInv
  <2> QED
    BY <2>2, <2>3, <2>4 DEF TurnInv
<1>2. CASE \E f \in Freqs : Tune(f)
  <2>1. PICK f \in Freqs : Tune(f)
    BY <1>2
  <2>2. /\ UNCHANGED <<xmlvfo, qfreq, fldigi_online, xpc, status, xleft, gleft, awake, fldigi>>
        /\ Calm /\ vfoA' = [vfoA EXCEPT !["freq"] = f] /\ gui' = <<Call("push", f)>>
    BY <2>1 DEF Tune, SettingEdit, thread, peer
  <2>3. PushWaits'
    BY <2>2, OneCall DEF PushWaits, Call
  <2>4. \A g \in {"imode", "iBW"} : vfoA'[g] = vfoA[g]
    <3>1. vfoA \in Settings /\ "freq" \in Fields
      BY DEF DataTypes, Fields
    <3>2. vfoA' = [vfoA EXCEPT !["freq"] = f]
      BY <2>2
    <3> QED
      BY <3>1, <3>2, PutOne DEF Fields
  <2> QED
    BY <1>1, <2>2, <2>3, <2>4
<1>3. ASSUME Calm, UNCHANGED <<xmlvfo, qfreq, fldigi_online, xpc, status, xleft, gleft, awake, fldigi>>,
             NEW w, vfoA' = [vfoA EXCEPT !["iBW"] = w], gui' # <<>>, Head(gui') = New("iBW", w)
      PROVE  TurnInv'
  <2>1. TellWaits("iBW")'
    BY <1>3 DEF TellWaits, New, Call
  <2>2. vfoA'.imode = vfoA.imode /\ vfoA'.freq = vfoA.freq
    <3>1. vfoA \in Settings /\ "iBW" \in Fields
      BY DEF DataTypes, Fields
    <3>2. vfoA' = [vfoA EXCEPT !["iBW"] = w]
      BY <1>3
    <3> QED
      BY <3>1, <3>2, PutOne DEF Fields
  <2> QED
    BY <1>1, <1>3, <2>1, <2>2
<1>4. CASE \E w \in Widths : SelectBW(w)
  <2>1. PICK w \in Widths : SelectBW(w)
    BY <1>4
  <2>2. /\ UNCHANGED <<xmlvfo, qfreq, fldigi_online, xpc, status, xleft, gleft, awake, fldigi>>
        /\ Calm /\ vfoA' = [vfoA EXCEPT !["iBW"] = w] /\ gui' = <<New("iBW", w)>>
    BY <2>1 DEF SelectBW, SettingEdit, thread, peer
  <2> QED
    BY <1>3, <2>2, OneCall
<1>5. CASE \E m \in Modes : SelectMode(m)
  <2>1. PICK m \in Modes : SelectMode(m)
    BY <1>5
  <2> DEFINE w == IF m = vfoA.imode THEN vfoA.iBW ELSE DefaultBW(m)
  <2>2. /\ UNCHANGED <<xmlvfo, qfreq, fldigi_online, xpc, status, xleft, gleft, awake, fldigi>>
        /\ Calm /\ vfoA' = [vfoA EXCEPT !["iBW"] = w]
    BY <2>1 DEF SelectMode, SettingEdit, thread, peer
  <2>3. gui' = <<New("iBW", w)>> \/ gui' = <<New("iBW", w), Call("setmode", m)>>
    BY <2>1, OneCall, TwoCalls DEF SelectMode
  <2> HIDE DEF w
  <2>4. gui' # <<>> /\ Head(gui') = New("iBW", w)
    BY <2>3, OneCall, TwoCalls
  <2> QED
    BY <1>3, <2>2, <2>4
<1>6. CASE PressPTT
  <2>1. UNCHANGED turnVars
    BY <1>6 DEF PressPTT, turnVars, thread, peer
  <2> QED
    BY <2>1, TurnFrame
<1> QED
  BY <1>2, <1>4, <1>5, <1>6 DEF OperatorStep

\* An edit at fldigi that takes its turn finds no frequency under way.
LEMMA FldigiTurn ==
    ASSUME DataTypes, Flags, ShapeInv, TurnInv, FldigiStep, turns'
    PROVE  TurnInv'
<1>1. UNCHANGED <<vfoA, xmlvfo, qfreq, fldigi_online, xpc, status, xleft, gui, gleft, awake>>
  BY DEF FldigiStep, FldigiSet, FldigiTR, FldigiStops, FldigiStarts, kcat, thread
<1>2. fldigi' = fldigi \/ Calm
  BY DEF FldigiStep, FldigiSet, SettingEdit, FldigiTR, FldigiStops, FldigiStarts
<1>3. CASE fldigi' = fldigi
  <2>1. UNCHANGED turnVars
    BY <1>1, <1>3 DEF turnVars
  <2> QED
    BY <2>1, TurnFrame
<1>4. CASE Calm
  <2>1. SetUpInv' /\ PairInv' /\ QueueInv'
    BY <1>1 DEF TurnInv, SetUpInv, PairInv, QueueInv, GuiIdle, Synced, ValuesWait, Places,
                PushWaits, TellWaits
  <2>2. QuietInv'
    BY <1>1, <1>4, CalmBefore DEF QuietInv, PushWaits
  <2> QED
    BY <2>1, <2>2 DEF TurnInv
<1> QED
  BY <1>2, <1>3, <1>4

\* An edit out of turn stays on record.
LEMMA TurnsKept == Flags /\ [Next]_vars /\ turns' => turns
<1>1. CASE OperatorStep
  BY <1>1 DEF OperatorStep, Tune, SelectMode, SelectBW, PressPTT, SettingEdit
<1>2. CASE FldigiStep
  BY <1>2 DEF FldigiStep, FldigiSet, SettingEdit, FldigiTR, FldigiStops, FldigiStarts
<1>3. CASE GuiStep
  BY <1>3 DEF GuiStep, Push, StoreMode, NewSetting, TellFldigi, RunAwake, CopyFromXml
<1>4. CASE XmlRpcStep
  BY <1>4 DEF XmlRpcStep, WakeUp, SendQueued, QueueSent, Poll, Check, Announce, SendSettings,
              GoOnline, CopyToXml
<1>5. CASE UNCHANGED vars
  BY <1>5 DEF vars
<1> QED
  BY <1>1, <1>2, <1>3, <1>4, <1>5 DEF Next

\* The inductive invariant.
IInv == FormInv /\ PttInv /\ CallInv /\ (turns => TurnInv)

\* The link keeps all of it: the last part as long as the operators have taken turns.
THEOREM SyncInvariance == Spec => []IInv
<1>1. Init => IInv
  <2> SUFFICES ASSUME Init PROVE PttInv /\ CallInv /\ TurnInv
    BY InitForm DEF IInv
  <2>1. /\ gui = <<>> /\ awake = <<>> /\ gleft = {} /\ qfreq = <<>>
        /\ xpc = "sleep" /\ ~fldigi_online /\ tx = ptt_on /\ Places = {}
    <3>1. tx = ptt_on /\ ~fldigi_online /\ awake = <<>>
      BY Zenon DEF Init
    <3>2. Places = {}
      BY <3>1 DEF Places
    <3> QED
      BY <3>1, <3>2 DEF Init
  <2>2. PttInv
    BY <2>1, Zenon DEF PttInv
  <2>3. CallInv /\ TurnInv
    BY <2>1 DEF CallInv, PushWaits, TellWaits, TurnInv, SetUpInv, PairInv, QueueInv, QuietInv,
                Synced, ValuesWait
  <2> QED
    BY <2>2, <2>3
<1>2. IInv /\ [Next]_vars => IInv'
  <2> SUFFICES ASSUME IInv, [Next]_vars
               PROVE  IInv'
    OBVIOUS
  <2>1. FormInv' /\ PttInv' /\ CallInv'
    BY Types, FormKept, PttKept, CallKept DEF IInv
  <2>2. ASSUME turns'
        PROVE  TurnInv'
    <3>1. DataTypes /\ Flags /\ ShapeInv /\ CallInv /\ TurnInv
      BY <2>2, Types, TurnsKept DEF IInv
    <3>2. CASE Next
      BY <2>1, <2>2, <3>1, <3>2, GuiTurn, ThreadTurn, OperatorTurn, FldigiTurn DEF Next
    <3>3. CASE UNCHANGED vars
      <4>1. UNCHANGED turnVars
        BY <3>3 DEF vars, turnVars, kcat, thread, peer
      <4> QED
        BY <3>1, <4>1, TurnFrame
    <3> QED
      BY <3>2, <3>3
  <2> QED
    BY <2>1, <2>2 DEF IInv
<1> QED
  BY <1>1, <1>2, PTL DEF Spec

\* When each edit waits for the one before it to settle, both programs show the same.
THEOREM TakingTurnsSuffices == Spec => []TakingTurnsStaysInSync
<1>1. IInv => TakingTurnsStaysInSync
  BY Types, RestAgrees DEF IInv, TakingTurnsStaysInSync
<1> QED
  BY <1>1, SyncInvariance, PTL
=============================================================================
