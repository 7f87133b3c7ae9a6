----------------------------- MODULE FreqControl -----------------------------
(***************************************************************************)
(* The frequency display, cFreqControl.  A digit starts the entry of a     *)
(* frequency: the point blinks, the digits so far are shown, and the radio *)
(* hears nothing until Enter; Escape takes the entry back.  The digit      *)
(* buttons, the arrow keys and the wheel step what is shown and call back  *)
(* at once, and so does every other control that calls movFreq, whether an *)
(* entry is going on or not.                                               *)
(*                                                                         *)
(* Frequencies count in the unit of the last digit, in base Base.          *)
(***************************************************************************)
EXTENDS Naturals, Sequences, SequencesExt

CONSTANTS Base, nD,     \* the digits shown
          MaxKeys       \* bound: keys in one entry

maxVal == Base^nD - 1
Enter  == Base          \* in finp, next to the digits 0..Base - 1

VARIABLES
    val, oldval,   \* the frequency shown, and the one an entry goes back to
    blinking,      \* blink_point is scheduled: an entry is going on
    finp,          \* the keys of the entry
    radioFreq,     \* the frequency the radio was last tuned to
    strayed        \* history: part of an entry was sent, or a number was pasted

displayVars == <<val, oldval, blinking, finp, radioFreq, strayed>>

\* strtod stops at the Enter.
Number(keys) ==
    LET ended  == SelectInSeq(keys, LAMBDA k : k = Enter)
        digits == IF ended = 0 THEN keys ELSE SubSeq(keys, 1, ended - 1)
    IN  FoldLeft(LAMBDA n, d : Base * n + d, 0, digits)

\* The keys typed so far are shown; with Enter last they are the new frequency.  A number
\* beyond the limit is ignored, and the entry goes on.
freq_input_cb(keys) ==
    IF Number(keys) > maxVal
    THEN blinking' = TRUE /\ UNCHANGED <<val, radioFreq, strayed>>
    ELSE /\ val' = Number(keys)
         /\ IF keys # <<>> /\ Last(keys) = Enter
            THEN blinking' = FALSE /\ radioFreq' = val' /\ strayed' = FALSE
            ELSE blinking' = TRUE /\ UNCHANGED <<radioFreq, strayed>>

-----------------------------------------------------------------------------
(* handle: FL_KEYBOARD.                                                    *)

Digit(d) ==
    /\ blinking => Len(finp) < MaxKeys
    /\ finp' = IF blinking THEN Append(finp, d) ELSE <<d>>
    /\ oldval' = IF blinking THEN oldval ELSE val
    /\ freq_input_cb(finp')

EnterKey ==
    /\ blinking /\ Len(finp) < MaxKeys
    /\ finp' = Append(finp, Enter)
    /\ freq_input_cb(finp')
    /\ UNCHANGED oldval

Backspace ==
    /\ blinking /\ finp # <<>>
    /\ finp' = Front(finp)
    /\ freq_input_cb(finp')
    /\ UNCHANGED oldval

\* Variant of Escape: the digits typed stay.
EscapeKeeps ==
    /\ blinking /\ blinking' = FALSE
    /\ UNCHANGED <<val, oldval, finp, radioFreq, strayed>>

Escape ==
    /\ blinking /\ blinking' = FALSE
    /\ val' = oldval
    /\ UNCHANGED <<oldval, finp, radioFreq, strayed>>

\* Ctrl-v puts a digit (or more) into the entry and ends it: there is no Enter to come.
Paste(d) ==
    /\ Len(finp) < MaxKeys
    /\ finp' = Append(finp, d)
    /\ val' = IF Number(finp') > maxVal THEN val ELSE Number(finp')
    /\ blinking' = FALSE /\ strayed' = TRUE
    /\ UNCHANGED <<oldval, radioFreq>>

-----------------------------------------------------------------------------
\* do_callback, and every other control that calls movFreq: what is shown goes to the radio.
CallBack(v) ==
    /\ val' = v /\ radioFreq' = v
    /\ strayed' = blinking
    /\ UNCHANGED <<oldval, blinking, finp>>

\* Digits, keys and wheel, IncFreq and DecFreq: a step over the limit is not made.
IncFreq(n) == CallBack(IF val + Base^n <= maxVal THEN val + Base^n ELSE val)
DecFreq(n) == CallBack(IF val >= Base^n THEN val - Base^n ELSE val)
SendShown  == CallBack(val)

\* value(lv), by a caller that tunes the radio as well.
value(lv) ==
    /\ val' = lv /\ oldval' = lv /\ radioFreq' = lv
    /\ blinking' = FALSE /\ strayed' = FALSE
    /\ UNCHANGED finp

-----------------------------------------------------------------------------
DisplayInit ==
    /\ val = 1 /\ oldval = 1 /\ radioFreq = 1
    /\ blinking = FALSE /\ finp = <<>> /\ strayed = FALSE

DisplayNext ==
    \/ \E d \in 0..(Base - 1) : Digit(d) \/ Paste(d)
    \/ EnterKey \/ Backspace \/ Escape
    \/ \E n \in 0..(nD - 1) : IncFreq(n) \/ DecFreq(n)
    \/ SendShown
    \/ \E lv \in 0..maxVal : value(lv)

DisplaySpec == DisplayInit /\ [][DisplayNext]_displayVars

-----------------------------------------------------------------------------
(* Properties.                                                             *)

\* The frequency shown keeps to the digits of the display.
DisplayTypeOK ==
    /\ {val, oldval, radioFreq} \subseteq 0..maxVal
    /\ finp \in Seq(0..Base) /\ Len(finp) <= MaxKeys
    /\ {blinking, strayed} \subseteq BOOLEAN

\* The radio is on the frequency shown, or while one is entered on the one Escape goes back
\* to, however the entry is started, corrected, refused, cut short and taken back, unless
\* what was shown of an entry has been sent to the radio, or a number pasted that is not sent.
ShownIsTuned ==
    strayed \/ radioFreq = IF blinking THEN oldval ELSE val
=============================================================================
