----------------------------- MODULE CwKeyboard -----------------------------
(***************************************************************************)
(* The CW keyboard.  The GUI thread edits the text of the input field; the *)
(* CW thread keys the first character of the text, asks the GUI thread     *)
(* with Fl::awake to delete it, and sleeps as long as the character lasts. *)
(* What has been keyed is thus removed from the text by another thread,    *)
(* some time later, and by its place and not by what it is.                *)
(*                                                                         *)
(* Time is counted in units of 1200 / CWSPEED milliseconds.                *)
(***************************************************************************)
EXTENDS Naturals, Sequences, FiniteSets

CONSTANTS Chars,     \* the characters that are typed, a subset of Keys
          MaxTyped   \* bound: characters typed

\* morse: the dits and dahs of one character of each kind; '#' has none.
Keys  == {"E", "T", "A", "#", " "}
morse == [c \in Keys \ {" "} |-> CASE c = "E" -> <<".">> [] c = "T" -> <<"-">>
                                  [] c = "A" -> <<".", "-">> [] c = "#" -> <<>>]

ASSUME KeyerAssumption == Chars \subseteq Keys /\ MaxTyped \in Nat

VARIABLES
    txt,        \* txt_to_send
    btn_send, visible,
    duration,   \* what is left of the CW thread's wait
    queued,     \* calls of delete_char the GUI thread has not made yet
    age,        \* how long the first of them has waited
    keyed, typed,  \* history: the characters keyed, and those typed and not erased
    late,       \* history: delete_char waited for as long as a character gap
    crossed     \* history: text was erased while delete_char was queued

keyerVars == <<txt, btn_send, visible, duration, queued, age, keyed, typed, late, crossed>>

Gap == 3   \* the space after a character

\* How many of its elements are of a kind.
Elements(c, kind) == Cardinality({i \in DOMAIN morse[c] : morse[c][i] = kind})

\* Variant of char_duration: the elements alone.
ElementsOnly(c) == IF c = " " THEN 7 ELSE 4 * Elements(c, "-") + 2 * Elements(c, ".")

\* A dah lasts 4 units and a dit 2, with the pause behind them.
char_duration(c) ==
    IF c = " " THEN 7 ELSE 4 * Elements(c, "-") + 2 * Elements(c, ".") + Gap

Idle == 1   \* 20 msec, less than a unit up to 60 words per minute

-----------------------------------------------------------------------------
(* The GUI thread.                                                         *)

Type(c) ==
    /\ Len(typed) < MaxTyped
    /\ txt' = Append(txt, c) /\ typed' = Append(typed, c)
    /\ UNCHANGED <<btn_send, visible, duration, queued, age, keyed, late, crossed>>

\* What was not keyed yet is taken back.
Erase ==
    /\ txt # <<>>
    /\ txt' = <<>> /\ typed' = keyed
    /\ crossed' = (crossed \/ queued > 0)
    /\ UNCHANGED <<btn_send, visible, duration, queued, age, keyed, late>>

ToggleSend ==
    /\ btn_send' = ~btn_send
    /\ UNCHANGED <<txt, visible, duration, queued, age, keyed, typed, late, crossed>>

\* open_keyboard, close_cw_keyboard.
OpenOrClose ==
    /\ visible' = ~visible
    /\ UNCHANGED <<txt, btn_send, duration, queued, age, keyed, typed, late, crossed>>

delete_char ==
    /\ queued > 0
    /\ queued' = queued - 1 /\ age' = 0
    /\ txt' = IF txt = <<>> THEN txt ELSE Tail(txt)
    /\ UNCHANGED <<btn_send, visible, duration, keyed, typed, late, crossed>>

-----------------------------------------------------------------------------
(* cw_thread_loop.                                                         *)

\* Variant of Tick: while (duration >= 0).
TickOnceMore ==
    /\ duration + 1 > 0
    /\ duration' = duration - 1
    /\ age' = IF queued > 0 /\ age < Gap THEN age + 1 ELSE age
    /\ late' = (late \/ age' = Gap)
    /\ UNCHANGED <<txt, btn_send, visible, queued, keyed, typed, crossed>>

Tick ==
    /\ duration > 0
    /\ duration' = duration - 1
    /\ age' = IF queued > 0 /\ age < Gap THEN age + 1 ELSE age
    /\ late' = (late \/ age' = Gap)
    /\ UNCHANGED <<txt, btn_send, visible, queued, keyed, typed, crossed>>

Sending == visible /\ btn_send /\ txt # <<>>

\* sendChar: its elements go to the radio's buffer, the deletion to the GUI thread's queue.
SendHead ==
    /\ duration = 0 /\ Sending
    /\ Len(keyed) < 2 * MaxTyped   \* bound: of the repetitions while the GUI thread is busy
    /\ keyed' = Append(keyed, Head(txt))
    /\ queued' = queued + 1
    /\ duration' = char_duration(Head(txt))
    /\ UNCHANGED <<txt, btn_send, visible, age, typed, late, crossed>>

\* While the dialog is hidden the loop turns without a wait.
Poll ==
    /\ duration = 0 /\ visible /\ ~Sending
    /\ duration' = Idle
    /\ UNCHANGED <<txt, btn_send, visible, queued, age, keyed, typed, late, crossed>>

-----------------------------------------------------------------------------
KeyerInit ==
    /\ txt = <<>> /\ keyed = <<>> /\ typed = <<>>
    /\ btn_send = FALSE /\ visible = FALSE
    /\ duration = Idle /\ queued = 0 /\ age = 0
    /\ late = FALSE /\ crossed = FALSE

KeyerNext == \/ \E c \in Chars : Type(c)
        \/ Erase \/ ToggleSend \/ OpenOrClose \/ delete_char
        \/ Tick \/ SendHead \/ Poll

KeyerSpec == KeyerInit /\ [][KeyerNext]_keyerVars

-----------------------------------------------------------------------------
(* Properties.                                                             *)

\* The wait of the CW thread is never negative.
KeyerTypeOK ==
    /\ txt \in Seq(Chars) /\ typed \in Seq(Chars) /\ keyed \in Seq(Chars)
    /\ Len(txt) <= MaxTyped /\ Len(keyed) <= 2 * MaxTyped
    /\ btn_send \in BOOLEAN /\ visible \in BOOLEAN
    /\ late \in BOOLEAN /\ crossed \in BOOLEAN
    /\ duration \in 0..7 + Gap + 2 /\ age \in 0..Gap
    /\ queued \in Nat

\* Every character is keyed once and in the order it was typed, whatever the operator types
\* and erases while the message is sent, as long as the GUI thread deletes what has been
\* keyed within a character gap and no text is erased meanwhile.
KeyedAsTyped ==
    ~late /\ ~crossed =>
        typed = keyed \o (IF queued > 0 THEN Tail(txt) ELSE txt)
=============================================================================
