----------------------------- MODULE MemoryList -----------------------------
(***************************************************************************)
(* The list of stored frequencies: the array oplist of the first numinlist *)
(* entries, the browser FreqSelect that shows them, and the .arv file.     *)
(* Everything runs in the GUI thread; what is hard is the array, which     *)
(* nothing keeps inside its bounds, and the browser, which updateSelect    *)
(* does not touch when the list is empty.                                  *)
(***************************************************************************)
EXTENDS ExchangeSort, Sequences, Functions

CONSTANTS StoredFreqs, StoredModes

ASSUME ListAssumption == StoredFreqs \subseteq Int

Entry   == [freq : StoredFreqs, mode : StoredModes]
NoEntry == [freq |-> 0, mode |-> "USB"]   \* what clearList and delFreq leave
Entries == Entry \cup {NoEntry}

VARIABLES
    oplist, numinlist,
    FreqSelect, line,   \* the lines of the browser, and the one selected (0: none)
    tuned,              \* the frequency and mode the radio is tuned to
    arv                 \* the file: a sequence of entries

listVars == <<oplist, numinlist, FreqSelect, line, tuned, arv>>

Listed == [n \in 1..numinlist |-> oplist[n - 1]]

\* Variant of updateSelect: the lines are added to the old ones.
UpdateWithoutClear(list, n) ==
    IF n = 0 THEN /\ oplist' = list
                  /\ UNCHANGED <<FreqSelect, line>>
    ELSE /\ oplist' = Sort(list, n)
         /\ FreqSelect' = FreqSelect \o [k \in 1..n |-> oplist'[k - 1]]
         /\ UNCHANGED line

\* updateSelect sorts and shows the list, unless it is empty.
updateSelect(list, n) ==
    IF n = 0 THEN /\ oplist' = list
                  /\ UNCHANGED <<FreqSelect, line>>
    ELSE /\ oplist' = Sort(list, n)
         /\ FreqSelect' = [k \in 1..n |-> oplist'[k - 1]]
         /\ line' = 0

-----------------------------------------------------------------------------
\* The radio is tuned by any other control.
TuneRadio(e) ==
    /\ tuned' = e
    /\ UNCHANGED <<oplist, numinlist, FreqSelect, line, arv>>

\* A click on a line: cb_FreqSelect, selectFreq.
selectFreq(k) ==
    /\ k \in DOMAIN FreqSelect
    /\ line' = k
    /\ tuned' = oplist[k - 1]
    /\ UNCHANGED <<oplist, numinlist, FreqSelect, arv>>

\* An entry that is not in the list yet is put behind the last one.
addFreq ==
    /\ numinlist < LISTSIZE   \* bound: a full list is written to behind its end
    /\ tuned \notin Range(Listed)
    /\ numinlist' = numinlist + 1
    /\ updateSelect([oplist EXCEPT ![numinlist] = tuned], numinlist + 1)
    /\ UNCHANGED <<tuned, arv>>

\* The entries behind the selected one move down, and the one behind the last with them.
delFreq ==
    LET n == numinlist - 1
    IN  /\ line # 0
        /\ numinlist > 0          \* bound: an empty list is written to before its start
        /\ numinlist < LISTSIZE   \* bound: a full list is read behind its end
        /\ numinlist' = n
        /\ updateSelect([k \in Index |-> IF k = n THEN NoEntry
                                         ELSE IF line - 1 <= k /\ k < n THEN oplist[k + 1]
                                         ELSE oplist[k]], n)
        /\ UNCHANGED <<tuned, arv>>

\* The button Clear: an empty list is left alone, with what the browser shows.
clearList ==
    /\ numinlist # 0
    /\ oplist' = [k \in Index |-> NoEntry] /\ numinlist' = 0
    /\ FreqSelect' = <<>> /\ line' = 0
    /\ UNCHANGED <<tuned, arv>>

\* readFile: clearList, then the entries of the file, then updateSelect.
openFreqList ==
    LET n == Len(arv)
        read == [k \in Index |->
                   IF k < n THEN arv[k + 1] ELSE IF numinlist # 0 THEN NoEntry ELSE oplist[k]]
    IN  /\ numinlist' = n
        /\ IF n = 0
           THEN /\ oplist' = read
                /\ IF numinlist = 0 THEN UNCHANGED <<FreqSelect, line>>
                   ELSE FreqSelect' = <<>> /\ line' = 0
           ELSE updateSelect(read, n)
        /\ UNCHANGED <<tuned, arv>>

\* An empty list is not saved.
saveFreqList ==
    /\ numinlist # 0
    /\ arv' = Listed
    /\ UNCHANGED <<oplist, numinlist, FreqSelect, line, tuned>>

-----------------------------------------------------------------------------
\* buildlist has read the file default.arv.
ListInit ==
    /\ arv \in {<<>>} \cup {<<e>> : e \in Entry}
    /\ oplist = [k \in Index |-> IF k < Len(arv) THEN arv[k + 1] ELSE NoEntry]
    /\ numinlist = Len(arv)
    /\ FreqSelect = arv /\ line = 0
    /\ tuned \in Entry

ListNext ==
    \/ \E e \in Entry : TuneRadio(e)
    \/ \E k \in 1..LISTSIZE : selectFreq(k)
    \/ addFreq \/ delFreq \/ clearList \/ openFreqList \/ saveFreqList

ListSpec == ListInit /\ [][ListNext]_listVars

-----------------------------------------------------------------------------
(* Properties.                                                             *)

\* The list fits the array, and the browser selects a line it has.
ListTypeOK ==
    /\ oplist \in [Index -> Entries]
    /\ numinlist \in 0..LISTSIZE
    /\ FreqSelect \in Seq(Entries) /\ line \in 0..Len(FreqSelect)
    /\ tuned \in Entries
    /\ arv \in Seq(Entries)

\* Every line of the browser is the entry it selects, in order of frequency and none twice,
\* but for the line that stays when the last entry is deleted.
LinesAreTheList ==
    /\ FreqSelect = Listed \/ (numinlist = 0 /\ Len(FreqSelect) = 1)
    /\ \A j, k \in DOMAIN Listed :
           j < k => Listed[j].freq <= Listed[k].freq /\ Listed[j] # Listed[k]

=============================================================================
