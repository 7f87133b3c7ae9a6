---------------------------- MODULE AntennaPorts ----------------------------
(***************************************************************************)
(* The antenna ranges: the array antports of the first numantports ranges, *)
(* sorted by where they start, from which antPort picks the port for every *)
(* frequency that is sent to the radio; the dialog that edits them, and    *)
(* the file kcat.ant that loadLastState reads over the built-in ranges.    *)
(***************************************************************************)
EXTENDS ExchangeSort, Sequences, FiniteSetsExt, SequencesExt

CONSTANTS Starts,    \* frequencies a range may start at, in kHz
          Ports,     \* the receive and transmit ports, 0 for A and 1 for B
          BuiltIn    \* the ranges the array is initialised with

Unused == [freq |-> 0, ports |-> <<0, 0>>]
Ranges == [freq : Starts, ports : Ports]

\* No range starts at 0; those built in do not fill the array, and come in order.
ASSUME PortsAssumption ==
    /\ Starts \subseteq Int \ {0} /\ Ports \subseteq {0, 1} \X {0, 1}
    /\ BuiltIn \in Seq(Ranges) /\ Len(BuiltIn) < LISTSIZE
    /\ \A j, k \in 1..Len(BuiltIn) : j < k => BuiltIn[j].freq < BuiltIn[k].freq

aports == <<"A", "A/B", "B/A", "B">>

VARIABLES
    antports, numantports,
    file       \* kcat.ant

portsVars == <<antports, numantports, file>>

Table == [n \in 1..numantports |-> antports[n - 1]]
Used  == 0..(numantports - 1)

-----------------------------------------------------------------------------
\* Variant of antPort: the first range that starts at or below f.
antPortFirst(f) ==
    LET below == {n \in Used : f >= antports[n].freq}
        range == antports[Min(below)]
    IN  IF below = {} THEN aports[1]
        ELSE aports[range.ports[1] + 2 * range.ports[2] + 1]

\* The last range that starts at or below f, unless antSelect overrides the ranges.
antPort(f) ==
    LET below == {n \in Used : f >= antports[n].freq}
        range == antports[Max(below)]
    IN  IF below = {} THEN aports[1]
        ELSE aports[range.ports[1] + 2 * range.ports[2] + 1]

\* Where cbAddAntRange writes: the entry of that frequency, or the first without one.  It
\* looks beyond numantports.
Slot(freq) == Min({n \in Index : antports[n].freq \in {0, freq}})

\* Nothing is found: the entry behind the array would be written.
NoSlot(freq) == \A n \in Index : antports[n].freq \notin {0, freq}

-----------------------------------------------------------------------------
cbAddAntRange(r) ==
    LET n == Slot(r.freq)
    IN  /\ ~NoSlot(r.freq)   \* bound: a write behind the array ends the behaviour
        /\ numantports' = IF n = numantports /\ numantports + 1 < LISTSIZE
                          THEN numantports + 1 ELSE numantports
        /\ antports' = Sort([antports EXCEPT ![n] = r], numantports')
        /\ UNCHANGED file

\* The selected range, and with it the entries behind it.
cbDeleteAntRange(line) ==
    LET n == numantports - 1
    IN  /\ line \in 1..numantports
        /\ numantports' = n
        /\ antports' = [k \in Index |-> IF k = n THEN Unused
                                        ELSE IF line - 1 <= k /\ k < n THEN antports[k + 1]
                                        ELSE antports[k]]
        /\ UNCHANGED file

\* loadLastState in a new process: what the file does not reach stays as it was built in, and
\* an empty file counts as none.
Load(list) ==
    /\ file' = list
    /\ numantports' = IF list = <<>> THEN Len(BuiltIn) ELSE Len(list)
    /\ antports' = [k \in Index |-> IF k < Len(list) THEN list[k + 1]
                                    ELSE IF k < Len(BuiltIn) THEN BuiltIn[k + 1] ELSE Unused]

\* cbExit calls saveLastState, and the program is started again.
ExitAndStart == Load(Table)

\* The program ends without cbExit.
CrashAndStart == Load(file)

-----------------------------------------------------------------------------
PortsInit ==
    /\ file = <<>> /\ numantports = Len(BuiltIn)
    /\ antports = [k \in Index |-> IF k < Len(BuiltIn) THEN BuiltIn[k + 1] ELSE Unused]

PortsNext ==
    \/ \E r \in Ranges : cbAddAntRange(r)
    \/ \E line \in 1..LISTSIZE : cbDeleteAntRange(line)
    \/ ExitAndStart \/ CrashAndStart

PortsSpec == PortsInit /\ [][PortsNext]_portsVars

-----------------------------------------------------------------------------
(* Properties.                                                             *)

\* The ranges fit the array, and the file holds nothing but ranges.
PortsTypeOK ==
    /\ antports \in [Index -> Ranges \cup {Unused}]
    /\ numantports \in 0..(LISTSIZE - 1)
    /\ file \in Seq(Ranges)

\* Whatever was added, changed, deleted, saved and loaded, the port for a frequency is the
\* one of the nearest start below it: two starts are never the same, and a range that was
\* deleted or replaced decides nothing.
PortOfNearestStart ==
    \A f \in Starts :
        LET starts == {r \in ToSet(Table) : r.freq <= f}
            nearest == {r \in starts : \A s \in starts : s.freq <= r.freq}
        IN  starts # {} =>
                /\ \A r, s \in ToSet(Table) : r.freq = s.freq => r = s
                /\ \A r \in nearest :
                       antPort(f) = CASE r.ports = <<0, 0>> -> "A"   [] r.ports = <<1, 0>> -> "A/B"
                                      [] r.ports = <<0, 1>> -> "B/A" [] r.ports = <<1, 1>> -> "B"

\* AntPortsDialog.txt: "Press the Add button. This will create a new entry in the table."
AddCreatesEntry ==
    [][\A r \in Ranges : cbAddAntRange(r) /\ numantports + 1 < LISTSIZE
                             => r \in {antports'[n] : n \in 0..(numantports' - 1)}]_portsVars
=============================================================================
