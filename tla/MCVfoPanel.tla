----------------------------- MODULE MCVfoPanel -----------------------------
\* The instance of VfoPanel that TLC checks: two VFOs on different frequencies and modes.
EXTENDS VfoPanel

CONSTANTS f1, f2

MCStart == [A |-> [freq |-> f1, imode |-> "USB", iBW |-> 7],
            B |-> [freq |-> f2, imode |-> "CW", iBW |-> 2]]

\* Settings that differ from those in one and in several fields.
MCPresets == {[freq |-> f1, imode |-> "AM", iBW |-> 8], [freq |-> f2, imode |-> "USB", iBW |-> 2],
              [freq |-> f1, imode |-> "CW", iBW |-> 7]}
=============================================================================
