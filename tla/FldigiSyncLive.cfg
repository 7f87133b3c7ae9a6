\* Liveness on a smaller instance: frequency and bandwidth, two edits, one sleep between
\* attempts to connect.
SPECIFICATION FairSpec
CONSTANTS
    Freqs = {f1, f2}
    f1 = f1
    f2 = f2
    Modes = {"USB"}
    Widths = {7, 2}
    CheckCount = 1
    MaxEdits = 2
    MaxFaults = 1
PROPERTIES CallsReturn ComesToRest
