\* Both operators and fldigi share three edits; one width, so that a mode change resends it.
SPECIFICATION Spec
CONSTANTS
    Freqs = {f1, f2}
    f1 = f1
    f2 = f2
    Modes = {"USB", "LSB"}
    Widths = {7}
    CheckCount = 2
    MaxEdits = 3
    MaxFaults = 1
INVARIANTS TypeOK TakingTurnsStaysInSync PttFollowsFldigi
PROPERTIES NeverRetunesKeyed
