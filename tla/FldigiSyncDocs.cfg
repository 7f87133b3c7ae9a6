\* Two edits, a mode that brings its own bandwidth: the claim of the user documentation.
SPECIFICATION Spec
CONSTANTS
    Freqs = {f1, f2}
    f1 = f1
    f2 = f2
    Modes = {"USB", "CW"}
    Widths = {7, 2}
    CheckCount = 2
    MaxEdits = 2
    MaxFaults = 1
INVARIANTS RemainSynchronized
