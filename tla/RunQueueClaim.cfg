CONSTANTS
    Runs = {r1, r2, r3, r4}
    MaxWorkers = 2
SPECIFICATION Spec
SYMMETRY RunSymmetry
INVARIANT AcceptedWithinCap
