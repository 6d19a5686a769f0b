\* Three creations and a restore, with a crash at any time.
CONSTANTS
    c1 = c1
    c2 = c2
    c3 = c3
    r1 = r1
    None = None
    Creations = {c1, c2, c3}
    Restores = {r1}
    MaxSecond = 2

SPECIFICATION Spec

SYMMETRY Alike

INVARIANTS
    IndexStaysReadable
    NothingIsLost
    ListedIsWhole
    RestoreAppliesTheDump
