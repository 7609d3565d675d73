CONSTANTS
    i1 = i1  i2 = i2  r1 = r1
    Nobody = Nobody
    Installers = {i1}
    Removers = {r1}
    SlowInstalls = TRUE
    OldRoots = {"absent"}
SPECIFICATION InstallerSpec
INVARIANTS SelectedIsWhole
CHECK_DEADLOCK FALSE
