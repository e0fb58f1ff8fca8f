SPECIFICATION Spec
CONSTANTS
    small = small
    large = large
    empty = empty
    p0 = p0
    p1 = p1
    p2 = p2
    Configs = {small, large}
    EmptyMain = empty
    Pairings = {p0, p1, p2}
    NoPairings = p0
    MainSize <- MCMainSize
    AuxSize <- MCWideAuxSize
    NSectors = 2
    UnitsPerSector = 2
    NoFooter = NoFooter
    NoPrevious = NoPrevious
    Torn = Torn
    Zero = Zero
    Erased = Erased
    Loadable = {empty, small, large}
    BtInIrq = FALSE
    CutMidWrite = FALSE
    PatientTool = TRUE
    EmptyUploads = FALSE
    MaxUploads = 1
    MaxSaves = 0
    MaxReloads = 1
    MaxCuts = 0
INVARIANT OnlySavedReachesFlash
