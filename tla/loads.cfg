SPECIFICATION PartsSpec
CONSTANTS
    small = small
    large = large
    empty = empty
    p0 = p0
    p1 = p1
    p2 = p2
    Configs = {small, large}
    EmptyMain = empty
    Pairings = {p0, p1, p2}
    NoPairings = p0
    MainSize <- MCMainSize
    AuxSize <- MCAuxSize
    NSectors = 2
    UnitsPerSector = 2
    NoFooter = NoFooter
    NoPrevious = NoPrevious
    Torn = Torn
    Zero = Zero
    Erased = Erased
    Loadable = {empty, small}
    BtInIrq = FALSE
    CutMidWrite = TRUE
    PatientTool = TRUE
    EmptyUploads = TRUE
    MaxUploads = 1
    MaxSaves = 1
    MaxReloads = 1
    MaxCuts = 1
    None = None
    Subs = {"gamepad", "keyboard", "mic"}
    Modes = {"hid", "x360", "xone", "ps3"}
    MaxProfiles = 2
    MaxLoads = 3
    MaxMoves = 2
INVARIANTS
    TypesOK
    OnlySavedReachesFlash
    HostServed
PROPERTIES
    PreservedLeftAlone
    RestartsOnlyForCause
CHECK_DEADLOCK FALSE
