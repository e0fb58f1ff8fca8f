SPECIFICATION PartsSafe
CONSTANTS
    gip1 = gip1
    gip2 = gip2
    chip = chip
    Hosts = {gip1, gip2}
    Chips = {chip}
    None = None
    Moves = 0
    pro = pro
    pad = pad
    ds3 = ds3
    Controllers = {pro, pad}
    Switches = {pro}
    Keyless = {}
    Stored = {pro}
    MaxConns = 2
    MaxSlots = 2
    MaxDevices = 2
    Nobody = Nobody
    Free = Free
    BtMoves = 4
CHECK_DEADLOCK FALSE
INVARIANT NoStaleKeyOffered
