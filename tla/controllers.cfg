SPECIFICATION PartsSpec
CONSTANTS
    gip1 = gip1
    gip2 = gip2
    chip = chip
    Hosts = {gip1, gip2}
    Chips = {chip}
    None = None
    Moves = 4
    pro = pro
    pad = pad
    ds3 = ds3
    Controllers = {pro, pad, ds3}
    Switches = {pro}
    Keyless = {ds3}
    Stored = {pro, ds3}
    MaxConns = 2
    MaxSlots = 2
    MaxDevices = 2
    Nobody = Nobody
    Free = Free
    BtMoves = 3
CHECK_DEADLOCK FALSE
INVARIANTS TypesOK OwnersKept ConnectionsKnown HostsAreConnected KeysKept
PROPERTIES AuthRestartsIfNoticed WakeEnds
