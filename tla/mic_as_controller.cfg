SPECIFICATION UsbSpec
CONSTANTS
    None = None
    Subs = {"gamepad", "mic"}
    Modes = {"hid", "x360", "xone", "ps3"}
    MaxProfiles = 2
    MaxLoads = 3
    MaxMoves = 2
INVARIANT MicrophoneNeverController
CHECK_DEADLOCK FALSE
