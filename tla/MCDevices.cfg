\* Hardware that comes and goes under a daemon that shows, hides and hands over.
SPECIFICATION Spec
CONSTANTS
    simple = simple
    gpu = gpu
    fb = fb
    lo = lo
    hi = hi
    Card = {simple, gpu, fb}
    Simple = {simple}
    FrameBuffer = {fb}
    CardOf <- MCCardOf
    Connected <- MCConnected
    Screen = {lo, hi}
    LowResolution = {lo}
    Input = {kbd}
    Theme = {"graphical", "text"}
    Setup = {"udev", "text", "serial"}
    MaxChanges = 2
    MaxCommands = 2
INVARIANTS
    ManagerIsSound
    KeyboardsAreFound
    MasterIsReleased
PROPERTIES
    NothingOpensWhilePaused
    CardIsDriven
CHECK_DEADLOCK FALSE
