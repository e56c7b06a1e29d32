SPECIFICATION Spec
CONSTANTS
    d1 = d1
    d2 = d2
    Display = {d1, d2}
    EndFrames = 1
    Theme = {"two-step", "fade-throbber", "space-flares", "script", "console-viewer", "details"}
    Attached <- MCAttached
    MaxCommands = 3
    MaxPlugs = 1
    MaxReloads = 1
INVARIANTS
    SplashIsSound
    ScreensTakePart
    HiddenIsQuiet
    GoneLeavesNothing
    MessagesAreKept
PROPERTIES
    IdleIsReached
CHECK_DEADLOCK FALSE
