\* Handlers that change the trigger that calls them, pulls nested twice.
SPECIFICATION Spec
CONSTANTS
    Handler = {h1, h2}
    Aborter = {h2}
    MaxClosures = 4
    MaxDepth = 2
    MaxIgnored = 1
INVARIANTS
    PullsAreSound
PROPERTIES
    OnlyWantedCalled
CHECK_DEADLOCK FALSE
