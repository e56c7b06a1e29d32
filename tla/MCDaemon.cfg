\* Safety of the control plane with two requests, all handlers interleaved.
SPECIFICATION Spec
CONSTANTS
    Trigger = {t1, t2}
    Mode = {boot, shutdown}
    BootUp = boot
    PowerOff = {shutdown}
SYMMETRY Symmetry
INVARIANTS
    ControlIsSafe
PROPERTIES
    AnswersAreTrue
    ServesRequests
