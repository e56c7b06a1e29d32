SPECIFICATION Spec
CONSTANTS
    Retries = 2
    Controller = {c1, c2}
    Lit = {c1}
    Input = {kbd}
    MaxSwitches = 2
    MaxHangups = 1
    MaxPlugs = 1
    MaxCommands = 2
INVARIANTS
    SeatIsSound
    InputIsHeard
    ConsoleIsGivenBack
PROPERTIES
    ScansOnlyOnOurVt
    LeaveIsAnswered
    KeyboardComesBack
CHECK_DEADLOCK FALSE
