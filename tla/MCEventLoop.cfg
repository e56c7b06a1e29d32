\* Registrations of two descriptors that come and go in each other's handlers,
\* timeouts that run between them, and an exit.
SPECIFICATION FairSpec
CONSTANTS
    Fd = {signals, tty}
    SignalFd = signals
    Kind = {"reader", "closer"}
    Owner = {o1, o2}
    MaxWatches = 3
    MaxTimeouts = 2
    MaxBatch = 2
    MaxTime = 1
INVARIANTS
    LoopIsSound
PROPERTIES
    StoppedIsNotCalled
    DueHappens
CHECK_DEADLOCK FALSE
