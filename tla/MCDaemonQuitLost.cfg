\* A quit that never completes.
SPECIFICATION FairSpec
CONSTANTS
    Trigger = {t1}
    Mode = {boot, shutdown}
    BootUp = boot
    PowerOff = {shutdown}
PROPERTIES
    QuitCompletes
