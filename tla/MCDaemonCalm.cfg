\* Liveness for clients that leave a splash alone while it becomes idle.
SPECIFICATION CalmSpec
CONSTANTS
    Trigger = {t1, t2}
    Mode = {boot}
    BootUp = boot
    PowerOff = {}
PROPERTIES
    QuitCompletes
    DeactivateCompletes
