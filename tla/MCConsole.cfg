SPECIFICATION ConsoleSpec
CONSTANTS
    Rows = 2
    Columns = 3
    Texts <- MCTexts
    Phrases <- MCPhrases
    Overs <- MCOvers
    MaxBullets = 1
    Priorities = {4}
    MaxWrites = 2
    MaxBuffer = 20
INVARIANTS
    ViewersShowTheOutput
    LabelsAreFresh
    SessionIsSound
CHECK_DEADLOCK FALSE
