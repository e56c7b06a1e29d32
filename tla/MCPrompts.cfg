\* The boot server and its prompts with two clients and a user who answers.
SPECIFICATION AttendedSpec
CONSTANTS
    c1 = c1
    c2 = c2
    Client = {c1, c2}
    MaxRequests <- MCRequests
    MaxText = 2
    Key = {y, enter, interrupt}
    Enter = enter
    Interrupt = interrupt
    KeyString = {{}, {y}}
INVARIANTS
    PromptsAreSound
    PasswordsKeptApart
PROPERTIES
    AnswerWasPrompted
    PromptsAreAnswered
CHECK_DEADLOCK FALSE
