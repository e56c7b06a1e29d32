SPECIFICATION Spec
CONSTANTS
    Strings <- MCStrings
    Pictures <- MCPictures
    Displays <- MCDisplays
    Callbacks <- MCCallbacks
    Alphabet <- MCAlphabet
    MaxTyped = 5
    Areas <- MCAreas
    MaxAreas = 3
    Programs <- MCPrograms
    Environment <- MCEnvironment
    FirstDisplay = "D1"
    Arguments <- MCArguments
    Redrawing = {"DisplayMessage"}
    MaxSteps = 5
    Handlers <- HandlersOfPlugin
INVARIANTS
    
    ScreenIsTheSprites
    RegionIsExact
    ParsesByPrecedence
CHECK_DEADLOCK FALSE
