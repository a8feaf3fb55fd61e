SPECIFICATION FairSpec
CONSTANTS
    save = save
    hibernate = hibernate
    Command <- TwoCommands
    Hibernating <- OneHibernation
    NoCommand = NoCommand
    MaxAttempts = 2
    MaxEdits = 1
    MaxFaults = 2
INVARIANTS
    FreshSave
    NeverStuck
PROPERTIES
    
    SaveEnds
CHECK_DEADLOCK FALSE
