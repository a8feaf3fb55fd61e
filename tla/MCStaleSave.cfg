SPECIFICATION Spec
CONSTANTS
    save = save
    hibernate = hibernate
    Command <- OneHibernation
    Hibernating <- OneHibernation
    NoCommand = NoCommand
    MaxAttempts = 1
    MaxEdits = 1
    MaxFaults = 1
INVARIANT ConfirmsOwnSave
CHECK_DEADLOCK FALSE
