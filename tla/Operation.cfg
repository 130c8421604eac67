SPECIFICATION WedgeSpec
CONSTANT MaxPrompts = 2
INVARIANTS
    TimeoutIsNotACancel
    RecoveryIsExact
    WatchdogScope
PROPERTIES
    EveryOperationReports
CHECK_DEADLOCK FALSE
