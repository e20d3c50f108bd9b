SPECIFICATION FairSpec
CONSTANTS
    MaxProcesses = 7
    MaxRounds = 2
    Faults <- MCFaults
INVARIANT
    OneGateway
PROPERTIES
    ReadyIsRecent
    WizardEnds
CHECK_DEADLOCK FALSE
