SPECIFICATION FairSpec
CONSTANTS
    Windows = {w1, w2, w3}
    Sizes = {1, 2}
INVARIANTS
    RegistryMirrorsCalls
    LockMeansOneDialog
    SizeCurrentUnlessOvertaken
PROPERTIES
    ImplementsModal
    TasksKeepRunning
    ClosedWindowGoes
CHECK_DEADLOCK FALSE
