\* Two slots for children and three pids: the table fills up and overflows, a child outlives
\* another and a pid is reused.
SPECIFICATION Spec
CONSTANTS
    MAX_CHIHLD_NUM = 3
    Pids = {1, 2, 3}
INVARIANTS
    TypeOK
    ScanInBounds
    CountWithinTable
    RunningChildRecorded
    NoCtrlFdLeak
PROPERTIES
    RunningChildKept
    ZombiesReaped
    AlwaysListening
