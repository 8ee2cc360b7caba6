SPECIFICATION Spec
CONSTANTS
    MAX_CHIHLD_NUM = 3
    Pids = {1, 2, 3}
INVARIANT
    AllChildrenKilled
