CONSTANTS
    Parts = {"dict", "ziplist", "hash", "lists", "sets", "sets_algebra", "zset", "zset_store",
             "hll", "hll_merge", "ring"}
    Nodes = {"x", "y", "z"}
    replicas_ = 2
    Circle = 7
SPECIFICATION AllSpec
INVARIANTS
    ValuesHeld
    AnswersRight
    RingOfNodes
PROPERTIES
    ChangesAreSignalled
CHECK_DEADLOCK FALSE
