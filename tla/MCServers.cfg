CONSTANTS
    Parts = {"input", "input_large", "output", "output_limits", "clients", "clients_pause", "multi",
             "multi_dbs", "multi_refused", "script", "pubsub", "pubsub_patterns", "evict_lru",
             "evict_volatile", "evict_ttl", "evict_random", "dialogue", "dialogue_merge", "ascii",
             "ascii_twice", "epoll", "debuglock"}
    n1 = n1
    n2 = n2
    n3 = n3
    c1 = c1
    c2 = c2
    Children = {"c1", "c2"}
    Parent = "p"
    Debug = TRUE
    Record = TRUE
    Interrupt = TRUE
SPECIFICATION AllSpec
SYMMETRY Symmetry
INVARIANTS
    TablesAgree
    StreamsWhole
    AllOrNothing
    MemoryBounded
    OnePrints
PROPERTIES
    OnlyWhatIsDue
CHECK_DEADLOCK FALSE
