CONSTANTS
    Parts = {"aof", "aof_switch", "aof_always", "rdb", "rdb_slave", "repl", "repl_bgsave",
             "scripts", "scripts_file", "config", "config_lines", "expire", "multi_slave"}
    p1 = p1
    p2 = p2
    r1 = r1
    r2 = r2
    e1 = e1
    e2 = e2
SPECIFICATION AllSpec
SYMMETRY Symmetry
INVARIANTS
    NothingLost
    ReplicasConsistent
PROPERTIES
    NothingUndone
CHECK_DEADLOCK FALSE
