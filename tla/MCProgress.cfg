CONSTANTS
    Parts = {"aof", "clients", "fail", "nodes", "slots", "dict", "eviction", "expire", "lists",
             "rdb", "repl", "script", "failover", "monitor", "multi", "dialogue", "ascii",
             "debuglock", "epoll"}
    Peers = {"a", "b"}
    MAX_EVENTS = 1
    MaxSends = 2
    Backlog = 2
SPECIFICATION AllSpec
INVARIANTS
    NothingForgotten
PROPERTIES
    WorkEnds
    FailuresHealed
CHECK_DEADLOCK FALSE
