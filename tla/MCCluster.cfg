CONSTANTS
    Parts = {"election", "election_late", "election_restart", "faults", "fail", "fail_all", "nodes",
             "nodes_meet", "slots", "slots_timeout", "slots_pop", "leader_votes", "failover",
             "failover_slaves", "monitor", "ring_moves", "leader"}
    s1 = s1
    s2 = s2
    s3 = s3
    Sentinels = {s1, s2, s3}
    Quorum = 2
    OtherMasters = FALSE
    MaxEpoch = 1
    MaxLost = 1
    MaxRestarts = 1
SPECIFICATION AllSpec
SYMMETRY Symmetry
INVARIANTS
    MajorityDecides
    OneConfiguration
    KeysSurviveMigration
    OneLeaderPerEpoch
    LeaderHasMajority
    DownForQuorum
PROPERTIES
    NoStepBack
CHECK_DEADLOCK FALSE
