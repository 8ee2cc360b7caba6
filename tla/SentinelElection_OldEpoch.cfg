\* A second failover moves current_epoch while the first waits for its votes.
SPECIFICATION Spec
CONSTANTS
    Sentinels = {s1, s2, s3}
    Quorum = 2
    OtherMasters = FALSE
    MaxEpoch = 2
    MaxLost = 0
    MaxRestarts = 0
INVARIANT
    MajorityForItsEpoch
