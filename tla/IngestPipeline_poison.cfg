CONSTANTS
    Partitions = {pa}
    Events = {e1}
    PartOf <- OneTenant
    Poison = Poison
    ProducerBuffer = 2
    ChannelBuffer = 1
    BatchSize = 2
    MaxPoison = 1
    MaxStarts = 1
SPECIFICATION Spec
INVARIANTS PersistBeforeCommit
CHECK_DEADLOCK FALSE
