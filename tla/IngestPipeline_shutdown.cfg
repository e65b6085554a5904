CONSTANTS
    Partitions = {pa}
    Events = {e1}
    PartOf <- OneTenant
    Poison = Poison
    ProducerBuffer = 2
    ChannelBuffer = 1
    BatchSize = 1
    MaxPoison = 0
    MaxStarts = 1
SPECIFICATION FairSpec
PROPERTIES ShutdownEnds
CHECK_DEADLOCK FALSE
