CONSTANTS
    Base = 2
    Digits = 2
    Magic = 1
    Packets <- MCPackets
    MaxPackets = 2
    MaxNoise = 1
    Capacity = 2
    unserializable = unserializable
    Unserializable = unserializable
    ParsesAsMessage <- MCParses
    MaxMessageSize = 1
    SocketTimeout = 2
    SizeWithoutRequired = 1
SPECIFICATION StreamSpec
INVARIANTS FramingTypeOK ReadsExactly Delivered
PROPERTY AllArrive
CHECK_DEADLOCK FALSE
