CONSTANTS
    Kinds = {"ehci", "ohci", "uhci"}
    Ports = 2
    MaxReports = 2
    XPorts = 2
    MaxSlots = 2
    RingSize = 3
    MaxEvents = 5
    Drives = {1, 2}
    Tables <- MCTables
    Ext4Volumes <- MCVolumes
    Lba28Limit = 4
    Lba48Limit = 16
    MAX_PARTITIONS = 2
    Retries = 3
    MaxCalls = 2
    Ring = 3
    ArpSize = 2
    Packets <- MCPackets
    Hosts = {"a"}
    OWN = "us"
    ALL = "all"
    MaxIn = 4
    MaxPings = 1
    BuiltIns <- MCBuiltIns
    COMPONENT_LIMIT = 2
    MAX_LKMS = 4
    MaxLoads = 4
SPECIFICATION MCSpec
CHECK_DEADLOCK FALSE
INVARIANTS
    TransfersBalance
    ReportsOnce
    EventsInOrder
    SectorsRight
    PacketsInOrder
    ArpLatest
    ModulesSound
PROPERTIES
    ReportsHandled
    DetectionEnds
