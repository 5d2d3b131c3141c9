CONSTANTS
    Drives = {1}
    Tables <- MCTables
    Ext4Volumes <- MCVolumes
    Lba28Limit = 4
    Lba48Limit = 16
    MAX_PARTITIONS = 2
    Retries = 3
    MaxCalls = 1
SPECIFICATION DiskSpec
CHECK_DEADLOCK FALSE
PROPERTY
    Ext4Mounts
