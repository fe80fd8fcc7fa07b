SPECIFICATION Spec
CONSTANTS
    Disks <- MCDisks
    DiskSize = 16
    LbaLimit = 127
    WORD = 2048
    Partitions = 2
    SectorSize = 2
    EntriesPerSector = 2
    FatPerSector = 3
    FatStart = 1
    FatLength = 2
    SectorsPerCluster = 2
    ClusterCount = 4
    EndOfChain = 120
    MaxFatCluster = 31
    StepLimit = 3
    PreviewSize = 6
    None = None
INVARIANTS
    TypeOK
    MountsFirstVolume
    ReadsTheFile
    BrowserShowsAll
