SPECIFICATION BootSpec
CONSTANTS
    WindowPages = 3
    MaxSupply = 22
    Identity = Identity
    Null = Null
    Moves <- MCMoves
    Buttons = {2}
    MOUSE_MAX_COORDINATE = 3
    NoPacket = NoPacket
    WORD = 1073741824
    MapLimit = 268435456
    MAX_UI_WIDTH = 1920
    MAX_UI_HEIGHT = 1080
    LongestText = 127
    NoFrame = NoFrame
    PCI_MAX_DEVICES = 3
    PCI_MAX_CAPABILITIES = 3
    MaxFunctions = 2
    FirstCap = 64
    LastCap = 244
    HighWord = 1073741824
    Absent = Absent
    VirtioCap = 9
    Common = 1
    Notify = 2
    Device = 4
    RootLength = 20
    TableHeader = 36
    MadtHeader = 44
    MaxTable = 200
    ACPI_MAX_IOAPICS = 3
    Lbas = {1, 2, 3}
    TooLarge = {3}
    IdentifyData = IdentifyData
    None = None
    Machines <- MCMachines
    RingSize = 4
    UsbFunctions = 2
    MaxSlots = 1
    ReadLimit = 3
INVARIANTS
    TypeOK
    KernelStaysMapped
    WindowsAsPromised
    PagesArePrivate
    TablePagesExact
    PixelsInFrame
    DriversFindDevices
    SlotsAgree
    MadtComplete
    SectorAsAsked
    CursorFollows
PROPERTY
    BootFinishes
