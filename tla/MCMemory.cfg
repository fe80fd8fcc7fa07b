SPECIFICATION Spec
CONSTANTS
    PAGE_SIZE = 2
    MAX_MEMORY_REGIONS = 2
    IDENTITY_MAPPED_LIMIT = 10
    WORD = 14
    kernel_image_end = 1
    DefaultEnd = 6
    MaxEntries = 3
    Null = Null
INVARIANTS
    TypeOK
    PagesAreUsable
    CountersExact
PROPERTIES
    ImplementsPageAllocator
