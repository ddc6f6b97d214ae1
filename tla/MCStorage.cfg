SPECIFICATION StorageSpec
CONSTANTS
    i1 = i1
    i2 = i2
    NoImage = NoImage
    Image <- MCImage
    Size <- MCSize
    Writable <- MCWritable
    SectorWords = 2
    CountMod = 2
    MaxLba = 2
    Word <- MCWord
    Zero = "0"
    IdentifyWord = "identify"
    QueueSize = 5
    Pile = 1
    Cards = {0, 1}
    CardImages <- MCCardImages
    GuestCards = {1}
INVARIANTS TransferBounded BufferCurrent NothingForgotten
INVARIANTS CardAsGuestKnows CardChangesKept BusInStep DiskChangesKept
PROPERTIES ImplementsDisk ScsiImplementsDisk
CHECK_DEADLOCK FALSE
