CONSTANTS
    ChannelIds = {1, 2}
    CHANNEL_CHUNK_LENGTH = 2
    HeaderLength = 1
    MessageLengths = {2, 5}
    HistorySize = 6
    Literals = {97, 200}
    MaxTokens = 2
    ProbeOffsets = {1, 63, 64, 319, 320, 2367, 2368, 8191, 65535}
    ProbeLengths = {3, 4, 7, 8, 15, 16, 4095, 4096, 8191, 8192, 32768, 65535}
    OrderTypes = {"LINE", "POLYLINE"}
    Touched = {2}
    Coords <- MCCoords
    PointLists <- MCPointLists
    ClipEdges = {100}
    MaxOrders = 3
    Bits = {1}
    Width = 10
    Height = 3
    RunLengths = {1, 9, 10}
    MaxRuns = 3
    ProbeCounts = {1, 8, 15, 16, 31, 32, 120, 128, 248, 255, 256, 271, 272, 287, 288, 65535}
    PlaneValues = {0, 1, 127, 255}
    UpdateAfter = 2
    STREAM_COUNT = 2
    g_num_channels = 1
    KeySizes = {1}
    MaxConnections = 2
    MaxPackets = 3
    Card = Card
    Main = Main
    Nobody = Nobody
    ScreenCells = {1, 2}
    Areas <- MCAreas
    Frame = {2}
    Opcodes = {12, 6}
    MaxEvents = 2
SPECIFICATION ServerDataSpec
INVARIANTS
    MessagesWhole
    TextExpanded
    DrawnAsMeant
    PixelsAsMeant
    ReadAsWritten
    ShowsWhatIsMeant
CHECK_DEADLOCK FALSE
