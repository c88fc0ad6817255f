SPECIFICATION FairSpec
CONSTANTS
    BlockBytes = 6
    EntryBytes = 3
    SectorSizes = {6, 12}
    ClusterSizes = {1, 2}
    Fat12Limit = 5
    Fat16Limit = 7
    Fat32Limit = 9
    Width = 32
    Garbage = {0, 3}
    SectorBytes = 8
    RecordBytes = 2
    FirstDescriptor = 1
    MaxDescriptors = 3
    MaxDirectory = 16
    MaxFile = 12
    Images <- MCImages
    Paths <- MCPaths
    UpperCase <- MCUpperCase
    EdgeSectors <- MCEdgeSectors
    AmigaBlock = 6
INVARIANTS TypeOK MapSurvives OpensNamedVolume TableIsRead TreeMatchesDisk
PROPERTIES OpenReturns KeepsNodes
\* After "died" there is no process.
CHECK_DEADLOCK FALSE
