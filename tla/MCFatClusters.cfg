SPECIFICATION Spec
CONSTANTS
    ClustersTotal = 4
    EndFrom = 5
    EndTo = 7
    DataStart = 2
    PerCluster = 2
    Values = {0, 1, 2, 3, 4, 5, 7, 9}
    Starts = {0, 2, 3, 4, 5, 9}
    MaxBlocks = 2
INVARIANTS TypeOK ReadWhole
PROPERTIES CountsAgree ReadEnds UseTakesFree
