SPECIFICATION FairSpec
CONSTANTS
    TrackCount = 2
    SectorCount <- Tight
    DirStart <- Dir
    BamSectors <- Maps
    HeaderSector <- Header
    Files = {f1, f2}
    EntryCount = 1
    MaxVersions = 2
    MaxPieces = 3
    Ops = {"add", "rename", "recontent", "empty", "load", "read", "remove", "format"}
INVARIANTS TypeOK BamAgrees
PROPERTIES SaveReturns

