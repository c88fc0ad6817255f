SPECIFICATION FairSpec
CONSTANTS
    TrackCount = 2
    SectorCount <- Small
    DirStart <- Dir
    BamSectors <- Map
    HeaderSector <- Header
    Files = {f1}
    EntryCount = 2
    MaxVersions = 1
    MaxPieces = 1
    Ops = {"add", "remove"}
PROPERTIES RemoveReturns
