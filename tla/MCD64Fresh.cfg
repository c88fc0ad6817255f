SPECIFICATION Spec
CONSTANTS
    TrackCount = 2
    SectorCount <- Small
    DirStart <- Dir
    BamSectors <- Map
    HeaderSector <- Header
    Files = {f1, f2}
    EntryCount = 2
    MaxVersions = 3
    MaxPieces = 2
    Ops = {"add", "content", "load", "read"}
INVARIANTS FreeMeansUnused NoCrossLinks Readable SlotsDistinct
SYMMETRY Symmetry
