SPECIFICATION Spec
CONSTANTS
    ChunkSize = 2
    MaxChunks = 2
    MaxData = 3
    Byte = {0, 1, 2}
    Faults = {}
INVARIANTS TypeOK CleanAgrees SaveIsDurable TornSave
PROPERTIES ImplementsStore ReadsAreClean
