SPECIFICATION Spec
CONSTANTS
    LastBlock = 25
    RootBlock = 8
    TableSize = 2
    Files = {f1, f2}
    Dirs = {d1}
    n1 = n1
    n2 = n2
    n3 = n3
    Names = {n1, n2, n3}
    HashOf <- Hashes
    MaxChanges = 4
    Sizes = {3}
    Ops = {"add", "mkdir", "content", "rename", "load", "remove"}
INVARIANTS TypeOK MapCovers FreeMeansUnused Placed Readable
SYMMETRY Symmetry
