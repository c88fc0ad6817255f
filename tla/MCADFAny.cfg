SPECIFICATION Spec
CONSTANTS
    LastBlock = 13
    RootBlock = 4
    TableSize = 2
    Files = {f1, f2}
    Dirs = {d1}
    n1 = n1
    n2 = n2
    n3 = n3
    Names = {n1, n2, n3}
    HashOf <- Hashes
    MaxChanges = 3
    Sizes = {0, 2, 3}
    Ops = {"add", "mkdir", "format", "twin", "bare", "empty", "content", "rename", "rehash"}
INVARIANTS MapCovers NoCrossLinks
SYMMETRY Symmetry
