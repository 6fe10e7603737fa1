\* Locks on a folder and two files, taken, lapsing and honoured.
CONSTANTS
    root = root  d = d  f = f  g = g  a = a  b = b
    Ids <- MCIds
    Dirs <- MCDirs
    Root <- MCRoot
    Names <- MCNames
    Paths <- MCPaths
    Tokens = {t1, t2}
    Requests = {r1, r2}
    None = None
    Overtaking = FALSE
SPECIFICATION Spec
INVARIANTS TypeOK
PROPERTIES OnlyThroughALock NothingTakenFromBelow LapsedIsGone
SYMMETRY Symmetry
CONSTRAINT OneBody
