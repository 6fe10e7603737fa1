\* A share the account may write to, removed from the folder.
CONSTANTS
    None = None
    Dir = Dir
    PathCount = 10
    Parent <- MCParent
    Folders <- MCFolders
    Files <- MCSharedFiles
    CopiesOf <- MCCopies
    Folded <- MCFolded
    WindowsNames = {}
    Shelf <- shelf
    Mounts <- MCMounts
    Starts <- MCShared
    ReadOnly = {}
    MaxEdits = 2
    MaxTrouble = 0
    EditsDuringPass = FALSE
SPECIFICATION Spec
PROPERTY RemovedSharesKeepTheirFiles
