\* Passes between two edited sides, one of them shared in part, with one failure.
CONSTANTS
    None = None
    Dir = Dir
    PathCount = 10
    Parent <- MCParent
    Folders <- MCFolders
    Files <- MCFiles
    CopiesOf <- MCCopies
    Folded <- MCFolded
    WindowsNames <- MCWindowsNames
    Shelf <- shelf
    Mounts <- MCMounts
    Starts <- MCStarts
    ReadOnly <- MCMounts
    MaxEdits = 3
    MaxTrouble = 1
    EditsDuringPass = FALSE
SPECIFICATION FairSpec
INVARIANTS TypeOK NothingOverwritten NamesFit
PROPERTIES DeletionsStayWhileRecorded ReadOnlySharesUntouched Converges
