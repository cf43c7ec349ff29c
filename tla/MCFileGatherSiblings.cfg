SPECIFICATION MCSpec
CONSTANTS
    Names <- MCNames
    Rest <- MCRest
    Rank <- MCRank
    Files <- MCFiles
    FolderEntries <- MCFolderEntries
    MaxFolders = 3
    ProjectPaths <- MCProjectPaths
    PreferredFiles <- MCPreferredFiles
    PreferredFolders <- MCPreferredFolders
    DetailFields = {LastModified, Sha1}
    FolderNames <- MCFolderNames
    FileNames <- MCFileNames
    Contents <- MCContents
    Vanishing <- MCVanishing
    Missing = Missing
    None = None
INVARIANTS
    OnlyChildrenCoalesced
\* The call ends.
CHECK_DEADLOCK FALSE
