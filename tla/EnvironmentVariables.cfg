\* Each set in every combination of its variables, with few of the other set;
\* every short file, replaced by others, by a pipe, a directory or nothing.
CONSTANTS
    Environments <- AllEnvironments
    Files <- AllFiles
    FilesFor <- AllFilesForFew
    MaxSecret = 2
    MaxVersions = 2
SPECIFICATION FairSpec
INVARIANTS AcceptedIffComplete SecretIsWhole
PROPERTY ResolveEnds
CHECK_DEADLOCK FALSE
