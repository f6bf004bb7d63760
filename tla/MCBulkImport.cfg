\* Two batches, a damaged file, duplicates, one broken connection
SPECIFICATION FairSpec
CONSTANTS
    twin1 = twin1  twin2 = twin2  torn = torn
    Files = {twin1, twin2, torn}
    SizeOf <- MCSizeOf
    Selections <- MCSelections
    MaxBatchBytes = 2
    MaxBatchFiles = 2
    Images = {"same", "other"}
    ImageOf <- MCImageOf
    Unusable = {torn}
    KnownImages = {}
    LlmEngine = TRUE
    MaxCuts = 1
CHECK_DEADLOCK FALSE
INVARIANTS
    BatchesSound
    EveryFileReviewed
    PhotosFollowTheRows
    DuplicatesMarked
    CommitIsHonest
PROPERTIES
    ImportEnds
