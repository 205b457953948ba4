SPECIFICATION FileSpec
\* The stream ends, or a panic ends the process.
CHECK_DEADLOCK FALSE
CONSTANTS
    Tags <- MCTags
    MaxDeclared = 3
INVARIANTS
    WholeTags
    TagsInOrder
    PanicOnlyAtJoin
    ExactlyInSyncEmitted
    FileReadsBack
