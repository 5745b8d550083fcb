SPECIFICATION MCSpec
CONSTANTS
    file1 = file1
    file2 = file2
    master = master
    topic = topic
    note = note
    gone = gone
    delete = delete
    Paths <- MCPaths
    Base <- MCBase
    Contents <- MCContents
    NameSum <- MCNameSum
    ContentSum <- MCContentSum
    CopyOf <- MCCopyOf
    Names <- MCNames
    Master <- master
    Messages <- MCMessages
    Gone <- gone
    Delete <- delete
    Resolutions <- MCResolutions
    MaxCommits = 3
    MaxEdits = 1
    MaxCalls = 9
CHECK_DEADLOCK FALSE
INVARIANTS
    HistoriesAreSound
    HeadsAreComplete
PROPERTIES
    CheckoutRestores
    MergeKeepsFiles
