SPECIFICATION Spec
CONSTANTS
    Malformed <- MCMalformed
    Lists <- MCLists
    Programs <- MCPrograms
    Documents <- MCDocuments
    Canonical <- MCCanonical
    Directory <- MCDirectory
    Contents <- MCContents
    Starts <- MCStarts
    CommandLines <- MCCommandLines
    Merge <- MergeValue
INVARIANTS
    BindingsAgree
    ChainResolved
    Layered
    DocumentsAgree
CHECK_DEADLOCK FALSE
