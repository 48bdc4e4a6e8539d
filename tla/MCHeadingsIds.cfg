SPECIFICATION Spec
CONSTANTS
    Lines <- PageLines
    MaxLines = 4
    Texts <- T
    Lower <- Lowers
    Slug <- Slugs
    PlainText <- Plains
    Ids <- PublishedIds
    Anchor <- Anchoring
INVARIANTS
    PublishedIdsVerified
CHECK_DEADLOCK FALSE
