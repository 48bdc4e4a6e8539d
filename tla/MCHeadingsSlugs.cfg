SPECIFICATION Spec
CONSTANTS
    Lines <- SlugLines
    MaxLines = 7
    Texts <- T
    Lower <- Lowers
    Slug <- Slugs
    PlainText <- Plains
    Ids <- PublishedIds
    Anchor <- Anchoring
INVARIANTS
    ExactHeadingFound
CHECK_DEADLOCK FALSE
