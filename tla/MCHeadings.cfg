SPECIFICATION Spec
CONSTANTS
    Lines <- PageLines
    MaxLines = 4
    Texts <- T
    Lower <- Lowers
    Slug <- Slugs
    PlainText <- Plains
    Ids <- PublishedIds
    Anchor <- Anchoring
INVARIANTS
    FenceIsOpen
    HeadingsAreReal
    CrumbsEnclose
    AnchorFindsHeading
    PublishedHeadingFound
CHECK_DEADLOCK FALSE
