SPECIFICATION Spec
CONSTANTS
    Languages = {"en", "fr"}
    English = "en"
    BasePath <- Root
    Versioned = {"v@1"}
    Slashed = {"backslash"}
    Unclean = {"x%y"}
    Redirects <- SomeRedirects
    MaxHops = 3
    MaxAttempts = 2
    Inputs <- AnyInput
    HitLists <- SomeHitLists
    Curated <- SomeCurated
    PageLists <- SomePageLists
    Queries = {{}, {"t1"}, {"t1", "t2"}}
    Texts <- SomeTexts
    Bodies <- SomeBodies
    Limits = {0, 1, 2}
    MaxChanges = 1
INVARIANTS
    CallsStayInScope
    NamedPagesOpen
    LocalSearchIsComplete
PROPERTIES
    SearchDegrades
