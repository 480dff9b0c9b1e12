SPECIFICATION Spec
CHECK_DEADLOCK FALSE
CONSTANTS
    None = None
    Invalid = Invalid
    NoBlock = NoBlock
    Profile <- MCProfile
    Target = {"police"}
    MatchType = {"contains", "oui"}
    Text <- MCText
    Size <- MCSize
    Printable <- MCText
    Canonical <- MCCanonical
    MAX_RULES = 8
    VALUE_SIZE = 24
    MESSAGE_SIZE = 16
    Image <- MCImage
    Quarantined <- MCQuarantined
    LocalFile <- MCLocalFile
    Manifest <- MCManifest
    MarkingOf <- MCMarkingOf
    RecoveryBoard = "rev1"
    MarkingText <- MCMarkingText
    Contains <- MCContains
    Form <- MCForm
    MaxGeneration = 4
VIEW PageView
INVARIANTS TypeOK PreparedForThisBoard NeverQuarantined ArmedIsShown
PROPERTY NothingMovesWhileFlashing
