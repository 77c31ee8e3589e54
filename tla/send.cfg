SPECIFICATION Spec

CONSTANTS
    a1 = a1
    a2 = a2
    bad = bad
    none = none
    Addresses = {a1, a2}
    Malformed = bad
    Empty = none
    MaxLines = 4
    MaxFiles = 2
    Names <- NamesHere
    Short <- ShortHere
    Safe <- SafeHere
    Cases <- CasesHere
    DefaultTotal = 300
    Overhead = 22
    MaxLost = 1

INVARIANTS
    TypeOK
    ShownInOrder
    LinesShown
    PlaceholdersCaught
    CidsResolve
    FilesReachMail
    RecipientsGoverned
    AcceptedFits

CHECK_DEADLOCK FALSE
