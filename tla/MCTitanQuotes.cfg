SPECIFICATION Spec
CONSTANTS
    HuntSizes <- TwoRungs
    StreamIds = {st1, st2}
    MaxQuotes = 2
    None = None
SYMMETRY StreamSymmetry
INVARIANTS
    TypeOK
    RowUnderItsSize
    BoardIsOfThisSession
    OnlyRowInHandIsAhead
    FlagsAreHonest
    CountersAgree
