\* Files of five lines of ten kinds, saved and typed on.
CONSTANTS
    Line <- Lines
    MaxLines = 5
    CodePoint = {"letter", "sign", "virama"}
    Joiner = {"virama"}
    Fps <- Rates
SPECIFICATION FileSpec
INVARIANTS
    ParseIsFaithful
    MeasuresAgree
PROPERTIES
    SavingIsLossless
    ClosedCuesStay
