SPECIFICATION AskedSpec
CONSTANTS
    Absent = Absent
    Words = {"error", "warning", "unheard"}
    MaxForest = 5
    MaxTokens = 5
    MaxLines = 4
    Snips = {"s1", "s2", "s3", "s4"}
    MaxSnippets = 4
    MaxBatch = 3
INVARIANTS ExtractionConserves MessagesHonest PositionsShifted AnswersMatch LaunchedAsGiven
CHECK_DEADLOCK FALSE
