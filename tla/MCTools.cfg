SPECIFICATION ToolsSpec
CHECK_DEADLOCK FALSE
CONSTANTS
    p1 = p1
    p2 = p2
    Process = {p1, p2}
    First = p1
    Adapter = {a1, a2}
    Question = {q1, q2, q3}
    Listed = {q1, q2}
    MaxPages = 2
    MaxFetches = 2
    Ends = {"ok", "denied"}
    Duty <- MCDuty
    PageBudget = 3
    None = None
    Nothing = Nothing
    Bindings <- MCBindings
INVARIANTS LateAnswersAreDropped RecordingsAreAnswers NothingLeaks PagesAreWhole
PROPERTIES RecordingsStay EveryCallReturns
