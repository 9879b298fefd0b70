SPECIFICATION EvaluationsSpec
CHECK_DEADLOCK FALSE
CONSTANTS
    model = model
    naive = naive
    Process = {p1, p2}
    Candidate = {c1}
    Measurement = {h1, h2}
    Arm = {model, naive}
    ArmOrder <- Order
    None = None
    MaxFaults = 1
    MaxAttempts = 2
    m1 = m1
    w1 = w1
    typo = typo
    Metric = {m1, w1}
    Withheld = {w1}
    Controls <- MCControls
    Baselines <- MCBaselines
    Runs = 2
    MaxRuns = 2
    GraphCalls = 2
    MaxCalls = 5
    MaxOutput = 9
    PerCall = 2
    Absent = Absent
    Missing = Missing
    ha = ha
    hb = hb
    e1 = e1
    e2 = e2
    Leader = {ha, hb}
    Setups <- MCSetups
    Finals <- MCFinals
    MaxTests = 2
    Axis = {"toolCallsUsed"}
INVARIANTS OneShot NeverLate ReportableIsAttributable SpendIsAttributed
    ChallengeCreditIsEarned GateMissesNothing PublicationIsWhole
PROPERTY ArmsSettle
