SPECIFICATION AllSpec
CONSTANTS
    g1 = g1
    g2 = g2
    g3 = g3
    c1 = c1
    c2 = c2
    Group = {g1, g2, g3}
    Category = {c1, c2}
    Content = {1, 2}
    New = New
    Gone = Gone
    MaxMoves = 3
    MaxRefreshes = 2
    KeepsArrivals = TRUE
    None = None
    MaxSchedules = 3
    MaxEntries = 3
    MaxRows = 2
    MaxNames = 3
    MaxQueue = 3
    MaxEdits = 2
    Tool = {"list_categories", "occurrences", "forecast_scheduled_balances", "suggest_transaction_categories", "spending", "category_plan", "pages", "review_unapproved", "detect_recurring_charges", "get_budget_health", "audit_account_reconciliation", "ynab_tool_index", "create_transactions", "search_categories"}
SYMMETRY Interchangeable
INVARIANTS
    MergedIsTree
    ForecastIsTrue
    ReportsAgree
    PlanRunsThrough
    PagesCoverRows
PROPERTIES
    LookupsAreTrue
    EvidenceIsMonotone
CHECK_DEADLOCK FALSE
