\* Two devices, up to three readings and two events, pages of one row.
SPECIFICATION Spec
CONSTANTS
    Endpoint = {"a", "b"}
    Readings <- MCReadings
    EventTypes = {"10300"}
    Views = {"values", "events", "pump", "export_values", "export_events", "pump_export", "dashboard"}
    Filters <- MCFilters
    PageSize = 1
    RowLimit = 1
    SampleLimit = 0
    Span = 1
    Delta = 2
    NumSteps = 2
    Databases <- MCDatabases
    StartTime = 1
    MaxAhead = 1
    Ending <- MCEnding
    MaxChanges = 3
CONSTRAINTS
    Unanswered
    Bounded
INVARIANTS
    MissedBounded
    ExportWhole
    SheetLossless
    BarsComplete
CHECK_DEADLOCK FALSE
