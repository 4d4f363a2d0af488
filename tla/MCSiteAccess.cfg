\* A user and a Global Admin, two sites, and changes during the requests.
SPECIFICATION Spec
CONSTANTS
    User = {u1}
    Site = {1, 2}
    Endpoint = {e1}
    Firmware = {f1}
    Request = {r1}
    Grants <- MCGrants
    Pages = {"firmware_form", "start_update", "upload_fw", "delete_fw", "switch_site"}
    Scenarios <- MCScenarios
    All = All
    Unassigned = Unassigned
    None = None
    MaxChanges = 2
CONSTRAINT
    Bounded
INVARIANTS
    TypeOK
    OnlyPermitted
    OnlyPermittedChanges
    NothingMissing
    UpdateKeepsFirmware
    ErrorOnlyAfterDemotion
PROPERTY
    BulkKeepsRouting
CHECK_DEADLOCK FALSE
