SPECIFICATION Spec
CONSTANTS
    Employees = {e1, e2, e3}
    Requests = {r1, r2}
    Staff = {e1}
    Deputies = {e2}
    MaxActive = 1
    MaxFailures = 2
    MaxRequests = 4
    NewStatuses = {"ACTIVE", "LOCKED"}
    Ops = {"login", "refresh", "work", "logout", "logout_all", "change_password", "status", "permissions", "role", "reset", "approve", "reject", "create", "revoke_session", "signup", "script"}
SYMMETRY Symmetry
CHECK_DEADLOCK FALSE
INVARIANTS
    TypeOK
    SessionLimit
    RefreshOnce
    ManagerRemains
PROPERTIES
    RevokedIsFinal
    StaleTokenRefused
