SPECIFICATION Spec
CONSTANTS
    People = {ann, bob}
    Requests = {r1, r2}
    Systems = {"none", "email", "jira", "slack", "_mock_"}
    MaxAttempts = 3
    Nobody = Nobody
SYMMETRY Symmetry
CHECK_DEADLOCK FALSE
INVARIANTS
    RequestsHaveTheirTickets
    AttemptsLeaveNoMess
PROPERTIES
    AssigneeWasTheOwner
