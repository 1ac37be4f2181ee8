SPECIFICATION Spec
CONSTANTS
    People = {ann}
    Requests = {r1}
    Systems = {"email", "jira"}
    MaxAttempts = 2
    Nobody = Nobody
CHECK_DEADLOCK FALSE
PROPERTIES
    MailTicketsAreSent
