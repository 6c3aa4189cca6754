\* The web, with phones and without; one change of an account at a time.
CONSTANTS
    Logins = {x, y}
    Browsers = {b}
    Phones = {p}
    Editors = {e}
    Offered = {"CTT_USER", "CTT_ADMIN"}
    None = None
    Overlap = FALSE
    MaxUsers = 2
    MaxAsks = 2
SPECIFICATION Spec
PROPERTIES
    OneRoleAtATime
    RemovedForGood
CHECK_DEADLOCK FALSE
