SPECIFICATION Spec
CONSTANTS
    Packages = {"a", "s"}
    NoPackage = "none"
    Submitted = {"s"}
    Names = {"n", "m"}
    NoName = "none"
    NamesOf <- MCNamesOf
    IsDir = TRUE
    Methods = {"poll", "inotify"}
    Clients = {c1}
    MaxDeliveries = 1
    MaxRestarts = 2
CHECK_DEADLOCK FALSE
INVARIANT SubmittedIsFound
