\* Five rows, two of them vehicles, over the tables; one thing goes wrong.
SPECIFICATION Spec
CONSTANTS
    Users = {u1}
    Attempts = 2
    Window = 2
    NoUser = NoUser
    Plates = {p1}
    NoPlate = NoPlate
    Documents = {d1}
    MaxVehicles = 2
    MaxRows = 5
    MaxFaults = 1
INVARIANTS HalfSavedIsInert BookletsFollowPdf LockoutHolds
CHECK_DEADLOCK FALSE
