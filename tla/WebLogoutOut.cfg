SPECIFICATION Spec
CONSTANTS
    Calls = {c1, c2}
    Sessions = {a, b}
    MaxLogins = 2
    None = None
INVARIANTS
    LoggedOutStaysOut
