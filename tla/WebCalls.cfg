\* Two logins, one sent at a time, and three calls that can be refused at the
\* same time.
SPECIFICATION FairSpec
CONSTANTS
    Calls = {c1, c2, c3}
    Sessions = {a, b}
    MaxLogins = 1
    None = None
INVARIANTS
    SingleFlight
    RefreshTokenStaysOut
PROPERTIES
    EveryCallSettles
    CallsMoveForward
