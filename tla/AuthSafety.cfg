\* Two accounts of one email and two sessions, over two seconds.
SPECIFICATION Spec
CONSTANTS
    Slots = {s1, s2}
    Users = {u1, u2}
    Emails = {e1}
    Roles = {admin}
    Admin = admin
    Employee = admin
    Nobody = Nobody
    NoEmail = NoEmail
    NoRole = NoRole
    NoToken = NoToken
    AccessTTL = 1
    RefreshTTL = 2
    Latency = 1
    MaxClock = 1
    MaxSessions = 2
SYMMETRY Symmetry
INVARIANTS
    LogoutIsFinal
    DeletedCannotSignIn
    LiveEmailsUnique
PROPERTIES
    RevocationIsFinal
    SessionsAreSeparate
    ImplementsService
CHECK_DEADLOCK FALSE
