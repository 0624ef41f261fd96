\* One administrator, who may demote or delete himself, and the clock running
\* past the last moment at which a token from before could still be good.
SPECIFICATION Spec
CONSTANTS
    Slots = {s1, s2}
    Users = {u1}
    Emails = {e1}
    Roles = {admin, employee}
    Admin = admin
    Employee = employee
    Nobody = Nobody
    NoEmail = NoEmail
    NoRole = NoRole
    NoToken = NoToken
    AccessTTL = 1
    RefreshTTL = 2
    Latency = 1
    MaxClock = 4
    MaxSessions = 1
SYMMETRY Symmetry
CONSTRAINT OneAccount
INVARIANTS
    AuthorityExpires
CHECK_DEADLOCK FALSE
