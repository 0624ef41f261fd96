SPECIFICATION Spec
CONSTANTS
    Requests = {r1, r2}
    Ids = {u1, u2, u0}
    Live = {u1, u2}
    BadId = BadId
    Nothing = Nothing
SYMMETRY Symmetry
INVARIANTS
    MeIsMe
