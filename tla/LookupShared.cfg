\* Three requests, two users, and an id of nobody.
SPECIFICATION Spec
CONSTANTS
    Requests = {r1, r2, r3}
    Ids = {u1, u2, u0}
    Live = {u1, u2}
    BadId = BadId
    Nothing = Nothing
SYMMETRY Symmetry
INVARIANTS
    AnswerIsOwnOrRivals
