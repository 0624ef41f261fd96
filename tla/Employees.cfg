\* One user, two employee ids, two salary codes; two requests at a time.
SPECIFICATION EmployeesSpec
CONSTANTS
    Slots = {s1, s2}
    Users = {u1}
    EmpIds = {e1, e2}
    CodeIds = {c1, c2}
    Names = {n1, n2}
    Attempts = 2
    Absent = Absent
    Gone = Gone
    None = None
    Blank = Blank
SYMMETRY MCSymmetry
INVARIANTS
    EmployeesTypeOK
    OneEmployeePerUser
    CodeOfEmployeeExists
    CodesAreUnique
    RowsAreTheServers
PROPERTIES
    DraftSurvivesFailure
