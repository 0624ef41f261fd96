SPECIFICATION Spec
CONSTANTS
    U = U
    UE = UE
    C = C
    m1 = m1
    AllUsers = U
    EmployeeUsers = UE
    AllCodes = C
    FiftyCodes = C
    UserFilters <- MCUserFilters
    CodeFilters <- MCCodeFilters
    Mutations <- MCMutations
    MaxRevision <- MCMaxRevision
INVARIANTS
    TypeOK
    ListsCatchUp
    UsersListedToAdmins
