\* The same instance as in Screens.cfg.
SPECIFICATION AppSpec
CONSTANTS
    None = None
    pr1 = pr1
    pr4 = pr4
    new = new
    po3 = po3
    po4 = po4
    po5 = po5
    june = june
    july = july
    Batch = Batch
    Requests <- Rows
    MockPending = {pr1}
    MockApproved = {}
    MockRejected = {pr4}
    Payouts <- Sheet
    Periods = {june, july}
    MockStatus <- StatusOf
    PeriodOf <- Months
    Typed = {4, 12}
    MockTopups <- Listed
    MaxTopups = 2
INVARIANTS
    ReviewedByCeo
