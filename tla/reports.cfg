CONSTANT TaskLists <- MCTaskLists
SPECIFICATION Spec
INVARIANTS
    TypeOK
    ReportsAreOwn
    LossReportIsDefault
    DefaultUntilBack
