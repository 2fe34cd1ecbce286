SPECIFICATION Spec
CONSTANTS
    s1 = s1
    s2 = s2
    dept = dept
    all = all
    m1 = m1
    a1 = a1
    Staff = {m1}
    Items = {a1}
    Slots = {dept, all}
    Departments = {dept}
    Covers <- MCCovers
    Owner <- MCOwner
    Sessions = {s1, s2}
    Base = 1
    Earned = {1}
    Corrected = {2}
    MaxBatches = 2
    MaxLines = 2
SYMMETRY SessionsAlike
INVARIANTS TypeOK OneBatchPerSlot BooksAgree
PROPERTY PaidStays
CHECK_DEADLOCK FALSE
