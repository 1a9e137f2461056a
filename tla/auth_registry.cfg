\* Two servers that may be restarted; a login can meet two registrations.
SPECIFICATION Spec
CONSTANTS
    Requests = {r1, r2, r3}
    Servers = {s1, s2}
    Addresses = {mail}
    Inputs = {typed, garbage}
    Norm <- Spelling
    Passwords = {p1, p2}
    TooLong = {}
    None = None
    Restarts = TRUE
    typed = typed
    shouted = shouted
    garbage = garbage
    mail = mail
INVARIANT TypeOK
INVARIANT UserCurrent
PROPERTY AccountsImplemented
SYMMETRY Symmetry
\* Every request is answered in the end.
CHECK_DEADLOCK FALSE
