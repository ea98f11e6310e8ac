SPECIFICATION Spec
CONSTANTS
    Codes = {d1,d2}
    UserCodes = {u1,u2}
    SignIns = {s1,s2}
    Polls = {q1,q2}
    None = None
    d1 = d1
    d2 = d2
    u1 = u1
    u2 = u2
    s1 = s1
    s2 = s2
    q1 = q1
    q2 = q2
SYMMETRY Interchangeable
INVARIANTS TypeOK IssuesCovered OwnSignIn
