SPECIFICATION Spec
CONSTANTS
    Client = {t1, t2}
    Email = {e1, e2}
    Password = {p1, p2}
    UserId = {u1, u2}
    None = None
SYMMETRY Symmetry
INVARIANT RegistrationsAgree
 
 
INVARIANT CallsRunAsSignedIn
