SPECIFICATION Spec
CONSTANTS
    Users = {u1, u2}
    SessionIds = {s1}
    Requests = {r1, r2}
    Served <- Kinds
    NoUser = NoUser
    NoRow = NoRow
    NoSession = NoSession
SYMMETRY Symmetric
PROPERTY AdminsDecide
