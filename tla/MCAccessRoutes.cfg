SPECIFICATION Spec
CONSTANTS
    Users = {u1}
    SessionIds = {s1}
    Requests = {r1}
    Served = {"applyCreator"}
    NoUser = NoUser
    NoRow = NoRow
    NoSession = NoSession
INVARIANT HandlersDoNotThrow
