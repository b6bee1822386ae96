CONSTANTS
    Users = {root, user1}
    Root = root
    root = root
    user1 = user1
    n1 = n1
    n2 = n2
    Names = {n1, n2}
    NoName = NoName
    FirstName <- MCFirstName
    Managed = {user1}
    Protected = {user1}
    Forgetful = {}
    MaxCodes = 0
    MaxTokens = 2
    MaxTokenVersion = 2
SPECIFICATION Spec
INVARIANT StatusFits
