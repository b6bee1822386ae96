CONSTANTS
    Users = {root, ann, bea}
    Root = root
    root = root
    ann = ann
    bea = bea
    n1 = n1
    n2 = n2
    Names = {n1, n2}
    NoName = NoName
    FirstName <- MCFirstName
    Managed = {root, ann}
    Protected = {}
    Forgetful = {ann}
    MaxCodes = 2
    MaxTokens = 2
    MaxTokenVersion = 2
SPECIFICATION Spec
INVARIANTS
    AccountsTypeOK
    AdminRemains
    ResetsInOrder
    OnlyConfirmedAct
PROPERTIES
    SessionsNeverReturn
CHECK_DEADLOCK FALSE
