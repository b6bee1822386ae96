CONSTANTS
    c1 = c1
    c2 = c2
    c3 = c3
    Connections = {c1, c2, c3}
    Width = 5
    Keys = {1}
    Users = {1}
    Drafts = {1}
    Placed = {2, 3, 4}
    Legacy = {4}
    Pets = {1}
    Products = {3}
    Categories = {1}
    Images = {1}
    Owner <- MCOwner
    Basket <- LentBasket
    Serves <- LentServes
SPECIFICATION FairSpec
INVARIANTS
    DeadlocksAreKnown
PROPERTIES
    TransactionsEnd
