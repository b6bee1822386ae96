SPECIFICATION Spec
CONSTANTS
    Users = {root}
    Admins = {root}
    Profiled = {root}
    NoUser = NoUser
    Orders = {o1}
    NoOrder = NoOrder
    Migrated = {}
    PaymentKeys = {k1}
    Products = {food}
    Pets = {cat}
    NoPet = NoPet
    Prices = {10, 20}
    NoPrice = NoPrice
    Kinds = {"LEGACY", "MIXED"}
    MaxQuantity = 2
    MaxStock = 3
    MaxCartVersion = 3
    Stocks = {2}
    StockLevels = {0, 2}
    Targets = {"DRAFT", "PUBLISHED", "ARCHIVED"}
    Repriced = {food, cat}
    PetStatuses = {"available", "sold"}
PROPERTIES
    PlacedIsCart
