SPECIFICATION Spec
CONSTANTS
    Users = {root}
    Admins = {root}
    Profiled = {root}
    NoUser = NoUser
    Orders = {o1, o2}
    NoOrder = NoOrder
    Migrated = {}
    PaymentKeys = {k1}
    Products = {}
    Pets = {cat}
    NoPet = NoPet
    Prices = {10}
    NoPrice = NoPrice
    Kinds = {"LEGACY"}
    MaxQuantity = 1
    MaxStock = 3
    MaxCartVersion = 2
    Stocks = {2}
    StockLevels = {1, 3}
    Targets = {}
    Repriced = {}
    PetStatuses = {"available", "sold"}
PROPERTIES
    VersionGrows
