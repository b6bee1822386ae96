SPECIFICATION FairSpec
CONSTANTS
    Users = {root}
    Admins = {root}
    Profiled = {root}
    NoUser = NoUser
    Orders = {o1, o2}
    NoOrder = NoOrder
    Migrated = {o1}
    PaymentKeys = {k1}
    Products = {food}
    Pets = {cat, dog}
    NoPet = NoPet
    Prices = {10}
    NoPrice = NoPrice
    Kinds = {"LEGACY", "MIXED"}
    MaxQuantity = 1
    MaxStock = 3
    MaxCartVersion = 2
    Stocks = {2}
    StockLevels = {1, 3}
    Targets = {}
    Repriced = {}
    PetStatuses = {"available", "sold"}
INVARIANTS
    EndingsNeverFail
    PetHeldOnce
    PetReservedIffHeld
PROPERTIES
    DeadlineDecides
    RefundIsCancellation
    WarehouseSpec
    ReservationEnds
