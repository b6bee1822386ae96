SPECIFICATION Spec
CONSTANTS
    Users = {alice, root}
    Admins = {root}
    Profiled = {alice, root}
    NoUser = NoUser
    Orders = {o1, o2}
    NoOrder = NoOrder
    Migrated = {}
    PaymentKeys = {k1, k2}
    Products = {food}
    Pets = {cat}
    NoPet = NoPet
    Prices = {10}
    NoPrice = NoPrice
    Kinds = {"MIXED"}
    MaxQuantity = 2
    MaxStock = 3
    MaxCartVersion = 3
    Stocks = {2}
    StockLevels = {1, 3}
    Targets = {}
    Repriced = {}
    PetStatuses = {}
SYMMETRY PaymentSymmetry
INVARIANTS
    TypeOK
    OrdersAgree
    ReservedIsSumOfLines
    PaymentsAgree
    DraftMirrorsCart
PROPERTIES
    MixedVersionGrows
