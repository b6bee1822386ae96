SPECIFICATION Spec
CONSTANTS
    Slots = {a, b}
    MaxFailures = 2
    LoginWindow = 2
    MaxBatches = 1
    BatchWindow = 2
    MaxClock = 3
    s1 = s1
    s2 = s2
    f1 = f1
    Streets = {s1, s2}
    Flats = {f1}
    Null = Null
    Deliveries = {o1}
    Undefined = Undefined
    ProductCommands <- SomeProducts
    PetCommands <- SomePets
    TagIds = {1}
    Historical <- OldTag
    JsonLimit = 1
    UploadLimit = 2
    Chunks = {1, 2}
    Sent <- SomeProfiles
    Kinds = {"login", "reset", "events", "profile", "order", "product", "pet", "upload"}
    MaxRequests = 4
SYMMETRY SlotSymmetry
INVARIANTS
    LimitsHold
    DeliveryIsOneAddress
    CardsStayValid
CHECK_DEADLOCK FALSE
