CONSTANTS
    product = product
    pet = pet
    Instances = {a, b}
    NoInstance = NoInstance
    Entries = {product, pet}
    Pets = {pet}
    Package <- TwoCards
    Ids = {i1, i2, i3, i4}
    NoId = NoId
SPECIFICATION Spec
SYMMETRY Alike
INVARIANTS
    SeededOnce
    CardsKeepTheirFiles
    CompletedIsWhole
CHECK_DEADLOCK FALSE
