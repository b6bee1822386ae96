CONSTANTS
    Images = {i1}
    Products = {food}
    Pets = {cat}
    Categories = {k}
    NoCategory = NoCategory
    Idle = Idle
    Orders = {o1}
    ImageWorkers = 1
SPECIFICATION FairSpec
INVARIANTS
    MediaTypeOK
    LinkedIsServed
    PublishedHasImage
PROPERTIES
    PublishedUnderActive
    NothingLeaks
CHECK_DEADLOCK FALSE
