CONSTANTS
    MaxObjects = 6
    Programs <- AllPrograms
    Orders <- AllOrders
SPECIFICATION Spec
CONSTRAINT LongestInOrder
INVARIANTS
    UsesLiveObjects
    SpansDelivered
    ExitFinishes
