SPECIFICATION Spec
CONSTANTS
    Price = {80, 200, 400}
    Reserve = {50, 100}
    Supply = {100, 110}
    Mints <- MCMints
    Bag = 4
    Confirm = 2
    Tightness = 20
    LiquidityDrop = 40
    ActiveMintDrop = 20
    SupplyGrowth = 5
    QuoteCollapse = 20
    MaxSlot = 1
    MaxBuys = 1
    MaxFaults = 1
INVARIANTS
    PositionTypeOK
    StopExact
    ScaleOutsBounded
PROPERTIES
    DisposeAfterCrossing
    FloorRatchets
