\* Quotes and orders of two customers while two staff edits go on.
SPECIFICATION Spec
CONSTANTS
    b1 = b1
    b2 = b2
    lotus = lotus
    cola = cola
    e1 = e1
    e2 = e2
    r1 = r1
    r2 = r2
    home = home
    ada = ada
    bob = bob
    Admin = Admin
    NoRequest = NoRequest
    NoBranch = NoBranch
    NoMenu = NoMenu
    NoNumber = NoNumber
    Branches = {b1, b2}
    Products = {lotus, cola}
    Edits = {e1, e2}
    Requests = {r1, r2}
    BoxEligible = {lotus}
    BoxSizes = {2}
    LastDay = 2
    MinOrderValue = 500
    DeliveryFee = 100
    EditRequests <- MCEditRequests
    CartRequests <- MCCartRequests
    MenuPrice <- MCMenuPrice
    TaxRate <- MCTaxRate
    TaxIncluded <- MCTaxIncluded
    Reach <- MCReach
    Offers <- MCOffers
INVARIANTS
    OrderFactsHeld
    NoSilentHandOff
    AgreedTotal
    NumbersAccountedFor
    TrailTellsState
CHECK_DEADLOCK FALSE
