\* An order for a product whose price is without its tax.
SPECIFICATION Spec
CONSTANTS
    b1 = b1
    b2 = b2
    lotus = lotus
    cola = cola
    e1 = e1
    e2 = e2
    r1 = r1
    r2 = r2
    home = home
    ada = ada
    bob = bob
    Admin = Admin
    NoRequest = NoRequest
    NoBranch = NoBranch
    NoMenu = NoMenu
    NoNumber = NoNumber
    Branches = {b1, b2}
    Products = {lotus, cola}
    Edits = {e1, e2}
    Requests = {r1, r2}
    BoxEligible = {lotus}
    BoxSizes = {2}
    LastDay = 2
    MinOrderValue = 500
    DeliveryFee = 100
    EditRequests <- MCEditRequests
    CartRequests <- MCCartRequests
    MenuPrice <- MCMenuPrice
    TaxRate <- MCTaxRate
    TaxIncluded <- MCTaxIncluded
    Reach <- MCReach
    Offers <- MCOffers
INVARIANTS
    ExclusiveTaxIsCharged
CHECK_DEADLOCK FALSE
