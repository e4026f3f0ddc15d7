------------------------------ MODULE Checkout ------------------------------
(***************************************************************************)
(* A customer's way to an order (checkout.service.js, order.service.js):   *)
(* POST /checkout/quote prices a cart, the customer agrees to the total,   *)
(* and POST /orders prices it again from scratch, compares, takes a number *)
(* and stores the order.  Every read is a request to the database of its   *)
(* own, and staff edits of Catalogue run between any two of them.          *)
(*                                                                         *)
(* Where a delivery may go is a constant here: Reach[place] lists the      *)
(* branches that reach a place, quickest first (module Wayfinding says how *)
(* that list comes about), and the branch is within its hours at `now'     *)
(* (module BusinessHours).                                                 *)
(***************************************************************************)
EXTENDS Catalogue, Pricing

CONSTANTS Requests,    \* the customers' checkouts
          CartRequests,\* CartRequests[r]: what r may ask for,
                       \* [fulfilment, at, items, contact, verified]
          Reach,       \* Reach[place]: branches reaching it, quickest first
          Offers,      \* Offers[b]: the fulfilments of branch b
          BoxEligible, \* products that may go in a box
          TaxRate,     \* TaxRate[p]: taxRatePercent of product p
          TaxIncluded, \* TaxIncluded[p]: priceIncludesTax of product p
          LastDay,     \* bound on the dates
          NoBranch, NoMenu, NoNumber

\* $geoNear names a branch once; boxes and single products are the only items.
ASSUME CustomersAssumption ==
    /\ LastDay \in Nat \ {0} /\ NoBranch \notin Branches /\ NoNumber \notin Nat \X Nat
    /\ TaxRate \in [Products -> Nat] /\ TaxIncluded \in [Products -> BOOLEAN]
    /\ \A r \in Requests : \A ask \in CartRequests[r] :
        /\ IF ask.fulfilment = "delivery"
           THEN /\ Reach[ask.at] \in Seq(Branches)
                /\ \A i, j \in DOMAIN Reach[ask.at] :
                    Reach[ask.at][i] = Reach[ask.at][j] => i = j
           ELSE ask.fulfilment = "pickup" /\ ask.at \in Branches
        /\ DOMAIN ask.items = 1..Len(ask.items) /\ Len(ask.items) \in Nat
        /\ \A i \in DOMAIN ask.items : LET item == ask.items[i] IN
            \/ item.kind = "product" /\ item.productId \in Products /\ item.qty \in Nat
            \/ item.kind = "box" /\ item.productIds \in Seq(Products)

VARIABLES
    today,     \* the business date, as the last order that read it saw it
    checkout,  \* checkout[r]: one customer's request
    counter,   \* counter[day]: the Counter document order:<day>
    orders,    \* the stored orders
    heldSince  \* heldSince[r][d]: values d held since r's POST /orders began (history)

customerVars == <<today, checkout, counter, orders, heldSince>>
vars == <<catalogueVars, customerVars>>

Days == 1..LastDay

NoPrice == Refusal("not priced")

FreshCheckout ==
    [pc |-> "idle", phase |-> "quote", ask |-> NoRequest, now |-> 0, branch |-> NoBranch,
     accepts |-> FALSE, menu |-> NoMenu, priced |-> NoPrice, expected |-> 0,
     number |-> NoNumber]

CustomerInit ==
    /\ today = 1
    /\ checkout = [r \in Requests |-> FreshCheckout]
    /\ counter = [d \in Days |-> 0]
    /\ orders = {}
    /\ heldSince = [r \in Requests |-> [d \in Docs |-> {}]]

Init == CatalogueInit /\ CustomerInit

\* Every step that may change a document adds its new value to the history
\* of the orders being placed.
Remember ==
    heldSince' = [r \in Requests |->
        IF checkout[r].phase = "order" /\ checkout[r].pc \in {"branch", "products", "stock"}
        THEN [d \in Docs |-> heldSince[r][d] \cup {value'[d]}]
        ELSE heldSince[r]]

Staff == CatalogueNext /\ Remember /\ UNCHANGED <<today, checkout, counter, orders>>

-----------------------------------------------------------------------------
Become(r, new) == checkout' = [checkout EXCEPT ![r] = Merged(@, new)]

Refusals == {"EMAIL_MISMATCH", "OUTSIDE_DELIVERY_AREA", "NOT_FOUND", "PRICE_CHANGED",
             "FULFILMENT_UNAVAILABLE", "BRANCH_NOT_ACCEPTING_ORDERS", "INVALID_BOX",
             "ITEMS_UNAVAILABLE", "MINIMUM_ORDER_NOT_MET", "INTERNAL"}

\* A thrown ApiError: nothing has been written, and the request is answered.
\* A failed read ends the same way with a 500.
Answer(r, code) ==
    /\ code \in Refusals
    /\ checkout' = [checkout EXCEPT ![r] = [FreshCheckout EXCEPT !.pc = "refused"]]
    /\ heldSince' = [heldSince EXCEPT ![r] = [d \in Docs |-> {}]]

Quote(r) ==
    /\ checkout[r].pc = "idle"
    /\ \E ask \in CartRequests[r] :
        Become(r, [pc |-> "branch", ask |-> ask])
    /\ UNCHANGED <<catalogueVars, today, counter, orders, heldSince>>

\* create, up to its first read: the order must name the verified address.
\* The date is read here and nowhere else, so midnights pass here.
PlaceOrder(r) ==
    /\ checkout[r].pc = "quoted"
    /\ IF checkout[r].ask.contact # checkout[r].ask.verified
       THEN Answer(r, "EMAIL_MISMATCH") /\ UNCHANGED today
       ELSE /\ today' \in today..LastDay
            /\ Become(r, [pc |-> "branch", phase |-> "order", now |-> today'])
            /\ heldSince' = [heldSince EXCEPT ![r] = [d \in Docs |-> {value[d]}]]
    /\ UNCHANGED <<catalogueVars, counter, orders>>

\* Mutated: a paused shop is passed over.
OpenCandidates(place) ==
    { i \in DOMAIN Reach[place] : LET b == Reach[place][i] IN
        /\ value[<<"branch", b>>].isActive /\ value[<<"branch", b>>].acceptingOrders
        /\ "delivery" \in Offers[b] }

\* $geoNear's query, as places in the list: active and delivering; whether a
\* branch accepts is not asked.
Candidates(place) ==
    { i \in DOMAIN Reach[place] : LET b == Reach[place][i] IN
        value[<<"branch", b>>].isActive /\ "delivery" \in Offers[b] }

\* resolveBranch: the quickest in reach, or the shop the customer named.
Resolved(ask) ==
    IF ask.fulfilment = "delivery"
    THEN IF Candidates(ask.at) = {} THEN NoBranch
         ELSE Reach[ask.at][Min(Candidates(ask.at))]
    ELSE IF value[<<"branch", ask.at>>].isActive THEN ask.at ELSE NoBranch

ReadBranch(r) ==
    LET branch == Resolved(checkout[r].ask) IN
    /\ checkout[r].pc = "branch"
    /\ IF branch = NoBranch
       THEN Answer(r, IF checkout[r].ask.fulfilment = "delivery"
                      THEN "OUTSIDE_DELIVERY_AREA" ELSE "NOT_FOUND")
       ELSE /\ Become(r, [pc |-> "products", branch |-> branch,
                          accepts |-> value[<<"branch", branch>>].acceptingOrders])
            /\ UNCHANGED heldSince
    /\ UNCHANGED <<catalogueVars, today, counter, orders>>

ReferencedProductIds(items) == UNION { Wanted(item) : item \in ToSet(items) }

\* Mutated: discontinued products are found too.
MenuOfAll(items) ==
    [p \in ReferencedProductIds(items) |->
        [price |-> value[<<"product", p>>].price, boxEligible |-> p \in BoxEligible,
         taxRate |-> TaxRate[p], taxIncluded |-> TaxIncluded[p]]]

\* Product.find of the cart's products that are active.
MenuNow(items) ==
    [p \in { q \in ReferencedProductIds(items) : value[<<"product", q>>].isActive } |->
        [price |-> value[<<"product", p>>].price, boxEligible |-> p \in BoxEligible,
         taxRate |-> TaxRate[p], taxIncluded |-> TaxIncluded[p]]]

ReadProducts(r) ==
    /\ checkout[r].pc = "products"
    /\ Become(r, [pc |-> "stock", menu |-> MenuNow(checkout[r].ask.items)])
    /\ UNCHANGED <<catalogueVars, today, counter, orders, heldSince>>

Acceptance(r) ==
    IF checkout[r].ask.fulfilment \notin Offers[checkout[r].branch]
    THEN "FULFILMENT_UNAVAILABLE"
    ELSE IF checkout[r].accepts THEN "OK" ELSE "BRANCH_NOT_ACCEPTING_ORDERS"

StockedNow(b, menu) == { p \in DOMAIN menu : value[<<"stock", b, p>>].inStock }

PricedNow(r) ==
    PriceCart(checkout[r].ask.items, checkout[r].ask.fulfilment, Acceptance(r),
              checkout[r].menu, StockedNow(checkout[r].branch, checkout[r].menu))

\* Mutated: the quote is not compared.
AnyTotal(priced, expected) == priced.totals.grandTotal >= 0

AssertQuoteStillHolds(priced, expected) == priced.totals.grandTotal = expected

\* The last read and, in the same turn of the event loop, priceCart.  A quote
\* is shown to the customer; an order goes on if it costs what they agreed to.
ReadStock(r) ==
    LET priced == PricedNow(r) IN
    /\ checkout[r].pc = "stock"
    /\ IF priced.code # "OK" THEN Answer(r, priced.code)
       ELSE IF checkout[r].phase = "quote"
            THEN /\ Become(r, [pc |-> "quoted", expected |-> priced.totals.grandTotal,
                               branch |-> NoBranch, menu |-> NoMenu, accepts |-> FALSE])
                 /\ UNCHANGED heldSince
       ELSE IF AssertQuoteStillHolds(priced, checkout[r].expected)
            THEN /\ Become(r, [pc |-> "agreed", priced |-> priced, menu |-> NoMenu,
                               accepts |-> FALSE])
                 /\ UNCHANGED heldSince
       ELSE Answer(r, "PRICE_CHANGED")
    /\ UNCHANGED <<catalogueVars, today, counter, orders>>

ReadFails(r) ==
    /\ checkout[r].pc \in {"branch", "products", "stock"}
    /\ Answer(r, "INTERNAL")
    /\ UNCHANGED <<catalogueVars, today, counter, orders>>

\* Mutated: numbered by the orders stored so far.
CountOrders(r) ==
    LET day == checkout[r].now IN
    /\ checkout[r].pc = "agreed"
    /\ counter' = [counter EXCEPT ![day] = @ + 1]
    /\ Become(r, [pc |-> "numbered",
                  number |-> <<day, Cardinality({ o \in orders : o.number[1] = day }) + 1>>])
    /\ UNCHANGED <<catalogueVars, today, orders, heldSince>>

\* Counter.next: one atomic increment of the document of the request's day.
NextOrderNumber(r) ==
    LET day == checkout[r].now IN
    /\ checkout[r].pc = "agreed"
    /\ counter' = [counter EXCEPT ![day] = @ + 1]
    /\ Become(r, [pc |-> "numbered", number |-> <<day, counter[day] + 1>>])
    /\ UNCHANGED <<catalogueVars, today, orders, heldSince>>

\* Its call throws: the request is answered with a 500, and whether the counter
\* went up nobody tells it (number, once failed, is history).
CounterFails(r) ==
    LET day == checkout[r].now IN
    /\ checkout[r].pc = "agreed"
    /\ \/ Answer(r, "INTERNAL") /\ UNCHANGED counter
       \/ /\ counter' = [counter EXCEPT ![day] = @ + 1]
          /\ checkout' = [checkout EXCEPT ![r] = [FreshCheckout EXCEPT
                !.pc = "failed", !.now = day, !.number = <<day, counter[day] + 1>>]]
          /\ heldSince' = [heldSince EXCEPT ![r] = [d \in Docs |-> {}]]
    /\ UNCHANGED <<catalogueVars, today, orders>>

OrderOf(r) ==
    [by |-> r, number |-> checkout[r].number, branch |-> checkout[r].branch,
     fulfilment |-> checkout[r].ask.fulfilment, items |-> checkout[r].priced.lines,
     totals |-> checkout[r].priced.totals]

\* Order.create.  What follows it is told, not asked, and is OrderLifecycle's.
StoreOrder(r) ==
    /\ checkout[r].pc = "numbered"
    /\ orders' = orders \cup {OrderOf(r)}
    /\ Become(r, [pc |-> "placed"])
    /\ UNCHANGED <<catalogueVars, today, counter, heldSince>>

\* The insert is refused or the process ends first: the number stays taken.
StoreFails(r) ==
    /\ checkout[r].pc = "numbered"
    /\ checkout' = [checkout EXCEPT ![r] = [FreshCheckout EXCEPT
            !.pc = "failed", !.now = checkout[r].now, !.number = checkout[r].number]]
    /\ heldSince' = [heldSince EXCEPT ![r] = [d \in Docs |-> {}]]
    /\ UNCHANGED <<catalogueVars, today, counter, orders>>

CheckoutStep(r) ==
    \/ Quote(r) \/ PlaceOrder(r)
    \/ ReadBranch(r) \/ ReadProducts(r) \/ ReadStock(r) \/ ReadFails(r)
    \/ NextOrderNumber(r) \/ CounterFails(r) \/ StoreOrder(r) \/ StoreFails(r)

Next == Staff \/ \E r \in Requests : CheckoutStep(r)

Spec == Init /\ [][Next]_vars

-----------------------------------------------------------------------------
CheckoutPCs == {"idle", "branch", "products", "stock", "quoted", "agreed", "numbered",
                "placed", "failed", "refused"}

TypeOK ==
    /\ CatalogueTypeOK
    /\ today \in Days
    /\ counter \in [Days -> Nat]
    /\ \A r \in Requests :
        /\ checkout[r].pc \in CheckoutPCs
        /\ checkout[r].phase \in {"quote", "order"}
        /\ checkout[r].branch \in Branches \cup {NoBranch}
        /\ checkout[r].pc \notin {"idle", "refused", "failed"} => checkout[r].ask \in CartRequests[r]
        /\ checkout[r].phase = "order" => checkout[r].now \in Days
        /\ checkout[r].expected \in Nat
    /\ \A o \in orders : o.by \in Requests /\ o.branch \in Branches

\* The product and unit price pairs of an order, boxes opened.
Sold(o) == UNION { ToSet(o.items[i].contents) : i \in DOMAIN o.items }

(* Every fact an order rests on was true at some moment after the customer *)
(* pressed the button: the branch open to orders, each product on the menu *)
(* at exactly the price charged, and in stock at that branch -- nothing is *)
(* carried over from the quote (order.service.js:1-9).                     *)
OrderFactsHeld ==
    \A o \in orders : LET held == heldSince[o.by] IN
        /\ \E v \in held[<<"branch", o.branch>>] : v.isActive /\ v.acceptingOrders
        /\ \A line \in Sold(o) :
            /\ \E v \in held[<<"product", line.productId>>] :
                v.isActive /\ v.price = line.unitPrice
            /\ \E v \in held[<<"stock", o.branch, line.productId>>] : v.inStock

(* A delivery never lands at a branch while a quicker one in reach stayed  *)
(* open to the public: pausing a shop refuses its customers and does not   *)
(* hand them to a neighbour they did not choose (pricing.engine.js:73-82). *)
NoSilentHandOff ==
    \A o \in orders : o.fulfilment = "delivery" =>
        LET reach == Reach[checkout[o.by].ask.at]
            at    == CHOOSE i \in DOMAIN reach : reach[i] = o.branch
        IN  \A i \in 1..(at - 1) : "delivery" \in Offers[reach[i]] =>
                \E v \in heldSince[o.by][<<"branch", reach[i]>>] : ~v.isActive

\* The tax of an order can be reported line by line: what a line is charged
\* is its net or its gross amount, the tax is the whole difference and never
\* negative, the split is the rate's to within half a unit, and the order's own
\* tax is what lies between the sums of both.
TaxReconciles(items, totals) ==
    /\ \A i \in DOMAIN items : LET t == items[i].tax IN
        /\ t.net \in Nat /\ t.tax \in Nat /\ t.net + t.tax = t.gross
        /\ items[i].lineTotal \in {t.net, t.gross}
        /\ 2 * (100 * t.gross - (100 + t.rate) * t.net) \in -(100 + t.rate)..(100 + t.rate)
    /\ SumOf([i \in DOMAIN items |-> items[i].tax.net]) + totals.tax
         = SumOf([i \in DOMAIN items |-> items[i].tax.gross])

\* What an order charges for its items.
ChargedForItems(o) ==
    o.totals.grandTotal - (IF o.fulfilment = "delivery" THEN DeliveryFee ELSE 0)

(* An order costs what its customer was quoted and agreed to.  The tax of  *)
(* its lines reconciles at any rate, and where every price includes its    *)
(* tax the order costs what its own lines say was sold plus the delivery   *)
(* fee (pricing.engine.js:31-71).                                          *)
AgreedTotal ==
    \A o \in orders :
        /\ o.totals.grandTotal = checkout[o.by].expected
        /\ TaxReconciles(o.items, o.totals)
        /\ (\A i \in DOMAIN o.items : o.items[i].lineTotal = o.items[i].tax.gross) =>
             ChargedForItems(o) =
               SumOf([i \in DOMAIN o.items |->
                   o.items[i].qty * SumOf([j \in DOMAIN o.items[i].contents |->
                                              o.items[i].contents[j].unitPrice])])

(* "exclusive makes it ~Rs 353 at checkout": what a customer is charged    *)
(* for a product whose price is without its tax includes the tax           *)
(* (Product.js:113-117).                                                   *)
ExclusiveTaxIsCharged ==
    \A o \in orders :
        ChargedForItems(o) = SumOf([i \in DOMAIN o.items |-> o.items[i].tax.gross])

\* Who was given number n of day d.
HoldersOf(d, n) == { r \in Requests : checkout[r].number = <<d, n>> }

(* The order book of a day can be accounted for: every number up to the    *)
(* counter was given to exactly one request, of that day, that had agreed  *)
(* on its total; it is on that request's order and on no other; and a gap  *)
(* is an insert that failed or is under way or a number whose reply was    *)
(* lost, never a refused cart (order.service.js:24-40).                    *)
NumbersAccountedFor ==
    /\ \A d \in Days : \A n \in 1..counter[d] : \E r \in HoldersOf(d, n) :
        /\ HoldersOf(d, n) = {r}
        /\ checkout[r].now = d
        /\ checkout[r].pc \in {"numbered", "placed", "failed"}
    /\ \A o \in orders : /\ o.number = checkout[o.by].number
                         /\ o.number[1] \in Days
                         /\ o.number[2] \in 1..counter[o.number[1]]
                         /\ checkout[o.by].pc = "placed"
    /\ \A r \in Requests : checkout[r].pc = "placed" =>
        Cardinality({ o \in orders : o.by = r }) = 1
=============================================================================
