------------------------------- MODULE Pricing -------------------------------
(***************************************************************************)
(* The pricing engine of src/services/pricing.engine.js: a cart, the menu  *)
(* and the stock a caller has already read become totals or a refusal.     *)
(* Amounts are whole stored units (paisa).  A menu is a function from the  *)
(* products that were found active to what the engine reads of them;       *)
(* `stocked' is the set of products isInStock answers true for.            *)
(***************************************************************************)
EXTENDS Sums, SequencesExt

CONSTANTS MinOrderValue, DeliveryFee, BoxSizes

ASSUME PricingAssumption ==
    /\ MinOrderValue \in Nat
    /\ DeliveryFee \in Nat
    /\ BoxSizes \subseteq Nat \ {0}

\* Math.round of a non-negative fraction: halves go up.
Rounded(n, d) == (2 * n + d) \div (2 * d)

\* The tax is always the difference of the other two.
TaxBreakdown(amount, rate, included) ==
    LET net   == IF included THEN Rounded(100 * amount, 100 + rate) ELSE amount
        gross == IF included THEN amount ELSE Rounded(amount * (100 + rate), 100)
    IN  [net |-> net, rate |-> rate, tax |-> gross - net, gross |-> gross]

Wanted(item) == IF item.kind = "box" THEN ToSet(item.productIds) ELSE {item.productId}

\* What is wrong with one product of a line, the first check that fails.
Problem(p, boxed, menu, stocked) ==
    IF p \notin DOMAIN menu THEN "unavailable"
    ELSE IF boxed /\ ~menu[p].boxEligible THEN "notBoxEligible"
    ELSE IF p \notin stocked THEN "outOfStock"
    ELSE "none"

Problems(items, menu, stocked) ==
    { found \in UNION { { <<Problem(p, item.kind = "box", menu, stocked), p>> :
                             p \in Wanted(item) } : item \in ToSet(items) } :
        found[1] # "none" }

BoxIsWellFormed(item) ==
    item.boxSize \in BoxSizes /\ Len(item.productIds) = item.boxSize

ProductLine(item, menu) ==
    LET product == menu[item.productId]
        total   == product.price * item.qty
    IN  [kind |-> "product", qty |-> item.qty, lineTotal |-> total,
         contents |-> <<[productId |-> item.productId, unitPrice |-> product.price]>>,
         tax |-> TaxBreakdown(total, product.taxRate, product.taxIncluded)]

\* A box is the plain sum of its contents, and is taxed at 0%.
BoxLine(item, menu) ==
    LET children == [i \in DOMAIN item.productIds |->
                        [productId |-> item.productIds[i],
                         unitPrice |-> menu[item.productIds[i]].price]]
        total    == SumOf([i \in DOMAIN children |-> children[i].unitPrice])
    IN  [kind |-> "box", qty |-> 1, lineTotal |-> total, contents |-> children,
         tax |-> TaxBreakdown(total, 0, TRUE)]

Line(item, menu) ==
    IF item.kind = "box" THEN BoxLine(item, menu) ELSE ProductLine(item, menu)

Totals(lines, fulfilment) ==
    LET subtotal == SumOf([i \in DOMAIN lines |-> lines[i].lineTotal])
        fee      == IF fulfilment = "delivery" THEN DeliveryFee ELSE 0
    IN  [subtotal |-> subtotal, deliveryFee |-> fee,
         tax |-> SumOf([i \in DOMAIN lines |-> lines[i].tax.tax]),
         grandTotal |-> subtotal + fee]

Refusal(code) == [code |-> code]

(* priceCart: the branch's answer first, then the shape of the boxes, then *)
(* everything wrong with the cart at once, and the minimum last.           *)
PriceCart(items, fulfilment, acceptance, menu, stocked) ==
    IF acceptance # "OK" THEN Refusal(acceptance)
    ELSE IF \E item \in ToSet(items) : item.kind = "box" /\ ~BoxIsWellFormed(item)
         THEN Refusal("INVALID_BOX")
    ELSE IF Problems(items, menu, stocked) # {} THEN Refusal("ITEMS_UNAVAILABLE")
    ELSE LET lines  == [i \in DOMAIN items |-> Line(items[i], menu)]
             totals == Totals(lines, fulfilment)
         IN  IF totals.subtotal < MinOrderValue
             THEN Refusal("MINIMUM_ORDER_NOT_MET")
             ELSE [code |-> "OK", lines |-> lines, totals |-> totals]
=============================================================================
