----------------------------- MODULE MCCheckout -----------------------------
(* Two branches in reach of one address, two products, two staff edits and *)
(* two customers.                                                          *)
EXTENDS Checkout, TLC

CONSTANTS b1, b2, lotus, cola, e1, e2, r1, r2, home, ada, bob

Edit(op, actor, doc, to) == [op |-> op, actor |-> actor, doc |-> doc, to |-> to]

\* Every pair of edits on one document, and every pair on two, is there.
MCEditRequests ==
    e1 :> { Edit("setStock", b1, <<"stock", b1, lotus>>, [inStock |-> FALSE]),
            Edit("updateBranch", b1, <<"branch", b1>>, [acceptingOrders |-> FALSE]),
            Edit("updateProduct", Admin, <<"product", lotus>>,
                 [isActive |-> TRUE, price |-> 350]) }
    @@ e2 :> { Edit("setStock", Admin, <<"stock", b1, lotus>>, [inStock |-> TRUE]),
               Edit("updateBranch", Admin, <<"branch", b1>>,
                    [isActive |-> FALSE, acceptingOrders |-> TRUE]),
               Edit("updateBranch", b2, <<"branch", b2>>, [isActive |-> FALSE]),
               Edit("discontinue", Admin, <<"product", lotus>>, [isActive |-> FALSE]) }

Product(p, n) == [kind |-> "product", productId |-> p, qty |-> n]
Box(ps) == [kind |-> "box", boxSize |-> 2, productIds |-> ps]

Cart(fulfilment, at, items, contact) ==
    [fulfilment |-> fulfilment, at |-> at, items |-> items, contact |-> contact,
     verified |-> ada]

MCCartRequests ==
    r1 :> { Cart("delivery", home, <<Box(<<lotus, lotus>>), Product(cola, 1)>>, ada),
            Cart("pickup", b1, <<Product(cola, 3)>>, bob) }
    @@ r2 :> { Cart("pickup", b1, <<Product(lotus, 1), Product(cola, 1)>>, ada) }

MCMenuPrice == (lotus :> 300) @@ (cola :> 250)
\* A price without its tax, and one that includes it.
MCTaxRate == (lotus :> 5) @@ (cola :> 18)
MCTaxIncluded == (lotus :> FALSE) @@ (cola :> TRUE)
MCReach == home :> <<b1, b2>>
MCOffers == [b \in Branches |-> {"delivery", "pickup"}]

=============================================================================
