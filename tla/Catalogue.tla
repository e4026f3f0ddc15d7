------------------------------ MODULE Catalogue ------------------------------
(***************************************************************************)
(* What the shops sell and whether they sell it, as staff edit it: the     *)
(* stock toggles (stock.service.js), a branch's two switches               *)
(* (staffBranch.service.js) and a product's price and place on the menu    *)
(* (staffProduct.service.js), each with the audit row it leaves.           *)
(*                                                                         *)
(* A document is <<"branch", b>>, <<"product", p>> or <<"stock", b, p>>;   *)
(* value[d] holds the fields the edits and the checkout read.  A stock row *)
(* that does not exist reads as in stock everywhere, so it is not told     *)
(* apart from one that says so.                                            *)
(*                                                                         *)
(* An edit reads its document, works out in memory what changes, writes,   *)
(* and records; other requests run between any two of these steps.         *)
(***************************************************************************)
EXTENDS Integers, Sequences, FiniteSets

CONSTANTS Branches, Products, Edits,
          EditRequests,   \* EditRequests[e]: what staff may send, [op, actor, doc, to]
          MenuPrice,      \* MenuPrice[p]: the price the catalogue starts with
          Admin, NoRequest

VARIABLES
    value,      \* value[d]: the stored fields of document d
    edit,       \* edit[e]: one staff request, [pc, ask, seen]
    trail,      \* the audit rows, in the order they were written
    lost,       \* documents one of whose audit rows was never written
    overlapped  \* documents two edits were working on at once (history)

catalogueVars == <<value, edit, trail, lost, overlapped>>

BranchDocs  == {"branch"} \X Branches
ProductDocs == {"product"} \X Products
StockDocs   == {"stock"} \X Branches \X Products
Docs        == BranchDocs \cup ProductDocs \cup StockDocs

BranchFields  == [isActive : BOOLEAN, acceptingOrders : BOOLEAN]
ProductFields == [isActive : BOOLEAN, price : Nat]
StockFields   == [inStock : BOOLEAN]

FirstValue(d) ==
    CASE d \in BranchDocs  -> [isActive |-> TRUE, acceptingOrders |-> TRUE]
      [] d \in ProductDocs -> [isActive |-> TRUE, price |-> MenuPrice[d[2]]]
      [] d \in StockDocs   -> [inStock |-> TRUE]

\* What v becomes when the fields of `to' are set.
Merged(v, to) == [f \in DOMAIN v |-> IF f \in DOMAIN to THEN to[f] ELSE v[f]]

\* The schemas of the PATCH bodies: known fields of the document, and no other.
ASSUME EditsAssumption ==
    /\ MenuPrice \in [Products -> Nat]
    /\ \A e \in Edits : \A ask \in EditRequests[e] :
        LET after == Merged(FirstValue(ask.doc), ask.to) IN
        /\ \/ ask.op = "setStock" /\ ask.doc \in StockDocs /\ after \in StockFields
           \/ ask.op = "updateBranch" /\ ask.doc \in BranchDocs /\ after \in BranchFields
           \/ /\ ask.op \in {"updateProduct", "discontinue"}
              /\ ask.doc \in ProductDocs /\ after \in ProductFields
        /\ DOMAIN ask.to \subseteq DOMAIN FirstValue(ask.doc)

InFlight(e) == edit[e].pc \in {"checked", "read", "unrecorded"}

CatalogueTypeOK ==
    /\ DOMAIN value = Docs
    /\ \A d \in BranchDocs : value[d] \in BranchFields
    /\ \A d \in ProductDocs : value[d] \in ProductFields
    /\ \A d \in StockDocs : value[d] \in StockFields
    /\ \A e \in Edits :
        /\ edit[e].pc \in {"idle", "checked", "read", "unrecorded", "answered"}
        /\ InFlight(e) => edit[e].ask \in EditRequests[e]
    /\ \A i \in DOMAIN trail : trail[i].doc \in Docs
    /\ lost \subseteq Docs
    /\ overlapped \subseteq Docs

EditAt(pc, ask, seen) == [pc |-> pc, ask |-> ask, seen |-> seen]

\* A request that has been answered, well or badly.
Answered == EditAt("answered", NoRequest, NoRequest)

CatalogueInit ==
    /\ value = [d \in Docs |-> FirstValue(d)]
    /\ edit = [e \in Edits |-> EditAt("idle", NoRequest, NoRequest)]
    /\ trail = <<>>
    /\ lost = {}
    /\ overlapped = {}

\* History only: e starts on a document another edit has not finished with.
NoteOverlap(e, d) ==
    overlapped' = IF \E f \in Edits \ {e} : InFlight(f) /\ edit[f].ask.doc = d
                  THEN overlapped \cup {d} ELSE overlapped

-----------------------------------------------------------------------------
(* Who may: resolveBranch of stock.service.js and the guards of update.    *)
(* An actor is Admin or the branch a manager belongs to.                   *)

MaySetStock(ask) ==
    /\ value[<<"product", ask.doc[3]>>].isActive
    /\ IF ask.actor = Admin
       THEN value[<<"branch", ask.doc[2]>>].isActive
       ELSE ask.actor = ask.doc[2]

MayUpdateBranch(ask) ==
    ask.actor = Admin \/ (ask.actor = ask.doc[2] /\ "isActive" \notin DOMAIN ask.to)

\* Discontinuing what is already off the menu is a conflict.
MayUpdateProduct(ask) ==
    /\ ask.actor = Admin
    /\ ask.op = "discontinue" => value[ask.doc].isActive

RefuseEdit(e) ==
    /\ edit' = [edit EXCEPT ![e] = Answered]
    /\ UNCHANGED <<value, trail, lost, overlapped>>

\* The checks of setStock, before it reads the row.
BeginSetStock(e, ask) ==
    /\ edit[e].pc = "idle"
    /\ ask.op = "setStock"
    /\ IF MaySetStock(ask)
       THEN /\ edit' = [edit EXCEPT ![e] = EditAt("checked", ask, NoRequest)]
            /\ NoteOverlap(e, ask.doc)
            /\ UNCHANGED <<value, trail, lost>>
       ELSE RefuseEdit(e)

\* `before', read only for the audit row.
ReadStockRow(e) ==
    /\ edit[e].pc = "checked"
    /\ edit' = [edit EXCEPT ![e] = EditAt("read", @.ask, value[@.ask.doc])]
    /\ UNCHANGED <<value, trail, lost, overlapped>>

\* findById / findOrThrow of update and remove: the document the edit works on.
BeginUpdate(e, ask) ==
    /\ edit[e].pc = "idle"
    /\ \/ ask.op = "updateBranch" /\ ask.doc \in BranchDocs
       \/ ask.op \in {"updateProduct", "discontinue"} /\ ask.doc \in ProductDocs
    /\ IF IF ask.op = "updateBranch" THEN MayUpdateBranch(ask) ELSE MayUpdateProduct(ask)
       THEN /\ edit' = [edit EXCEPT ![e] = EditAt("read", ask, value[ask.doc])]
            /\ NoteOverlap(e, ask.doc)
            /\ UNCHANGED <<value, trail, lost>>
       ELSE RefuseEdit(e)

\* audit.diff: the fields of the request that differ from what was read.
Changed(e) == { f \in DOMAIN edit[e].ask.to : edit[e].seen[f] # edit[e].ask.to[f] }

\* The upsert of setStock sets the field whatever it read; a Mongoose save
\* writes the paths that differ from the document it loaded, and no other.
Written(e) ==
    IF edit[e].ask.op = "setStock" THEN DOMAIN edit[e].ask.to ELSE Changed(e)

Write(e) ==
    LET ask == edit[e].ask IN
    /\ edit[e].pc = "read"
    /\ value' = [value EXCEPT ![ask.doc] =
                    [f \in DOMAIN @ |-> IF f \in Written(e) THEN ask.to[f] ELSE @[f]]]
    /\ edit' = [edit EXCEPT ![e] = IF Changed(e) = {} THEN Answered
                                   ELSE EditAt("unrecorded", ask, @.seen)]
    /\ UNCHANGED <<trail, lost, overlapped>>

\* Mutated: the price is not an audited field.
PricelessRow(e) ==
    LET audited == Changed(e) \ {"price"}
    IN  [doc |-> edit[e].ask.doc,
         from |-> [f \in audited |-> edit[e].seen[f]],
         to |-> [f \in audited |-> edit[e].ask.to[f]]]

Row(e) == [doc |-> edit[e].ask.doc,
           from |-> [f \in Changed(e) |-> edit[e].seen[f]],
           to |-> [f \in Changed(e) |-> edit[e].ask.to[f]]]

Record(e) ==
    /\ edit[e].pc = "unrecorded"
    /\ trail' = Append(trail, Row(e))
    /\ edit' = [edit EXCEPT ![e] = Answered]
    /\ UNCHANGED <<value, lost, overlapped>>

\* audit.record swallows its own failure; a restart at this point does the same.
RecordFails(e) ==
    /\ edit[e].pc = "unrecorded"
    /\ lost' = lost \cup {edit[e].ask.doc}
    /\ edit' = [edit EXCEPT ![e] = Answered]
    /\ UNCHANGED <<value, trail, overlapped>>

EditStep(e) ==
    \/ \E ask \in EditRequests[e] : BeginSetStock(e, ask) \/ BeginUpdate(e, ask)
    \/ ReadStockRow(e)
    \/ Write(e)
    \/ Record(e)
    \/ RecordFails(e)

CatalogueNext == \E e \in Edits : EditStep(e)

-----------------------------------------------------------------------------
Settled(d) == \A e \in Edits : InFlight(e) => edit[e].ask.doc # d

\* What someone reading the trail from the start believes a field to be.
Replayed(d, f) ==
    LET rows == { i \in DOMAIN trail : trail[i].doc = d /\ f \in DOMAIN trail[i].to }
    IN  IF rows = {} THEN FirstValue(d)[f]
        ELSE trail[CHOOSE i \in rows : \A j \in rows : j <= i].to[f]

\* Where edits came one after the other and all left their row, replaying
\* the rows gives the document.
ReplayTellsState ==
    \A d \in Docs \ (overlapped \cup lost) :
        Settled(d) => \A f \in DOMAIN value[d] : value[d][f] = Replayed(d, f)

\* Where edits crossed, some row at least tells of the value a field now has.
NoSilentDeparture ==
    \A d \in Docs \ lost :
        Settled(d) => \A f \in DOMAIN value[d] :
            value[d][f] # FirstValue(d)[f] =>
                \E i \in DOMAIN trail : /\ trail[i].doc = d
                                        /\ f \in DOMAIN trail[i].to
                                        /\ trail[i].to[f] = value[d][f]

(* The audit trail explains the catalogue: it replays to what is stored as *)
(* long as edits took turns, and even when they crossed no field has moved *)
(* without a row that says so (stock.service.js:110-136, audit.service.js: *)
(* 12-43; the row is the difference found in memory, after the save).      *)
TrailTellsState == ReplayTellsState /\ NoSilentDeparture
=============================================================================
