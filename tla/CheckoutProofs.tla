---------------------------- MODULE CheckoutProofs ----------------------------
(***************************************************************************)
(* What holds of staff edits and of customers' orders, however many of     *)
(* them are under way at once.                                             *)
(***************************************************************************)
EXTENDS Checkout, SumsProofs, FiniteSetTheorems, SequenceTheorems

-----------------------------------------------------------------------------
(* The documents of the catalogue.                                         *)

FieldsOf(d) ==
    IF d \in BranchDocs THEN BranchFields
    ELSE IF d \in ProductDocs THEN ProductFields ELSE StockFields

FieldNames == {"isActive", "acceptingOrders", "price", "inStock"}
FieldValues == BOOLEAN \cup Nat

LEMMA Kinds ==
  /\ BranchDocs \cap ProductDocs = {} /\ BranchDocs \cap StockDocs = {}
  /\ ProductDocs \cap StockDocs = {}
  /\ \A b \in Branches : <<"branch", b>> \in BranchDocs /\ <<"branch", b>> \in Docs
  /\ \A p \in Products : <<"product", p>> \in ProductDocs /\ <<"product", p>> \in Docs
  /\ \A b \in Branches, p \in Products :
      <<"stock", b, p>> \in StockDocs /\ <<"stock", b, p>> \in Docs
BY DEF BranchDocs, ProductDocs, StockDocs, Docs

LEMMA FirstFits == \A d \in Docs : FirstValue(d) \in FieldsOf(d)
BY Kinds, EditsAssumption
DEF Docs, FieldsOf, FirstValue, BranchDocs, ProductDocs, StockDocs, BranchFields,
    ProductFields, StockFields

LEMMA Named ==
  ASSUME NEW d \in Docs, NEW v \in FieldsOf(d)
  PROVE  /\ DOMAIN v = DOMAIN FirstValue(d) /\ DOMAIN v \subseteq FieldNames
         /\ \A f \in DOMAIN v : v[f] \in FieldValues
<1>1. FirstValue(d) \in FieldsOf(d)
  BY FirstFits
<1>2. CASE d \in BranchDocs
  BY <1>1, <1>2 DEF FieldsOf, BranchFields, FieldNames, FieldValues
<1>3. CASE d \notin BranchDocs /\ d \in ProductDocs
  BY <1>1, <1>3 DEF FieldsOf, ProductFields, FieldNames, FieldValues
<1>4. CASE d \notin BranchDocs /\ d \notin ProductDocs
  BY <1>1, <1>4 DEF FieldsOf, StockFields, FieldNames, FieldValues
<1> QED
  BY <1>2, <1>3, <1>4

\* v with the fields W of `to' set.
Overlay(v, to, W) == [f \in DOMAIN v |-> IF f \in W THEN to[f] ELSE v[f]]

LEMMA OverlaidBranch ==
  ASSUME NEW v \in BranchFields, NEW to, NEW W, \A f \in W : to[f] \in BOOLEAN
  PROVE  Overlay(v, to, W) \in BranchFields
<1> DEFINE w == Overlay(v, to, W)
<1>1. DOMAIN v = {"isActive", "acceptingOrders"}
  BY DEF BranchFields
<1>2. w = [f \in {"isActive", "acceptingOrders"} |-> w[f]]
  BY <1>1 DEF Overlay
<1>3. w["isActive"] \in BOOLEAN /\ w["acceptingOrders"] \in BOOLEAN
  BY <1>1 DEF Overlay, BranchFields
<1> HIDE DEF w
<1>4. w = [isActive |-> w["isActive"], acceptingOrders |-> w["acceptingOrders"]]
  BY <1>2
<1>5. w \in BranchFields
  BY <1>3, <1>4 DEF BranchFields
<1> QED
  BY <1>5 DEF w

LEMMA OverlaidProduct ==
  ASSUME NEW v \in ProductFields, NEW to, NEW W,
         "isActive" \in W => to["isActive"] \in BOOLEAN, "price" \in W => to["price"] \in Nat
  PROVE  Overlay(v, to, W) \in ProductFields
<1> DEFINE w == Overlay(v, to, W)
<1>1. DOMAIN v = {"isActive", "price"}
  BY DEF ProductFields
<1>2. w = [f \in {"isActive", "price"} |-> w[f]]
  BY <1>1 DEF Overlay
<1>3. w["isActive"] \in BOOLEAN /\ w["price"] \in Nat
  BY <1>1 DEF Overlay, ProductFields
<1> HIDE DEF w
<1>4. w = [isActive |-> w["isActive"], price |-> w["price"]]
  BY <1>2
<1>5. w \in ProductFields
  BY <1>3, <1>4 DEF ProductFields
<1> QED
  BY <1>5 DEF w

LEMMA OverlaidStock ==
  ASSUME NEW v \in StockFields, NEW to, NEW W, \A f \in W : to[f] \in BOOLEAN
  PROVE  Overlay(v, to, W) \in StockFields
<1> DEFINE w == Overlay(v, to, W)
<1>1. DOMAIN v = {"inStock"}
  BY DEF StockFields
<1>2. w = [f \in {"inStock"} |-> w[f]]
  BY <1>1 DEF Overlay
<1>3. w["inStock"] \in BOOLEAN
  BY <1>1 DEF Overlay, StockFields
<1> HIDE DEF w
<1>4. w = [inStock |-> w["inStock"]]
  BY <1>2
<1>5. w \in StockFields
  BY <1>3, <1>4 DEF StockFields
<1> QED
  BY <1>5 DEF w

\* What a staff request may set keeps a document in its schema.
LEMMA Overlaid ==
  ASSUME NEW e \in Edits, NEW ask \in EditRequests[e], NEW v \in FieldsOf(ask.doc),
         NEW W, W \subseteq DOMAIN ask.to
  PROVE  /\ ask.doc \in Docs /\ DOMAIN ask.to \subseteq DOMAIN FirstValue(ask.doc)
         /\ \A f \in DOMAIN ask.to : ask.to[f] \in FieldValues
         /\ Overlay(v, ask.to, W) \in FieldsOf(ask.doc)
<1> DEFINE d == ask.doc
           to == ask.to
           first == FirstValue(d)
           after == Merged(first, to)
<1>1. /\ \/ d \in StockDocs /\ after \in StockFields
         \/ d \in BranchDocs /\ after \in BranchFields
         \/ d \in ProductDocs /\ after \in ProductFields
      /\ DOMAIN to \subseteq DOMAIN first
  BY EditsAssumption
<1>2. d \in Docs
  BY <1>1 DEF Docs
<1>3. \A f \in DOMAIN to : after[f] = to[f] /\ f \in DOMAIN after
  BY <1>1 DEF Merged
<1>4. v \in FieldsOf(d) /\ W \subseteq DOMAIN to
  OBVIOUS
<1> HIDE DEF d, to, first, after
<1>5. after \in FieldsOf(d)
  BY <1>1, Kinds DEF FieldsOf
<1>6. \A f \in DOMAIN to : to[f] \in FieldValues
  BY <1>2, <1>3, <1>5, Named
<1>7. Overlay(v, to, W) \in FieldsOf(d)
  <2>1. CASE d \in BranchDocs
    <3>1. \A f \in W : to[f] \in BOOLEAN
      BY <1>3, <1>4, <1>5, <2>1 DEF FieldsOf, BranchFields
    <3> QED
      BY <1>4, <2>1, <3>1, OverlaidBranch DEF FieldsOf
  <2>2. CASE d \notin BranchDocs /\ d \in ProductDocs
    <3>1. /\ "isActive" \in W => to["isActive"] \in BOOLEAN
          /\ "price" \in W => to["price"] \in Nat
      BY <1>3, <1>4, <1>5, <2>2 DEF FieldsOf, ProductFields
    <3> QED
      BY <1>4, <2>2, <3>1, OverlaidProduct DEF FieldsOf
  <2>3. CASE d \notin BranchDocs /\ d \notin ProductDocs
    <3>1. \A f \in W : to[f] \in BOOLEAN
      BY <1>3, <1>4, <1>5, <2>3 DEF FieldsOf, StockFields
    <3> QED
      BY <1>4, <2>3, <3>1, OverlaidStock DEF FieldsOf
  <2> QED
    BY <2>1, <2>2, <2>3
<1> QED
  BY <1>1, <1>2, <1>6, <1>7 DEF d, to, first

-----------------------------------------------------------------------------
(* The invariant of the staff's edits.                                     *)

FieldMaps == UNION { [F -> FieldValues] : F \in SUBSET FieldNames }
Rows == [doc : Docs, from : FieldMaps, to : FieldMaps]

EditPCs == {"idle", "checked", "read", "unrecorded", "answered"}

EditsWellTyped ==
    /\ DOMAIN value = Docs /\ \A d \in Docs : value[d] \in FieldsOf(d)
    /\ DOMAIN edit = Edits
    /\ \A e \in Edits :
        /\ edit[e] = EditAt(edit[e].pc, edit[e].ask, edit[e].seen) /\ edit[e].pc \in EditPCs
        /\ InFlight(e) => edit[e].ask \in EditRequests[e]
        /\ edit[e].pc \in {"read", "unrecorded"} => edit[e].seen \in FieldsOf(edit[e].ask.doc)
    /\ trail \in Seq(Rows)
    /\ lost \subseteq Docs /\ overlapped \subseteq Docs

Busy(e, d) == InFlight(e) /\ edit[e].ask.doc = d
Unrecorded(e, d) == edit[e].pc = "unrecorded" /\ edit[e].ask.doc = d

OneAtATime ==
    \A d \in Docs \ overlapped : \A e, g \in Edits : Busy(e, d) /\ Busy(g, d) => e = g

\* While edits take turns, the trail lags behind by the row not yet written.
InTurn(d) ==
    /\ \A e \in Edits : edit[e].pc = "read" /\ edit[e].ask.doc = d => edit[e].seen = value[d]
    /\ \A e \in Edits : Unrecorded(e, d) =>
        \A f \in DOMAIN FirstValue(d) :
            /\ edit[e].seen[f] = Replayed(d, f)
            /\ value[d][f] = IF f \in Changed(e) THEN edit[e].ask.to[f] ELSE edit[e].seen[f]
    /\ (\A e \in Edits : ~Unrecorded(e, d)) =>
        \A f \in DOMAIN FirstValue(d) : value[d][f] = Replayed(d, f)

TrailKeepsUp == \A d \in Docs \ (overlapped \cup lost) : InTurn(d)

\* A row tells of v, or is about to.
Told(d, f, v) ==
    \/ v = FirstValue(d)[f]
    \/ \E i \in DOMAIN trail : /\ trail[i].doc = d /\ f \in DOMAIN trail[i].to
                               /\ trail[i].to[f] = v
    \/ \E e \in Edits : Unrecorded(e, d) /\ f \in Changed(e) /\ edit[e].ask.to[f] = v

\* What is stored, and what an edit has read, is told of.
EverythingTold ==
    \A d \in Docs \ lost : \A f \in DOMAIN FirstValue(d) :
        /\ Told(d, f, value[d][f])
        /\ \A e \in Edits : edit[e].pc = "read" /\ edit[e].ask.doc = d =>
            Told(d, f, edit[e].seen[f])

CatalogueInv == EditsWellTyped /\ OneAtATime /\ TrailKeepsUp /\ EverythingTold

-----------------------------------------------------------------------------
LEMMA EditRecord ==
  ASSUME NEW pc, NEW ask, NEW seen
  PROVE  /\ EditAt(pc, ask, seen).pc = pc /\ EditAt(pc, ask, seen).ask = ask
         /\ EditAt(pc, ask, seen).seen = seen
         /\ EditAt(pc, ask, seen) = EditAt(EditAt(pc, ask, seen).pc, EditAt(pc, ask, seen).ask,
                                           EditAt(pc, ask, seen).seen)
BY DEF EditAt

LEMMA EditOne ==
  ASSUME DOMAIN edit = Edits, NEW e \in Edits, NEW r, edit' = [edit EXCEPT ![e] = r]
  PROVE  /\ DOMAIN edit' = Edits /\ edit'[e] = r
         /\ \A g \in Edits : g # e => edit'[g] = edit[g]
OBVIOUS

\* The rows that remain and the edits that stay as they are go on telling.
LEMMA StillTold ==
  ASSUME NEW d, NEW f, NEW v, Told(d, f, v),
         \A i \in DOMAIN trail : i \in DOMAIN trail' /\ trail'[i] = trail[i],
         \A e \in Edits : Unrecorded(e, d) => edit'[e] = edit[e]
  PROVE  Told(d, f, v)'
<1>1. CASE v = FirstValue(d)[f]
  BY <1>1 DEF Told
<1>2. CASE \E i \in DOMAIN trail : /\ trail[i].doc = d /\ f \in DOMAIN trail[i].to
                                   /\ trail[i].to[f] = v
  BY <1>2 DEF Told
<1>3. CASE \E e \in Edits : Unrecorded(e, d) /\ f \in Changed(e) /\ edit[e].ask.to[f] = v
  BY <1>3 DEF Told, Unrecorded, Changed
<1> QED
  BY <1>1, <1>2, <1>3 DEF Told

\* One edit moves, to a step at which it has not written, and neither the
\* documents nor the trail do.
LEMMA EditMoves ==
  ASSUME CatalogueInv, NEW e \in Edits, NEW pc \in {"checked", "read", "answered"},
         NEW ask, NEW seen, edit' = [edit EXCEPT ![e] = EditAt(pc, ask, seen)],
         UNCHANGED <<value, trail>>,
         lost \subseteq lost', lost' \subseteq Docs,
         overlapped \subseteq overlapped', overlapped' \subseteq Docs,
         edit[e].pc = "unrecorded" => edit[e].ask.doc \in lost',
         pc # "answered" =>
            /\ ask \in EditRequests[e]
            /\ ask.doc \notin overlapped' => \A g \in Edits : Busy(g, ask.doc) => g = e,
         pc = "read" => seen = value[ask.doc]
  PROVE  CatalogueInv'
<1>1. EditsWellTyped
  BY DEF CatalogueInv
<1>2. /\ DOMAIN edit' = Edits
      /\ edit'[e].pc = pc /\ edit'[e].ask = ask /\ edit'[e].seen = seen
      /\ edit'[e] = EditAt(edit'[e].pc, edit'[e].ask, edit'[e].seen)
      /\ \A g \in Edits : g # e => edit'[g] = edit[g]
  <2> DEFINE r == EditAt(pc, ask, seen)
  <2>1. r.pc = pc /\ r.ask = ask /\ r.seen = seen /\ r = EditAt(r.pc, r.ask, r.seen)
    BY EditRecord
  <2>2. DOMAIN edit = Edits /\ edit' = [edit EXCEPT ![e] = r]
    BY <1>1 DEF EditsWellTyped
  <2> HIDE DEF r
  <2>3. /\ DOMAIN edit' = Edits /\ edit'[e] = r
        /\ \A g \in Edits : g # e => edit'[g] = edit[g]
    BY <2>2, EditOne
  <2> QED
    BY <2>1, <2>3
<1>3. pc # "answered" => ask.doc \in Docs
  BY EditsAssumption DEF Docs
<1>4. EditsWellTyped'
  <2>1. \A g \in Edits :
          /\ edit'[g] = EditAt(edit'[g].pc, edit'[g].ask, edit'[g].seen) /\ edit'[g].pc \in EditPCs
          /\ InFlight(g)' => edit'[g].ask \in EditRequests[g]
          /\ edit'[g].pc \in {"read", "unrecorded"} =>
              edit'[g].seen \in FieldsOf(edit'[g].ask.doc)
    <3> TAKE g \in Edits
    <3>1. CASE g = e
      BY <1>1, <1>2, <1>3, <3>1 DEF EditsWellTyped, EditPCs, InFlight
    <3>2. CASE g # e
      BY <1>1, <1>2, <3>2 DEF EditsWellTyped, InFlight
    <3> QED
      BY <3>1, <3>2
  <2> QED
    BY <1>1, <1>2, <2>1 DEF EditsWellTyped
<1>5. OneAtATime'
  BY <1>2 DEF CatalogueInv, OneAtATime, Busy, InFlight
<1>6. \A d \in Docs \ lost' : \A g \in Edits :
        /\ Unrecorded(g, d)' <=> Unrecorded(g, d)
        /\ Unrecorded(g, d) => edit'[g] = edit[g]
  BY <1>2 DEF Unrecorded
<1>7. ASSUME NEW d \in Docs \ (overlapped' \cup lost') PROVE InTurn(d)'
  <2>1. InTurn(d)
    BY DEF CatalogueInv, TrailKeepsUp
  <2>2. \A f : Replayed(d, f)' = Replayed(d, f)
    BY DEF Replayed
  <2>3. \A g \in Edits : edit'[g].pc = "read" /\ edit'[g].ask.doc = d =>
          edit'[g].seen = value'[d]
    BY <1>2, <2>1 DEF InTurn
  <2>4. ASSUME NEW g \in Edits, Unrecorded(g, d)', NEW f \in DOMAIN FirstValue(d)
        PROVE  /\ edit'[g].seen[f] = Replayed(d, f)'
               /\ value'[d][f] = IF f \in Changed(g)' THEN edit'[g].ask.to[f]
                                 ELSE edit'[g].seen[f]
    <3>1. Unrecorded(g, d) /\ edit'[g] = edit[g]
      BY <1>6, <2>4
    <3>2. Changed(g)' = Changed(g)
      BY <3>1 DEF Changed
    <3> QED
      BY <2>1, <2>2, <2>4, <3>1, <3>2 DEF InTurn
  <2>5. ASSUME \A g \in Edits : ~Unrecorded(g, d)', NEW f \in DOMAIN FirstValue(d)
        PROVE  value'[d][f] = Replayed(d, f)'
    BY <1>6, <2>1, <2>2, <2>5 DEF InTurn
  <2> QED
    BY <2>3, <2>4, <2>5 DEF InTurn
<1>8. EverythingTold'
  <2>1. ASSUME NEW d \in Docs \ lost', NEW f, NEW v, Told(d, f, v) PROVE Told(d, f, v)'
    BY <1>6, <2>1, StillTold
  <2>2. ASSUME NEW d \in Docs \ lost', NEW f \in DOMAIN FirstValue(d)
        PROVE  Told(d, f, value[d][f])'
    <3>1. Told(d, f, value[d][f])
      BY DEF CatalogueInv, EverythingTold
    <3> QED
      BY <2>1, <3>1 DEF Told
  <2>3. ASSUME NEW d \in Docs \ lost', NEW f \in DOMAIN FirstValue(d), NEW g \in Edits,
               edit'[g].pc = "read", edit'[g].ask.doc = d
        PROVE  Told(d, f, edit[g].seen[f])'
    <3>1. CASE edit'[g].seen = value'[d]
      BY <2>2, <3>1 DEF Told
    <3>2. CASE edit'[g].seen # value'[d]
      <4>1. g # e /\ edit'[g] = edit[g]
        BY <1>2, <2>3, <3>2
      <4>2. Told(d, f, edit[g].seen[f])
        BY <2>3, <4>1 DEF CatalogueInv, EverythingTold
      <4> QED
        BY <2>1, <4>1, <4>2 DEF Told
    <3> QED
      BY <3>1, <3>2
  <2> QED
    BY <2>2, <2>3 DEF EverythingTold
<1> QED
  BY <1>4, <1>5, <1>7, <1>8 DEF CatalogueInv, TrailKeepsUp

\* What the diff and the save have to do with each other.
LEMMA WrittenAndChanged ==
  ASSUME EditsWellTyped, NEW e \in Edits
  PROVE  /\ Changed(e) \subseteq Written(e) /\ Written(e) \subseteq DOMAIN edit[e].ask.to
         /\ \A f \in Written(e) \ Changed(e) : edit[e].ask.to[f] = edit[e].seen[f]
BY DEF Changed, Written

LEMMA EditWrites ==
  ASSUME CatalogueInv, NEW e \in Edits, Write(e),
         NEW ask, ask = edit[e].ask, NEW d, d = ask.doc
  PROVE  CatalogueInv'
<1> DEFINE v == Overlay(value[d], ask.to, Written(e))
           r == IF Changed(e) = {} THEN Answered ELSE EditAt("unrecorded", ask, edit[e].seen)
<1>1. EditsWellTyped /\ edit[e].pc = "read"
  BY DEF CatalogueInv, Write
<1>2. /\ ask \in EditRequests[e] /\ value[d] \in FieldsOf(d) /\ edit[e].seen \in FieldsOf(d)
      /\ d \in Docs
  <2>1. ask \in EditRequests[e]
    BY <1>1 DEF EditsWellTyped, InFlight
  <2>2. d \in Docs
    BY <2>1, EditsAssumption DEF Docs
  <2> QED
    BY <1>1, <2>1, <2>2 DEF EditsWellTyped
<1>3. v \in FieldsOf(d)
  <2>1. Written(e) \subseteq DOMAIN ask.to
    BY <1>1, WrittenAndChanged
  <2> QED
    BY <1>2, <2>1, Overlaid
<1>4. /\ DOMAIN value' = Docs /\ value'[d] = v
      /\ \A c \in Docs : c # d => value'[c] = value[c]
      /\ UNCHANGED <<trail, lost, overlapped>>
  <2>1. value' = [value EXCEPT ![d] = v] /\ UNCHANGED <<trail, lost, overlapped>>
    BY DEF Write, Overlay
  <2> HIDE DEF v
  <2> QED
    BY <1>1, <1>2, <2>1 DEF EditsWellTyped
<1>5. /\ DOMAIN edit' = Edits /\ edit'[e] = r
      /\ \A g \in Edits : g # e => edit'[g] = edit[g]
  <2>1. DOMAIN edit = Edits /\ edit' = [edit EXCEPT ![e] = r]
    BY <1>1 DEF EditsWellTyped, Write
  <2> HIDE DEF r
  <2> QED
    BY <2>1, EditOne
<1>6. /\ r = EditAt(r.pc, r.ask, r.seen)
      /\ Changed(e) = {} => r.pc = "answered"
      /\ Changed(e) # {} => r.pc = "unrecorded" /\ r.ask = ask /\ r.seen = edit[e].seen
  <2>1. /\ r = EditAt(r.pc, r.ask, r.seen)
        /\ Changed(e) = {} => r.pc = "answered"
    BY EditRecord DEF Answered
  <2>2. ASSUME Changed(e) # {}
        PROVE  r.pc = "unrecorded" /\ r.ask = ask /\ r.seen = edit[e].seen
    BY <2>2, EditRecord
  <2> QED
    BY <2>1, <2>2
<1>7. /\ DOMAIN v = DOMAIN FirstValue(d) /\ DOMAIN value[d] = DOMAIN FirstValue(d)
      /\ \A f \in DOMAIN FirstValue(d) :
          v[f] = IF f \in Changed(e) THEN ask.to[f]
                 ELSE IF f \in Written(e) THEN edit[e].seen[f] ELSE value[d][f]
  <2>1. DOMAIN v = DOMAIN FirstValue(d) /\ DOMAIN value[d] = DOMAIN FirstValue(d)
    BY <1>2, <1>3, Named
  <2> QED
    BY <1>1, <2>1, WrittenAndChanged DEF Overlay
<1>8. Changed(e) # {} => Changed(e)' = Changed(e)
  BY <1>5, <1>6 DEF Changed
<1> HIDE DEF v, r
<1>9. EditsWellTyped'
  <2>1. \A g \in Edits :
          /\ edit'[g] = EditAt(edit'[g].pc, edit'[g].ask, edit'[g].seen) /\ edit'[g].pc \in EditPCs
          /\ InFlight(g)' => edit'[g].ask \in EditRequests[g]
          /\ edit'[g].pc \in {"read", "unrecorded"} =>
              edit'[g].seen \in FieldsOf(edit'[g].ask.doc)
    <3> TAKE g \in Edits
    <3>1. CASE g = e
      BY <1>2, <1>5, <1>6, <3>1 DEF EditPCs, InFlight
    <3>2. CASE g # e
      BY <1>1, <1>5, <3>2 DEF EditsWellTyped, InFlight
    <3> QED
      BY <3>1, <3>2
  <2>2. \A c \in Docs : value'[c] \in FieldsOf(c)
    BY <1>1, <1>3, <1>4 DEF EditsWellTyped
  <2> QED
    BY <1>1, <1>4, <1>5, <2>1, <2>2 DEF EditsWellTyped
<1>10. /\ \A g \in Edits : \A c : Busy(g, c)' => Busy(g, c)
       /\ Busy(e, d) /\ ~Unrecorded(e, d)
       /\ \A c : Unrecorded(e, c)' <=> c = d /\ Changed(e) # {}
       /\ \A g \in Edits : \A c : g # e => (Unrecorded(g, c)' <=> Unrecorded(g, c))
  BY <1>1, <1>5, <1>6 DEF Busy, InFlight, Unrecorded
<1>11. OneAtATime'
  BY <1>4, <1>10 DEF CatalogueInv, OneAtATime
<1>12. \A c, f : Replayed(c, f)' = Replayed(c, f)
  BY <1>4 DEF Replayed
<1>13. ASSUME NEW c \in Docs \ (overlapped' \cup lost') PROVE InTurn(c)'
  <2>1. InTurn(c)
    BY <1>4 DEF CatalogueInv, TrailKeepsUp
  <2>2. CASE c # d
    <3>1. value'[c] = value[c]
      BY <1>4, <2>2
    <3>2. \A g \in Edits : Unrecorded(g, c)' => Unrecorded(g, c) /\ edit'[g] = edit[g]
      BY <1>5, <1>10, <2>2
    <3>3. \A g \in Edits : Unrecorded(g, c) => Unrecorded(g, c)'
      BY <1>1, <1>10 DEF Unrecorded
    <3>4. \A g \in Edits : edit'[g].pc = "read" => edit'[g] = edit[g]
      BY <1>5, <1>6
    <3>5. ASSUME NEW g \in Edits, Unrecorded(g, c)', NEW f \in DOMAIN FirstValue(c)
          PROVE  /\ edit'[g].seen[f] = Replayed(c, f)'
                 /\ value'[c][f] = IF f \in Changed(g)' THEN edit'[g].ask.to[f]
                                   ELSE edit'[g].seen[f]
      <4>1. Unrecorded(g, c) /\ edit'[g] = edit[g]
        BY <3>2, <3>5
      <4>2. Changed(g)' = Changed(g)
        BY <4>1 DEF Changed
      <4> QED
        BY <1>12, <2>1, <3>1, <3>5, <4>1, <4>2 DEF InTurn
    <3>6. ASSUME \A g \in Edits : ~Unrecorded(g, c)', NEW f \in DOMAIN FirstValue(c)
          PROVE  value'[c][f] = Replayed(c, f)'
      BY <1>12, <2>1, <3>1, <3>3, <3>6 DEF InTurn
    <3> QED
      BY <2>1, <3>1, <3>4, <3>5, <3>6 DEF InTurn
  <2>3. CASE c = d
    <3>1. \A g \in Edits : Busy(g, d) => g = e
      BY <1>4, <1>10, <2>3 DEF CatalogueInv, OneAtATime
    <3>2. /\ edit[e].seen = value[d]
          /\ \A f \in DOMAIN FirstValue(d) : value[d][f] = Replayed(d, f)
      <4>1. \A g \in Edits : ~Unrecorded(g, d)
        BY <1>10, <3>1 DEF Unrecorded, Busy, InFlight
      <4> QED
        BY <1>1, <2>1, <2>3, <4>1 DEF InTurn
    <3>3. \A g \in Edits : edit'[g].pc = "read" => edit'[g].ask.doc # d
      BY <1>5, <1>6, <3>1 DEF Busy, InFlight
    <3>4. \A g \in Edits : Unrecorded(g, d)' => g = e /\ Changed(e) # {}
      BY <1>10, <3>1 DEF Unrecorded, Busy, InFlight
    <3>5. \A f \in DOMAIN FirstValue(d) :
            value'[d][f] = IF f \in Changed(e) THEN ask.to[f] ELSE value[d][f]
      BY <1>4, <1>7, <3>2
    <3>6. ASSUME Changed(e) # {}, NEW f \in DOMAIN FirstValue(d)
          PROVE  /\ edit'[e].seen[f] = Replayed(d, f)'
                 /\ value'[d][f] = IF f \in Changed(e)' THEN edit'[e].ask.to[f]
                                   ELSE edit'[e].seen[f]
      BY <1>5, <1>6, <1>8, <1>12, <3>2, <3>5, <3>6
    <3>7. ASSUME Changed(e) = {}, NEW f \in DOMAIN FirstValue(d)
          PROVE  value'[d][f] = Replayed(d, f)'
      BY <1>12, <3>2, <3>5, <3>7
    <3> QED
      BY <1>10, <2>3, <3>3, <3>4, <3>6, <3>7 DEF InTurn
  <2> QED
    BY <2>2, <2>3
<1>14. EverythingTold'
  <2>1. ASSUME NEW c \in Docs \ lost, NEW f, NEW w, Told(c, f, w) PROVE Told(c, f, w)'
    <3>1. \A g \in Edits : Unrecorded(g, c) => edit'[g] = edit[g]
      BY <1>1, <1>5 DEF Unrecorded
    <3> QED
      BY <1>4, <2>1, <3>1, StillTold
  <2>2. ASSUME NEW c \in Docs \ lost, NEW f \in DOMAIN FirstValue(c)
        PROVE  Told(c, f, value[c][f])'
    <3>1. Told(c, f, value[c][f])
      BY DEF CatalogueInv, EverythingTold
    <3>2. CASE value'[c][f] = value[c][f]
      <4>1. PICK w : w = value[c][f]
        OBVIOUS
      <4>2. Told(c, f, w)'
        BY <2>1, <2>2, <3>1, <4>1
      <4> QED
        BY <3>2, <4>1, <4>2 DEF Told
    <3>3. CASE c = d /\ f \in Changed(e)
      <4>1. Unrecorded(e, d)' /\ f \in Changed(e)' /\ edit'[e].ask.to[f] = value'[d][f]
        BY <1>4, <1>5, <1>6, <1>7, <1>8, <1>10, <2>2, <3>3
      <4> QED
        BY <3>3, <4>1 DEF Told
    <3>4. CASE c = d /\ value'[c][f] = edit[e].seen[f]
      <4>1. Told(d, f, edit[e].seen[f])
        BY <1>1, <2>2, <3>4 DEF CatalogueInv, EverythingTold
      <4> QED
        BY <2>1, <3>4, <4>1 DEF Told
    <3>5. CASE c = d
      <4>1. f \in Changed(e) \/ value'[d][f] = edit[e].seen[f] \/ value'[d][f] = value[d][f]
        BY <1>4, <1>7, <2>2, <3>5
      <4> QED
        BY <3>2, <3>3, <3>4, <3>5, <4>1
    <3>6. CASE c # d
      <4>1. value'[c] = value[c]
        BY <1>4, <2>2, <3>6
      <4> QED
        BY <3>2, <4>1
    <3> QED
      BY <3>5, <3>6
  <2>3. ASSUME NEW c \in Docs \ lost, NEW f \in DOMAIN FirstValue(c), NEW g \in Edits,
               edit'[g].pc = "read", edit'[g].ask.doc = c
        PROVE  Told(c, f, edit[g].seen[f])'
    <3>1. g # e /\ edit'[g] = edit[g]
      BY <1>5, <1>6, <2>3
    <3>2. Told(c, f, edit[g].seen[f])
      BY <2>3, <3>1 DEF CatalogueInv, EverythingTold
    <3> QED
      BY <2>1, <3>1, <3>2 DEF Told
  <2> QED
    BY <1>4, <2>2, <2>3 DEF EverythingTold
<1> QED
  BY <1>9, <1>11, <1>13, <1>14 DEF CatalogueInv, TrailKeepsUp

\* A nonempty set of positions in a sequence has a last one.
Newest(S) == CHOOSE i \in S : \A j \in S : j <= i

LEMMA LatestRow ==
  ASSUME NEW n \in Nat, NEW S, S \subseteq 1..n, S # {}
  PROVE  Newest(S) \in S /\ \A j \in S : j <= Newest(S)
<1> DEFINE T == { n - i : i \in S }
           R == OpToRel(<, Nat)
<1>1. T \subseteq Nat /\ T # {}
  <2>1. \A i \in S : n - i \in Nat
    OBVIOUS
  <2>2. PICK i \in S : TRUE
    OBVIOUS
  <2> QED
    BY <2>1, <2>2
<1>2. IsWellFoundedOn(R, Nat)
  BY NatLessThanWellFounded
<1> HIDE DEF T, R
<1>3. PICK t \in T : \A y \in T : ~(<<y, t>> \in R)
  BY <1>1, <1>2, WFMin
<1>4. PICK i \in S : t = n - i
  BY <1>3 DEF T
<1>5. \A j \in S : j <= i
  <2> SUFFICES ASSUME NEW j \in S PROVE j <= i
    OBVIOUS
  <2>1. n - j \in T
    BY DEF T
  <2>2. n - j \in Nat /\ n - i \in Nat /\ i \in Int /\ j \in Int
    OBVIOUS
  <2>3. ~(n - j < n - i)
    BY <1>3, <1>4, <2>1, <2>2 DEF R, OpToRel
  <2> QED
    BY <2>2, <2>3
<1> QED
  BY <1>4, <1>5 DEF Newest

LEMMA RowOf ==
  ASSUME EditsWellTyped, NEW e \in Edits, edit[e].pc = "unrecorded"
  PROVE  /\ Row(e) \in Rows /\ Row(e).doc = edit[e].ask.doc /\ DOMAIN Row(e).to = Changed(e)
         /\ \A f \in Changed(e) : Row(e).to[f] = edit[e].ask.to[f]
<1> DEFINE ask == edit[e].ask
           from == [f \in Changed(e) |-> edit[e].seen[f]]
           to == [f \in Changed(e) |-> ask.to[f]]
<1>1. /\ ask \in EditRequests[e] /\ edit[e].seen \in FieldsOf(ask.doc)
      /\ Changed(e) \subseteq DOMAIN ask.to
  BY DEF EditsWellTyped, InFlight, Changed
<1>2. /\ ask.doc \in Docs /\ DOMAIN ask.to \subseteq DOMAIN FirstValue(ask.doc)
      /\ \A f \in DOMAIN ask.to : ask.to[f] \in FieldValues
  BY <1>1, Overlaid
<1>3. /\ DOMAIN edit[e].seen = DOMAIN FirstValue(ask.doc)
      /\ DOMAIN FirstValue(ask.doc) \subseteq FieldNames
      /\ \A f \in DOMAIN edit[e].seen : edit[e].seen[f] \in FieldValues
  BY <1>1, <1>2, Named
<1>4. Changed(e) \in SUBSET FieldNames
  BY <1>1, <1>2, <1>3
<1>5. from \in [Changed(e) -> FieldValues] /\ to \in [Changed(e) -> FieldValues]
  BY <1>1, <1>2, <1>3
<1>6. from \in FieldMaps /\ to \in FieldMaps
  BY <1>4, <1>5 DEF FieldMaps
<1>7. Row(e) = [doc |-> ask.doc, from |-> from, to |-> to]
  BY DEF Row
<1>8. DOMAIN to = Changed(e) /\ \A f \in Changed(e) : to[f] = ask.to[f]
  OBVIOUS
<1> HIDE DEF from, to
<1> QED
  BY <1>2, <1>6, <1>7, <1>8 DEF Rows

RowsOf(d, f) == { i \in DOMAIN trail : trail[i].doc = d /\ f \in DOMAIN trail[i].to }

LEMMA EditRecords ==
  ASSUME CatalogueInv, NEW e \in Edits, Record(e),
         NEW ask, ask = edit[e].ask, NEW d, d = ask.doc
  PROVE  CatalogueInv'
<1> DEFINE r == Answered
<1>1. /\ EditsWellTyped /\ edit[e].pc = "unrecorded" /\ trail' = Append(trail, Row(e))
      /\ UNCHANGED <<value, lost, overlapped>>
  BY DEF CatalogueInv, Record
<1>2. /\ r.pc = "answered" /\ r = EditAt(r.pc, r.ask, r.seen)
  BY EditRecord DEF Answered
<1>3. /\ DOMAIN edit' = Edits /\ edit'[e] = r
      /\ \A g \in Edits : g # e => edit'[g] = edit[g]
  <2>1. DOMAIN edit = Edits /\ edit' = [edit EXCEPT ![e] = r]
    BY <1>1 DEF EditsWellTyped, Record
  <2> HIDE DEF r
  <2> QED
    BY <2>1, EditOne
<1> HIDE DEF r
<1>4. /\ Row(e) \in Rows /\ Row(e).doc = d /\ DOMAIN Row(e).to = Changed(e)
      /\ \A f \in Changed(e) : Row(e).to[f] = ask.to[f]
  BY <1>1, RowOf
<1>5. PICK n : n = Len(trail) + 1
  OBVIOUS
<1>6. PICK row : row = Row(e)
  OBVIOUS
<1>7. /\ trail' \in Seq(Rows) /\ n \in Nat /\ n \notin DOMAIN trail
      /\ DOMAIN trail' = DOMAIN trail \cup {n} /\ trail'[n] = row
      /\ \A i \in DOMAIN trail : i \in Nat /\ i < n /\ trail'[i] = trail[i]
  <2>1. trail \in Seq(Rows) /\ row \in Rows /\ trail' = Append(trail, row)
    BY <1>1, <1>4, <1>6 DEF EditsWellTyped
  <2>2. /\ Len(trail) \in Nat /\ DOMAIN trail = 1..Len(trail)
        /\ trail' \in Seq(Rows) /\ Len(trail') = n /\ DOMAIN trail' = 1..n
        /\ trail'[n] = row /\ \A i \in 1..Len(trail) : trail'[i] = trail[i]
    BY <1>5, <2>1
  <2> QED
    BY <1>5, <2>2
<1>8. EditsWellTyped'
  <2>1. \A g \in Edits :
          /\ edit'[g] = EditAt(edit'[g].pc, edit'[g].ask, edit'[g].seen) /\ edit'[g].pc \in EditPCs
          /\ InFlight(g)' => edit'[g].ask \in EditRequests[g]
          /\ edit'[g].pc \in {"read", "unrecorded"} =>
              edit'[g].seen \in FieldsOf(edit'[g].ask.doc)
    <3> TAKE g \in Edits
    <3>1. CASE g = e
      BY <1>2, <1>3, <3>1 DEF EditPCs, InFlight
    <3>2. CASE g # e
      BY <1>1, <1>3, <3>2 DEF EditsWellTyped, InFlight
    <3> QED
      BY <3>1, <3>2
  <2> QED
    BY <1>1, <1>3, <1>7, <2>1 DEF EditsWellTyped
<1>9. /\ \A g \in Edits : \A c : Busy(g, c)' => Busy(g, c)
      /\ Busy(e, d) /\ Unrecorded(e, d)
      /\ \A g \in Edits : \A c : Unrecorded(g, c)' <=> g # e /\ Unrecorded(g, c)
  BY <1>1, <1>2, <1>3 DEF Busy, InFlight, Unrecorded
<1>10. OneAtATime'
  BY <1>1, <1>9 DEF CatalogueInv, OneAtATime
<1>11. \A c \in Docs : \A f :
         c # d \/ f \notin Changed(e) => Replayed(c, f)' = Replayed(c, f)
  <2> SUFFICES ASSUME NEW c \in Docs, NEW f, c # d \/ f \notin Changed(e)
               PROVE  Replayed(c, f)' = Replayed(c, f)
    OBVIOUS
  <2>1. PICK rows : rows = RowsOf(c, f)
    OBVIOUS
  <2>2. rows = RowsOf(c, f)'
    BY <1>4, <1>6, <1>7, <2>1 DEF RowsOf
  <2>3. rows # {} => trail'[Newest(rows)] = trail[Newest(rows)]
    <3>1. rows \subseteq 1..Len(trail) /\ Len(trail) \in Nat /\ rows \subseteq DOMAIN trail
      BY <1>1, <2>1 DEF EditsWellTyped, RowsOf
    <3>2. ASSUME rows # {} PROVE Newest(rows) \in rows
      BY <3>1, <3>2, LatestRow
    <3> QED
      BY <1>7, <3>1, <3>2
  <2>4. Replayed(c, f) = IF rows = {} THEN FirstValue(c)[f] ELSE trail[Newest(rows)].to[f]
    BY <2>1 DEF Replayed, RowsOf, Newest
  <2>5. Replayed(c, f)' = IF rows = {} THEN FirstValue(c)[f] ELSE trail'[Newest(rows)].to[f]
    BY <2>2 DEF Replayed, RowsOf, Newest
  <2> QED
    BY <2>3, <2>4, <2>5
<1>12. \A f \in Changed(e) : Replayed(d, f)' = ask.to[f]
  <2> TAKE f \in Changed(e)
  <2>1. PICK rows : rows = RowsOf(d, f)'
    OBVIOUS
  <2>2. n \in rows /\ rows \subseteq DOMAIN trail'
    BY <1>4, <1>6, <1>7, <2>1 DEF RowsOf
  <2>3. rows \subseteq 1..n
    <3>1. Len(trail) \in Nat /\ DOMAIN trail = 1..Len(trail)
      BY <1>1 DEF EditsWellTyped
    <3> QED
      BY <1>5, <1>7, <2>2, <3>1
  <2>4. Newest(rows) = n
    <3>1. Newest(rows) \in rows /\ \A j \in rows : j <= Newest(rows)
      BY <1>7, <2>2, <2>3, LatestRow
    <3> QED
      BY <1>7, <2>2, <2>3, <3>1
  <2>5. trail'[n].to[f] = ask.to[f]
    BY <1>4, <1>6, <1>7
  <2>6. Replayed(d, f)' = IF rows = {} THEN FirstValue(d)[f] ELSE trail'[Newest(rows)].to[f]
    BY <2>1 DEF Replayed, RowsOf, Newest
  <2> QED
    BY <2>2, <2>4, <2>5, <2>6
<1>13. ASSUME NEW c \in Docs \ (overlapped' \cup lost') PROVE InTurn(c)'
  <2>1. InTurn(c)
    BY <1>1 DEF CatalogueInv, TrailKeepsUp
  <2>2. \A g \in Edits : edit'[g].pc = "read" /\ edit'[g].ask.doc = c =>
          edit'[g].seen = value'[c]
    BY <1>1, <1>2, <1>3, <2>1 DEF InTurn
  <2>3. CASE c # d
    <3>1. \A f : Replayed(c, f)' = Replayed(c, f)
      BY <1>11, <2>3
    <3>2. ASSUME NEW g \in Edits, Unrecorded(g, c)', NEW f \in DOMAIN FirstValue(c)
          PROVE  /\ edit'[g].seen[f] = Replayed(c, f)'
                 /\ value'[c][f] = IF f \in Changed(g)' THEN edit'[g].ask.to[f]
                                   ELSE edit'[g].seen[f]
      <4>1. Unrecorded(g, c) /\ edit'[g] = edit[g]
        BY <1>3, <1>9, <3>2
      <4>2. Changed(g)' = Changed(g)
        BY <4>1 DEF Changed
      <4> QED
        BY <1>1, <2>1, <3>1, <3>2, <4>1, <4>2 DEF InTurn
    <3>3. \A g \in Edits : Unrecorded(g, c) => Unrecorded(g, c)'
      BY <1>9, <2>3 DEF Unrecorded
    <3>4. ASSUME \A g \in Edits : ~Unrecorded(g, c)', NEW f \in DOMAIN FirstValue(c)
          PROVE  value'[c][f] = Replayed(c, f)'
      BY <1>1, <2>1, <3>1, <3>3, <3>4 DEF InTurn
    <3> QED
      BY <2>2, <3>2, <3>4 DEF InTurn
  <2>4. CASE c = d
    <3>1. \A g \in Edits : Busy(g, d) => g = e
      BY <1>1, <1>9, <2>4 DEF CatalogueInv, OneAtATime
    <3>2. \A g \in Edits : ~Unrecorded(g, d)'
      BY <1>9, <3>1 DEF Unrecorded, Busy, InFlight
    <3>3. ASSUME NEW f \in DOMAIN FirstValue(d) PROVE value'[d][f] = Replayed(d, f)'
      <4>1. /\ edit[e].seen[f] = Replayed(d, f)
            /\ value[d][f] = IF f \in Changed(e) THEN ask.to[f] ELSE edit[e].seen[f]
        BY <1>9, <2>1, <2>4, <3>3 DEF InTurn
      <4> QED
        BY <1>1, <1>11, <1>12, <2>4, <4>1
    <3> QED
      BY <2>2, <2>4, <3>2, <3>3 DEF InTurn
  <2> QED
    BY <2>3, <2>4
<1>14. EverythingTold'
  <2>1. ASSUME NEW c, NEW f, NEW w, Told(c, f, w) PROVE Told(c, f, w)'
    <3>1. CASE Unrecorded(e, c) /\ f \in Changed(e) /\ edit[e].ask.to[f] = w
      BY <1>4, <1>6, <1>7, <3>1 DEF Told, Unrecorded
    <3>2. CASE ~(Unrecorded(e, c) /\ f \in Changed(e) /\ edit[e].ask.to[f] = w)
      <4>1. \A g \in Edits : Unrecorded(g, c) /\ f \in Changed(g) /\ edit[g].ask.to[f] = w
              => Unrecorded(g, c)' /\ f \in Changed(g)' /\ edit'[g].ask.to[f] = w
        BY <1>3, <3>2 DEF Unrecorded, Changed
      <4>2. \A i \in DOMAIN trail : i \in DOMAIN trail' /\ trail'[i] = trail[i]
        BY <1>7
      <4> QED
        BY <2>1, <4>1, <4>2 DEF Told
    <3> QED
      BY <3>1, <3>2
  <2>2. ASSUME NEW c \in Docs \ lost, NEW f \in DOMAIN FirstValue(c)
        PROVE  Told(c, f, value[c][f])'
    <3>1. PICK w : w = value[c][f]
      OBVIOUS
    <3>2. Told(c, f, w)
      BY <2>2, <3>1 DEF CatalogueInv, EverythingTold
    <3>3. Told(c, f, w)'
      BY <2>1, <3>2
    <3> QED
      BY <1>1, <3>1, <3>3 DEF Told
  <2>3. ASSUME NEW c \in Docs \ lost, NEW f \in DOMAIN FirstValue(c), NEW g \in Edits,
               edit'[g].pc = "read", edit'[g].ask.doc = c
        PROVE  Told(c, f, edit[g].seen[f])'
    <3>1. g # e /\ edit'[g] = edit[g]
      BY <1>2, <1>3, <2>3
    <3>2. Told(c, f, edit[g].seen[f])
      BY <2>3, <3>1 DEF CatalogueInv, EverythingTold
    <3> QED
      BY <2>1, <3>1, <3>2 DEF Told
  <2> QED
    BY <1>1, <2>2, <2>3 DEF EverythingTold
<1> QED
  BY <1>8, <1>10, <1>13, <1>14 DEF CatalogueInv, TrailKeepsUp

LEMMA EditReads ==
  ASSUME CatalogueInv, NEW e \in Edits, ReadStockRow(e),
         NEW ask, ask = edit[e].ask, NEW v, v = value[ask.doc]
  PROVE  CatalogueInv'
<1>1. /\ EditsWellTyped /\ edit[e].pc = "checked" /\ UNCHANGED <<value, trail, lost, overlapped>>
      /\ edit' = [edit EXCEPT ![e] = EditAt("read", ask, v)]
  BY DEF CatalogueInv, ReadStockRow
<1>2. /\ ask \in EditRequests[e]
      /\ ask.doc \notin overlapped' => \A g \in Edits : Busy(g, ask.doc) => g = e
  <2>1. ask \in EditRequests[e] /\ Busy(e, ask.doc)
    BY <1>1 DEF EditsWellTyped, InFlight, Busy
  <2>2. ask.doc \in Docs
    BY <2>1, EditsAssumption DEF Docs
  <2> QED
    BY <1>1, <2>1, <2>2 DEF CatalogueInv, OneAtATime
<1>3. lost' \subseteq Docs /\ overlapped' \subseteq Docs
  BY <1>1 DEF EditsWellTyped
<1>4. PICK pc \in {"checked", "read", "answered"} : pc = "read"
  OBVIOUS
<1> QED
  BY <1>1, <1>2, <1>3, <1>4, EditMoves

LEMMA EditBegins ==
  ASSUME CatalogueInv, NEW e \in Edits, NEW ask \in EditRequests[e],
         edit[e].pc = "idle",
         NEW pc \in {"checked", "read"}, NEW seen, pc = "read" => seen = value[ask.doc],
         edit' = [edit EXCEPT ![e] = EditAt(pc, ask, seen)],
         NoteOverlap(e, ask.doc), UNCHANGED <<value, trail, lost>>
  PROVE  CatalogueInv'
<1>1. ask.doc \in Docs
  BY EditsAssumption DEF Docs
<1>2. /\ overlapped \subseteq overlapped' /\ overlapped' \subseteq Docs /\ lost' \subseteq Docs
      /\ ask.doc \notin overlapped' => \A g \in Edits : Busy(g, ask.doc) => g = e
  BY <1>1 DEF NoteOverlap, CatalogueInv, EditsWellTyped, Busy
<1> QED
  BY <1>2, EditMoves

LEMMA EditRefused ==
  ASSUME CatalogueInv, NEW e \in Edits, edit[e].pc = "idle", RefuseEdit(e)
  PROVE  CatalogueInv'
<1>1. /\ edit' = [edit EXCEPT ![e] = EditAt("answered", NoRequest, NoRequest)]
      /\ UNCHANGED <<value, trail, lost, overlapped>>
      /\ lost' \subseteq Docs /\ overlapped' \subseteq Docs
  BY DEF RefuseEdit, Answered, CatalogueInv, EditsWellTyped
<1> QED
  BY <1>1, EditMoves

LEMMA EditLosesRow ==
  ASSUME CatalogueInv, NEW e \in Edits, RecordFails(e)
  PROVE  CatalogueInv'
<1>1. edit[e].ask.doc \in Docs
  BY EditsAssumption DEF CatalogueInv, EditsWellTyped, RecordFails, InFlight, Docs
<1>2. /\ edit' = [edit EXCEPT ![e] = EditAt("answered", NoRequest, NoRequest)]
      /\ UNCHANGED <<value, trail, overlapped>> /\ lost \subseteq lost'
      /\ edit[e].ask.doc \in lost' /\ lost' \subseteq Docs /\ overlapped' \subseteq Docs
  BY <1>1 DEF RecordFails, Answered, CatalogueInv, EditsWellTyped
<1> QED
  BY <1>2, EditMoves

LEMMA CatalogueSteps == ASSUME CatalogueInv, CatalogueNext PROVE CatalogueInv'
<1>1. ASSUME NEW e \in Edits, EditStep(e) PROVE CatalogueInv'
  <2>1. ASSUME NEW ask \in EditRequests[e], BeginSetStock(e, ask) PROVE CatalogueInv'
    <3>1. CASE MaySetStock(ask)
      BY <2>1, <3>1, EditBegins DEF BeginSetStock
    <3>2. CASE ~MaySetStock(ask)
      BY <2>1, <3>2, EditRefused DEF BeginSetStock
    <3> QED
      BY <3>1, <3>2
  <2>2. ASSUME NEW ask \in EditRequests[e], BeginUpdate(e, ask) PROVE CatalogueInv'
    <3>1. CASE RefuseEdit(e)
      BY <2>2, <3>1, EditRefused DEF BeginUpdate
    <3>2. CASE /\ edit' = [edit EXCEPT ![e] = EditAt("read", ask, value[ask.doc])]
               /\ NoteOverlap(e, ask.doc) /\ UNCHANGED <<value, trail, lost>>
      BY <2>2, <3>2, EditBegins DEF BeginUpdate
    <3> QED
      BY <2>2, <3>1, <3>2 DEF BeginUpdate
  <2>3. CASE ReadStockRow(e)
    BY <2>3, EditReads
  <2>4. CASE Write(e)
    BY <2>4, EditWrites
  <2>5. CASE Record(e)
    BY <2>5, EditRecords
  <2>6. CASE RecordFails(e)
    BY <2>6, EditLosesRow
  <2> QED
    BY <1>1, <2>1, <2>2, <2>3, <2>4, <2>5, <2>6 DEF EditStep
<1> QED
  BY <1>1 DEF CatalogueNext

LEMMA CatalogueRests == ASSUME CatalogueInv, UNCHANGED catalogueVars PROVE CatalogueInv'
<1>1. EditsWellTyped'
  BY DEF catalogueVars, CatalogueInv, EditsWellTyped, InFlight
<1>2. OneAtATime'
  BY DEF catalogueVars, CatalogueInv, OneAtATime, Busy, InFlight
<1>3. TrailKeepsUp'
  BY DEF catalogueVars, CatalogueInv, TrailKeepsUp, InTurn, Unrecorded, Changed, Replayed
<1>4. EverythingTold'
  BY DEF catalogueVars, CatalogueInv, EverythingTold, Told, Unrecorded, Changed
<1> QED
  BY <1>1, <1>2, <1>3, <1>4 DEF CatalogueInv

LEMMA CatalogueStarts == ASSUME CatalogueInit PROVE CatalogueInv
<1>1. /\ DOMAIN value = Docs /\ \A d \in Docs : value[d] = FirstValue(d)
      /\ DOMAIN edit = Edits
      /\ \A e \in Edits : edit[e] = EditAt("idle", NoRequest, NoRequest)
      /\ trail = <<>> /\ lost = {} /\ overlapped = {}
  BY DEF CatalogueInit
<1>2. \A e \in Edits : /\ edit[e].pc = "idle"
                       /\ edit[e] = EditAt(edit[e].pc, edit[e].ask, edit[e].seen)
  BY <1>1, EditRecord
<1>3. EditsWellTyped
  BY <1>1, <1>2, FirstFits DEF EditsWellTyped, EditPCs, InFlight
<1>4. \A d, f : Replayed(d, f) = FirstValue(d)[f]
  BY <1>1 DEF Replayed
<1> QED
  BY <1>1, <1>2, <1>3, <1>4
  DEF CatalogueInv, OneAtATime, Busy, InFlight, TrailKeepsUp, InTurn, Unrecorded,
      EverythingTold, Told

LEMMA TrailExplains == ASSUME CatalogueInv PROVE TrailTellsState
<1>1. \A d \in Docs : DOMAIN value[d] = DOMAIN FirstValue(d)
  BY Named DEF CatalogueInv, EditsWellTyped
<1>2. ASSUME NEW d \in Docs, Settled(d) PROVE \A e \in Edits : ~Unrecorded(e, d)
  BY <1>2 DEF Settled, InFlight, Unrecorded
<1>3. ReplayTellsState
  BY <1>1, <1>2 DEF CatalogueInv, TrailKeepsUp, InTurn, ReplayTellsState
<1>4. NoSilentDeparture
  BY <1>1, <1>2 DEF CatalogueInv, EverythingTold, Told, NoSilentDeparture
<1> QED
  BY <1>3, <1>4 DEF TrailTellsState

-----------------------------------------------------------------------------
(* One customer's request c, and the values h its documents held since it  *)
(* began: what the reads established, and until when it is needed.         *)

RequestFields == DOMAIN FreshCheckout
Reading == {"branch", "products", "stock"}
Agreed  == {"agreed", "numbered", "placed"}
Asking  == Reading \cup {"quoted"} \cup Agreed

OnTheMenu(menu) ==
    \A p \in DOMAIN menu : /\ p \in Products /\ menu[p].price \in Nat
                           /\ menu[p].taxRate \in Nat /\ menu[p].taxIncluded \in BOOLEAN

WellFormed(r, c) ==
    /\ DOMAIN c = RequestFields
    /\ c.pc \in CheckoutPCs /\ c.phase \in {"quote", "order"}
    /\ c.pc \in Asking => c.ask \in CartRequests[r]
    /\ c.phase = "order" => c.now \in Days /\ c.pc \in Reading \cup Agreed
    /\ c.branch \in Branches \cup {NoBranch}
    /\ c.pc \in {"products", "stock"} \cup Agreed => c.branch \in Branches
    /\ c.pc \in Agreed => c.phase = "order"
    /\ c.pc = "stock" => OnTheMenu(c.menu)
    /\ c.expected \in Nat

\* What an order must have seen at a branch, of a product and of its stock.
OpenTo(b, h) == \E v \in h[<<"branch", b>>] : v.isActive /\ v.acceptingOrders
Listed(p, price, h) == \E v \in h[<<"product", p>>] : v.isActive /\ v.price = price
Stocked(b, p, h) == \E v \in h[<<"stock", b, p>>] : v.inStock

\* The branches before b in reach were seen closed, or do not deliver.
PassedOver(place, b, h) ==
    \E k \in DOMAIN Reach[place] :
        /\ Reach[place][k] = b
        /\ \A i \in 1..(k - 1) : "delivery" \in Offers[Reach[place][i]] =>
               \E v \in h[<<"branch", Reach[place][i]>>] : ~v.isActive

LinesHeld(lines, b, h) ==
    \A i \in DOMAIN lines : \A line \in ToSet(lines[i].contents) :
        Listed(line.productId, line.unitPrice, h) /\ Stocked(b, line.productId, h)

\* What the contents of the lines cost.
Worth(lines) ==
    SumOf([i \in DOMAIN lines |->
        lines[i].qty * SumOf([j \in DOMAIN lines[i].contents |->
                                 lines[i].contents[j].unitPrice])])

Fee(fulfilment) == IF fulfilment = "delivery" THEN DeliveryFee ELSE 0

Rests(c, h) ==
    c.phase = "order" =>
        /\ c.pc \in {"products", "stock"} /\ c.accepts => OpenTo(c.branch, h)
        /\ c.pc \in {"products", "stock"} \cup Agreed /\ c.ask.fulfilment = "delivery"
             => PassedOver(c.ask.at, c.branch, h)
        /\ c.pc = "stock" => \A p \in DOMAIN c.menu : Listed(p, c.menu[p].price, h)
        /\ c.pc \in Agreed =>
            /\ OpenTo(c.branch, h)
            /\ LinesHeld(c.priced.lines, c.branch, h)
            /\ c.priced.totals.grandTotal = c.expected
            /\ c.priced.totals.grandTotal - Fee(c.ask.fulfilment) = Worth(c.priced.lines)
            /\ TaxReconciles(c.priced.lines, c.priced.totals)

\* While an order reads, its history holds what every document holds now.
UpToDate(c, h) ==
    c.phase = "order" /\ c.pc \in Reading => \A d \in Docs : value[d] \in h[d]

RequestsRest ==
    /\ DOMAIN checkout = Requests /\ DOMAIN heldSince = Requests
    /\ \A r \in Requests : LET c == checkout[r]  h == heldSince[r] IN
        WellFormed(r, c) /\ Rests(c, h) /\ UpToDate(c, h) /\ DOMAIN h = Docs

Numbered == {"numbered", "placed", "failed"}

(* Numbers of a day are given out one by one and to one request each.      *)
NumbersAreOne ==
    /\ counter \in [Days -> Nat]
    /\ \A r \in Requests :
        IF checkout[r].pc \in Numbered
        THEN /\ checkout[r].now \in Days
             /\ \E n \in 1..counter[checkout[r].now] : checkout[r].number = <<checkout[r].now, n>>
        ELSE checkout[r].number = NoNumber
    /\ \A r, s \in Requests : checkout[r].pc \in Numbered /\ checkout[r].number = checkout[s].number => r = s
    /\ \A d \in Days : \A n \in 1..counter[d] :
        \E r \in Requests : checkout[r].pc \in Numbered /\ checkout[r].number = <<d, n>>

(* The stored orders are those of the requests that placed one.            *)
OrderFrom(r, c) ==
    [by |-> r, number |-> c.number, branch |-> c.branch, fulfilment |-> c.ask.fulfilment,
     items |-> c.priced.lines, totals |-> c.priced.totals]

OrdersArePlaced ==
    /\ \A o \in orders : o.by \in Requests /\ checkout[o.by].pc = "placed"
                         /\ o = OrderFrom(o.by, checkout[o.by])
    /\ \A r \in Requests : checkout[r].pc = "placed" => OrderFrom(r, checkout[r]) \in orders

CheckoutInv == CatalogueInv /\ today \in Days /\ RequestsRest /\ NumbersAreOne /\ OrdersArePlaced

-----------------------------------------------------------------------------
(* What priceCart prices.                                                  *)

\* The items a cart may hold.
Items(items) ==
    /\ DOMAIN items = 1..Len(items) /\ Len(items) \in Nat
    /\ \A i \in DOMAIN items : LET item == items[i] IN
        \/ item.kind = "product" /\ item.productId \in Products /\ item.qty \in Nat
        \/ item.kind = "box" /\ item.productIds \in Seq(Products)

\* The unit prices of the contents of a line.
UnitPrices(line) == [j \in DOMAIN line.contents |-> line.contents[j].unitPrice]

\* How the tax t of a line of this amount splits it.
Splits(t, amount) ==
    /\ t.net \in Nat /\ t.tax \in Nat /\ t.net + t.tax = t.gross
    /\ amount \in {t.net, t.gross}
    /\ 2 * (100 * t.gross - (100 + t.rate) * t.net) \in -(100 + t.rate)..(100 + t.rate)

LEMMA RoundedIs ==
  ASSUME NEW n \in Nat, NEW d \in Nat \ {0}, NEW q, q = Rounded(n, d)
  PROVE  q \in Nat /\ 2 * d * q <= 2 * n + d /\ 2 * n + d < 2 * d * q + 2 * d
<1>1. PICK e \in Nat \ {0} : e = 2 * d
  OBVIOUS
<1>2. PICK m \in Nat : m = 2 * n + d
  OBVIOUS
<1>3. q = m \div e
  BY <1>1, <1>2 DEF Rounded
<1>4. q \in Nat /\ e * q <= m /\ m < e * q + e
  BY <1>3
<1> QED
  BY <1>1, <1>2, <1>4

\* Whatever the rate, and whether the price includes it.
LEMMA TaxSplits ==
  ASSUME NEW amount \in Nat, NEW rate \in Nat, NEW included \in BOOLEAN,
         NEW t, t = TaxBreakdown(amount, rate, included)
  PROVE  Splits(t, amount)
<1>1. PICK d \in Nat \ {0} : d = 100 + rate /\ d >= 100
  OBVIOUS
<1>2. CASE included
  <2>1. PICK q : q = Rounded(100 * amount, d)
    OBVIOUS
  <2>2. t.net = q /\ t.gross = amount /\ t.tax = amount - q /\ t.rate = rate
    BY <1>1, <1>2, <2>1 DEF TaxBreakdown
  <2>3. PICK x \in Nat : x = d * q
    BY <1>1, <2>1, RoundedIs
  <2>4. q \in Nat /\ 2 * x <= 200 * amount + d /\ 200 * amount + d < 2 * x + 2 * d
    <3>1. PICK n \in Nat : n = 100 * amount
      OBVIOUS
    <3>2. q \in Nat /\ 2 * d * q <= 2 * n + d /\ 2 * n + d < 2 * d * q + 2 * d
      BY <2>1, <3>1, RoundedIs
    <3>3. 2 * d * q = 2 * x
      BY <2>3, <3>2
    <3> QED
      BY <3>1, <3>2, <3>3
  <2>5. q <= amount
    <3> SUFFICES ASSUME q >= amount + 1 PROVE FALSE
      BY <2>4
    <3>1. d * q >= d * (amount + 1)
      BY <1>1, <2>4
    <3>2. d * (amount + 1) = d * amount + d /\ d * amount >= 100 * amount
      BY <1>1
    <3> QED
      BY <1>1, <2>3, <2>4, <3>1, <3>2
  <2>6. 2 * (100 * amount - x) \in -d..d
    BY <1>1, <2>3, <2>4
  <2> QED
    BY <1>1, <2>2, <2>3, <2>4, <2>5, <2>6 DEF Splits
<1>3. CASE ~included
  <2>1. PICK q : q = Rounded(amount * d, 100)
    OBVIOUS
  <2>2. t.net = amount /\ t.gross = q /\ t.tax = q - amount /\ t.rate = rate
    BY <1>1, <1>3, <2>1 DEF TaxBreakdown
  <2>3. PICK x \in Nat : x = d * amount /\ x = amount * d /\ x >= 100 * amount
    BY <1>1
  <2>4. q \in Nat /\ 200 * q <= 2 * x + 100 /\ 2 * x + 100 < 200 * q + 200
    BY <2>1, <2>3, RoundedIs
  <2>5. q >= amount /\ 2 * (100 * q - x) \in -d..d
    BY <1>1, <2>3, <2>4
  <2> QED
    BY <1>1, <2>2, <2>3, <2>4, <2>5 DEF Splits
<1> QED
  BY <1>2, <1>3

LEMMA ProductWorth ==
  ASSUME NEW menu, OnTheMenu(menu), NEW item, item.kind = "product", item.qty \in Nat,
         item.productId \in DOMAIN menu,
         NEW line, line = ProductLine(item, menu)
  PROVE  /\ line.lineTotal \in Nat /\ Splits(line.tax, line.lineTotal)
         /\ line.lineTotal = line.qty * SumOf(UnitPrices(line))
         /\ \A child \in ToSet(line.contents) :
              child.productId \in Wanted(item) /\ child.unitPrice = menu[child.productId].price
<1> DEFINE p == item.productId
           child == [productId |-> p, unitPrice |-> menu[p].price]
<1>1. menu[p].price \in Nat
  BY DEF OnTheMenu
<1>2. /\ line.qty = item.qty /\ line.lineTotal = menu[p].price * item.qty
      /\ line.contents = <<child>>
  BY DEF ProductLine
<1>3. DOMAIN line.contents = 1..1 /\ line.contents[1] = child
  BY <1>2
<1>4. child.productId = p /\ child.unitPrice = menu[p].price
  OBVIOUS
<1> HIDE DEF child
<1>5. SumOf(UnitPrices(line)) = menu[p].price
  <2> DEFINE a == UnitPrices(line)
  <2>1. a \in Seq(Nat) /\ Len(a) = 1 /\ a[1] = menu[p].price
    BY <1>1, <1>3, <1>4 DEF UnitPrices
  <2> HIDE DEF a
  <2>2. SumOf(a) = menu[p].price
    BY <1>1, <2>1, SumOfOne
  <2> QED
    BY <2>2 DEF a
<1>6. ToSet(line.contents) = {child}
  BY <1>3 DEF ToSet
<1>7. menu[p].price * item.qty \in Nat /\ menu[p].price * item.qty = item.qty * menu[p].price
  BY <1>1
<1>8. Splits(line.tax, line.lineTotal)
  <2>1. line.tax = TaxBreakdown(line.lineTotal, menu[p].taxRate, menu[p].taxIncluded)
    BY DEF ProductLine
  <2> QED
    BY <1>2, <1>7, <2>1, TaxSplits DEF OnTheMenu
<1> QED
  BY <1>2, <1>4, <1>5, <1>6, <1>7, <1>8 DEF Wanted

LEMMA BoxWorth ==
  ASSUME NEW menu, OnTheMenu(menu), NEW item, item.kind = "box",
         item.productIds \in Seq(Products), Wanted(item) \subseteq DOMAIN menu,
         NEW line, line = BoxLine(item, menu)
  PROVE  /\ line.lineTotal \in Nat /\ Splits(line.tax, line.lineTotal)
         /\ line.lineTotal = line.qty * SumOf(UnitPrices(line))
         /\ \A child \in ToSet(line.contents) :
              child.productId \in Wanted(item) /\ child.unitPrice = menu[child.productId].price
<1> DEFINE ids == item.productIds
           children == [i \in DOMAIN ids |-> [productId |-> ids[i],
                                              unitPrice |-> menu[ids[i]].price]]
<1>1. /\ line.qty = 1 /\ line.contents = children /\ line.lineTotal = SumOf(UnitPrices(line))
      /\ line.tax = TaxBreakdown(line.lineTotal, 0, TRUE)
  BY DEF BoxLine, UnitPrices
<1>2. DOMAIN children = DOMAIN ids /\ DOMAIN ids = 1..Len(ids) /\ Len(ids) \in Nat
  OBVIOUS
<1>3. \A i \in DOMAIN ids : /\ ids[i] \in Wanted(item)
                            /\ children[i].productId = ids[i]
                            /\ children[i].unitPrice = menu[ids[i]].price
                            /\ menu[ids[i]].price \in Nat
  BY DEF Wanted, ToSet, OnTheMenu
<1> HIDE DEF children, ids
<1>4. SumOf(UnitPrices(line)) \in Nat
  <2> DEFINE a == UnitPrices(line)
  <2>1. a \in Seq(Nat)
    <3>1. a = [i \in 1..Len(ids) |-> children[i].unitPrice]
      BY <1>1, <1>2 DEF UnitPrices
    <3>2. \A i \in 1..Len(ids) : children[i].unitPrice \in Nat
      BY <1>2, <1>3
    <3> HIDE DEF a
    <3> QED
      BY <1>2, <3>1, <3>2
  <2> HIDE DEF a
  <2>2. SumOf(a) \in Nat
    BY <2>1, SumIsNat
  <2> QED
    BY <2>2 DEF a
<1>5. \A child \in ToSet(line.contents) :
        child.productId \in Wanted(item) /\ child.unitPrice = menu[child.productId].price
  BY <1>1, <1>2, <1>3 DEF ToSet
<1>6. Splits(line.tax, line.lineTotal)
  BY <1>1, <1>4, TaxSplits
<1>7. line.lineTotal \in Nat /\ line.lineTotal = line.qty * SumOf(UnitPrices(line))
  BY <1>1, <1>4
<1> QED
  BY <1>5, <1>6, <1>7

\* A cart that is priced costs the sum of what its lines hold and the fee, and
\* holds only products of the menu that are in stock, at the menu's prices.
LEMMA PricedCart ==
  ASSUME NEW menu, OnTheMenu(menu), NEW items, Items(items), NEW fulfilment,
         NEW acceptance, NEW stocked,
         NEW priced, priced = PriceCart(items, fulfilment, acceptance, menu, stocked),
         priced.code = "OK"
  PROVE  /\ acceptance = "OK"
         /\ priced.totals.grandTotal \in Nat
         /\ priced.totals.grandTotal - Fee(fulfilment) = Worth(priced.lines)
         /\ TaxReconciles(priced.lines, priced.totals)
         /\ \A i \in DOMAIN priced.lines : \A child \in ToSet(priced.lines[i].contents) :
              /\ child.productId \in DOMAIN menu /\ child.productId \in stocked
              /\ child.unitPrice = menu[child.productId].price
<1> DEFINE lines == [i \in DOMAIN items |-> Line(items[i], menu)]
           totals == Totals(lines, fulfilment)
<1>1. \A code : Refusal(code).code = code
  BY DEF Refusal
<1>2. acceptance = "OK"
  BY <1>1 DEF PriceCart
<1>3. /\ Problems(items, menu, stocked) = {}
      /\ priced = [code |-> "OK", lines |-> lines, totals |-> totals]
  BY <1>1, <1>2 DEF PriceCart
<1>4. priced.lines = lines /\ priced.totals = totals
  BY <1>3
<1>5. ASSUME NEW i \in DOMAIN items
      PROVE  /\ Wanted(items[i]) \subseteq DOMAIN menu
             /\ Wanted(items[i]) \subseteq stocked
  <2> SUFFICES ASSUME NEW p \in Wanted(items[i]) PROVE p \in DOMAIN menu /\ p \in stocked
    OBVIOUS
  <2> DEFINE found == <<Problem(p, items[i].kind = "box", menu, stocked), p>>
  <2>1. found \in UNION { { <<Problem(q, item.kind = "box", menu, stocked), q>> :
                               q \in Wanted(item) } : item \in ToSet(items) }
    BY DEF ToSet
  <2>2. found[1] = "none"
    BY <1>3, <2>1 DEF Problems
  <2> QED
    BY <2>2 DEF Problem
<1>6. ASSUME NEW i \in DOMAIN items
      PROVE  /\ lines[i].lineTotal \in Nat /\ Splits(lines[i].tax, lines[i].lineTotal)
             /\ lines[i].lineTotal = lines[i].qty * SumOf(UnitPrices(lines[i]))
             /\ \A child \in ToSet(lines[i].contents) :
                  /\ child.productId \in Wanted(items[i])
                  /\ child.unitPrice = menu[child.productId].price
  <2>1. PICK item : item = items[i]
    OBVIOUS
  <2>2. lines[i] = Line(item, menu)
    BY <2>1
  <2> HIDE DEF lines
  <2>3. PICK line : line = lines[i]
    OBVIOUS
  <2>4. CASE item.kind = "product"
    <3>1. item.productId \in Wanted(item) /\ item.qty \in Nat /\ line = ProductLine(item, menu)
      BY <2>1, <2>2, <2>3, <2>4 DEF Items, Wanted, Line
    <3>2. item.productId \in DOMAIN menu
      BY <1>5, <2>1, <3>1
    <3> QED
      BY <2>1, <2>3, <2>4, <3>1, <3>2, ProductWorth
  <2>5. CASE item.kind = "box"
    <3>1. item.productIds \in Seq(Products) /\ line = BoxLine(item, menu)
      BY <2>1, <2>2, <2>3, <2>5 DEF Items, Line
    <3>2. Wanted(item) \subseteq DOMAIN menu
      BY <1>5, <2>1
    <3> QED
      BY <2>1, <2>3, <2>5, <3>1, <3>2, BoxWorth
  <2> QED
    BY <2>1, <2>4, <2>5 DEF Items
<1>7. DOMAIN lines = DOMAIN items /\ DOMAIN items = 1..Len(items) /\ Len(items) \in Nat
  BY DEF Items
<1>8. /\ totals.subtotal = SumOf([i \in DOMAIN lines |-> lines[i].lineTotal])
      /\ totals.grandTotal = totals.subtotal + Fee(fulfilment)
      /\ totals.tax = SumOf([i \in DOMAIN lines |-> lines[i].tax.tax])
  BY DEF Totals, Fee
<1> HIDE DEF lines, totals
<1>9. totals.subtotal \in Nat
  <2> DEFINE a == [i \in DOMAIN lines |-> lines[i].lineTotal]
  <2>1. a \in Seq(Nat)
    BY <1>6, <1>7
  <2> HIDE DEF a
  <2>2. SumOf(a) \in Nat
    BY <2>1, SumIsNat
  <2> QED
    BY <1>8, <2>2 DEF a
<1>10. totals.subtotal = Worth(lines)
  <2>1. [i \in DOMAIN lines |-> lines[i].lineTotal]
          = [i \in DOMAIN lines |-> lines[i].qty * SumOf(UnitPrices(lines[i]))]
    BY <1>6, <1>7
  <2> QED
    BY <1>8, <2>1 DEF Worth, UnitPrices
<1>11. Fee(fulfilment) \in Nat
  BY PricingAssumption DEF Fee
<1>12. TaxReconciles(lines, totals)
  <2> DEFINE nets  == [i \in DOMAIN lines |-> lines[i].tax.net]
             taxes == [i \in DOMAIN lines |-> lines[i].tax.tax]
             all   == [i \in DOMAIN lines |-> lines[i].tax.gross]
  <2>1. PICK n \in Nat : n = Len(items) /\ DOMAIN lines = 1..n
    BY <1>7
  <2>2. /\ Len(nets) = n /\ Len(taxes) = n /\ Len(all) = n
        /\ \A i \in 1..n : nets[i] \in Nat /\ taxes[i] \in Nat /\ all[i] = nets[i] + taxes[i]
    BY <1>6, <1>7, <2>1 DEF Splits
  <2>3. totals.tax = SumOf(taxes)
    BY <1>8
  <2> HIDE DEF nets, taxes, all
  <2>4. SumOf(all) = SumOf(nets) + SumOf(taxes)
    BY <2>2, SumsAdd
  <2>5. SumOf(nets) + totals.tax = SumOf(all)
    BY <2>3, <2>4
  <2>6. \A i \in DOMAIN lines : Splits(lines[i].tax, lines[i].lineTotal)
    BY <1>6, <1>7
  <2> QED
    BY <2>5, <2>6 DEF TaxReconciles, Splits, nets, all
<1>13. TaxReconciles(priced.lines, priced.totals)
  BY <1>4, <1>12
<1>14. /\ priced.totals.grandTotal \in Nat
       /\ priced.totals.grandTotal - Fee(fulfilment) = Worth(priced.lines)
  BY <1>4, <1>8, <1>9, <1>10, <1>11
<1>15. \A i \in DOMAIN priced.lines : \A child \in ToSet(priced.lines[i].contents) :
         /\ child.productId \in DOMAIN menu /\ child.productId \in stocked
         /\ child.unitPrice = menu[child.productId].price
  BY <1>4, <1>5, <1>6, <1>7
<1> QED
  BY <1>2, <1>13, <1>14, <1>15

-----------------------------------------------------------------------------
(* One request moves, the others rest.                                     *)

LEMMA AskFits ==
  ASSUME NEW r \in Requests, NEW ask \in CartRequests[r]
  PROVE  /\ Items(ask.items)
         /\ ask.fulfilment = "delivery" =>
              /\ Reach[ask.at] \in Seq(Branches)
              /\ \A i, j \in DOMAIN Reach[ask.at] : Reach[ask.at][i] = Reach[ask.at][j] => i = j
         /\ ask.fulfilment # "delivery" => ask.at \in Branches
BY CustomersAssumption DEF Items

LEMMA FreshFields ==
  /\ RequestFields = {"pc", "phase", "ask", "now", "branch", "accepts", "menu", "priced",
                      "expected", "number"}
  /\ FreshCheckout.pc = "idle" /\ FreshCheckout.phase = "quote"
  /\ FreshCheckout.branch = NoBranch
  /\ FreshCheckout.expected = 0 /\ FreshCheckout.number = NoNumber
BY DEF RequestFields, FreshCheckout

LEMMA OneMoves ==
  ASSUME CheckoutInv, NEW r \in Requests, NEW c, NEW h,
         checkout' = [checkout EXCEPT ![r] = c],
         \/ heldSince' = [heldSince EXCEPT ![r] = h]
         \/ UNCHANGED heldSince /\ h = heldSince[r],
         UNCHANGED catalogueVars,
         WellFormed(r, c), Rests(c, h), UpToDate(c, h), DOMAIN h = Docs
  PROVE  /\ CatalogueInv' /\ RequestsRest'
         /\ DOMAIN checkout = Requests
         /\ checkout'[r] = c /\ \A s \in Requests : s # r => checkout'[s] = checkout[s]
<1>1. CatalogueInv'
  BY CatalogueRests DEF CheckoutInv
<1>2. /\ DOMAIN checkout = Requests /\ DOMAIN heldSince = Requests
      /\ \A s \in Requests : /\ WellFormed(s, checkout[s]) /\ Rests(checkout[s], heldSince[s])
                             /\ UpToDate(checkout[s], heldSince[s]) /\ DOMAIN heldSince[s] = Docs
  BY DEF CheckoutInv, RequestsRest
<1>3. /\ DOMAIN checkout' = Requests /\ checkout'[r] = c
      /\ \A s \in Requests : s # r => checkout'[s] = checkout[s]
  BY <1>2
<1>4. /\ DOMAIN heldSince' = Requests /\ heldSince'[r] = h
      /\ \A s \in Requests : s # r => heldSince'[s] = heldSince[s]
  BY <1>2
<1>5. value' = value
  BY DEF catalogueVars
<1>6. ASSUME NEW s \in Requests
      PROVE  /\ WellFormed(s, checkout'[s]) /\ Rests(checkout'[s], heldSince'[s])
             /\ UpToDate(checkout'[s], heldSince'[s]) /\ DOMAIN heldSince'[s] = Docs
  <2>1. CASE s = r
    BY <1>3, <1>4, <2>1
  <2>2. CASE s # r
    BY <1>2, <1>3, <1>4, <2>2
  <2> QED
    BY <2>1, <2>2
<1>7. RequestsRest'
  BY <1>3, <1>4, <1>5, <1>6 DEF RequestsRest, UpToDate
<1> QED
  BY <1>1, <1>2, <1>3, <1>7

\* As long as it has no number a request leaves the counters and orders alone.
LEMMA NotNumbered ==
  ASSUME NumbersAreOne, OrdersArePlaced, NEW r \in Requests, NEW c,
         checkout[r].pc \notin Numbered, c.pc \notin Numbered, c.number = NoNumber,
         checkout'[r] = c, \A s \in Requests : s # r => checkout'[s] = checkout[s],
         UNCHANGED <<counter, orders>>
  PROVE  NumbersAreOne' /\ OrdersArePlaced'
<1>1. NumbersAreOne'
  <2>1. /\ counter' \in [Days -> Nat]
        /\ \A s \in Requests :
            IF checkout'[s].pc \in Numbered
            THEN /\ checkout'[s].now \in Days
                 /\ \E n \in 1..counter'[checkout'[s].now] :
                        checkout'[s].number = <<checkout'[s].now, n>>
            ELSE checkout'[s].number = NoNumber
    <3>1. counter' = counter
      OBVIOUS
    <3> QED
      BY <3>1 DEF NumbersAreOne
  <2>2. \A s, t \in Requests : checkout'[s].pc \in Numbered /\ checkout'[s].number = checkout'[t].number
            => s = t
    <3>1. \A s \in Requests : checkout'[s].number = checkout[s].number
      BY DEF NumbersAreOne
    <3>2. \A s \in Requests : checkout'[s].pc \in Numbered => checkout[s].pc \in Numbered
      OBVIOUS
    <3> QED
      BY <3>1, <3>2 DEF NumbersAreOne
  <2>3. \A d \in Days : \A n \in 1..counter'[d] :
          \E s \in Requests : checkout'[s].pc \in Numbered /\ checkout'[s].number = <<d, n>>
    <3> SUFFICES ASSUME NEW d \in Days, NEW n \in 1..counter[d]
                 PROVE  \E s \in Requests : checkout'[s].pc \in Numbered /\ checkout'[s].number = <<d, n>>
      OBVIOUS
    <3>1. PICK s \in Requests : checkout[s].pc \in Numbered /\ checkout[s].number = <<d, n>>
      BY DEF NumbersAreOne
    <3>2. s # r
      BY <3>1
    <3> QED
      BY <3>1, <3>2
  <2> QED
    BY <2>1, <2>2, <2>3 DEF NumbersAreOne
<1>2. OrdersArePlaced'
  <2>1. checkout[r].pc # "placed" /\ c.pc # "placed"
    BY DEF Numbered
  <2> QED
    BY <2>1 DEF OrdersArePlaced
<1> QED
  BY <1>1, <1>2

LEMMA Proceeds ==
  ASSUME CheckoutInv, NEW r \in Requests, NEW c, NEW h,
         checkout' = [checkout EXCEPT ![r] = c],
         \/ heldSince' = [heldSince EXCEPT ![r] = h]
         \/ UNCHANGED heldSince /\ h = heldSince[r],
         UNCHANGED <<catalogueVars, counter, orders>>, today' \in Days,
         checkout[r].pc \notin Numbered, c.pc \notin Numbered, c.number = NoNumber,
         WellFormed(r, c), Rests(c, h), UpToDate(c, h), DOMAIN h = Docs
  PROVE  CheckoutInv'
<1>1. /\ CatalogueInv' /\ RequestsRest'
      /\ checkout'[r] = c /\ \A s \in Requests : s # r => checkout'[s] = checkout[s]
  BY OneMoves
<1>2. NumbersAreOne' /\ OrdersArePlaced'
  BY <1>1, NotNumbered DEF CheckoutInv
<1> QED
  BY <1>1, <1>2 DEF CheckoutInv

-----------------------------------------------------------------------------
(* The steps of a request, up to its number.                               *)

LEMMA Refused ==
  ASSUME CheckoutInv, NEW r \in Requests, checkout[r].pc \notin Numbered,
         NEW code, Answer(r, code), UNCHANGED <<catalogueVars, counter, orders>>, today' \in Days
  PROVE  CheckoutInv'
<1>1. PICK c : c = [FreshCheckout EXCEPT !.pc = "refused"]
  OBVIOUS
<1>2. PICK h : h = [d \in Docs |-> {}]
  OBVIOUS
<1>3. /\ DOMAIN c = RequestFields /\ c.pc = "refused" /\ c.phase = "quote"
      /\ c.branch = NoBranch /\ c.expected = 0 /\ c.number = NoNumber
  BY <1>1, FreshFields DEF RequestFields
<1>4. c.pc \notin Numbered /\ WellFormed(r, c) /\ Rests(c, h) /\ UpToDate(c, h)
  <2>1. c.pc \notin Numbered /\ c.pc \notin Asking /\ c.pc \in CheckoutPCs
    BY <1>3 DEF Numbered, CheckoutPCs, Asking, Reading, Agreed
  <2>2. c.pc \notin {"products", "stock"} \cup Agreed /\ c.pc # "stock" /\ c.pc \notin Agreed
    BY <2>1 DEF Asking, Reading
  <2>3. WellFormed(r, c)
    BY <1>3, <2>1, <2>2 DEF WellFormed
  <2>4. Rests(c, h)
    BY <1>3 DEF Rests
  <2>5. UpToDate(c, h)
    BY <1>3 DEF UpToDate
  <2> QED
    BY <2>1, <2>3, <2>4, <2>5
<1>5. DOMAIN h = Docs
  BY <1>2
<1>6. checkout' = [checkout EXCEPT ![r] = c] /\ heldSince' = [heldSince EXCEPT ![r] = h]
  BY <1>1, <1>2 DEF Answer
<1> QED
  BY <1>3, <1>4, <1>5, <1>6, Proceeds

\* What a request is before any step of it.
LEMMA Standing ==
  ASSUME CheckoutInv, NEW r \in Requests, NEW c0, c0 = checkout[r], NEW h, h = heldSince[r]
  PROVE  /\ WellFormed(r, c0) /\ Rests(c0, h) /\ UpToDate(c0, h) /\ DOMAIN h = Docs
         /\ c0.pc \notin Numbered => c0.number = NoNumber
BY DEF CheckoutInv, RequestsRest, NumbersAreOne

\* The fields of c0 once those of `new' are set.
LEMMA MergedFields ==
  ASSUME NEW c0, DOMAIN c0 = RequestFields, NEW new
  PROVE  /\ DOMAIN Merged(c0, new) = RequestFields
         /\ \A f \in RequestFields :
              Merged(c0, new)[f] = IF f \in DOMAIN new THEN new[f] ELSE c0[f]
BY DEF Merged

LEMMA QuoteMoves ==
  ASSUME CheckoutInv, NEW r \in Requests, Quote(r)
  PROVE  CheckoutInv'
<1>1. PICK ask \in CartRequests[r] : Become(r, [pc |-> "branch", ask |-> ask])
  BY DEF Quote
<1>2. PICK c0 : c0 = checkout[r]
  OBVIOUS
<1>3. PICK h : h = heldSince[r]
  OBVIOUS
<1>4. PICK c : c = Merged(c0, [pc |-> "branch", ask |-> ask])
  OBVIOUS
<1>5. /\ WellFormed(r, c0) /\ Rests(c0, h) /\ UpToDate(c0, h) /\ DOMAIN h = Docs
      /\ c0.pc \notin Numbered => c0.number = NoNumber
      /\ c0.pc = "idle" /\ c0.pc \notin Numbered
  BY <1>2, <1>3, Standing DEF Quote, Numbered
<1>6. /\ DOMAIN c = RequestFields /\ c.pc = "branch" /\ c.ask = ask /\ c.phase = c0.phase
      /\ c.now = c0.now /\ c.branch = c0.branch /\ c.accepts = c0.accepts
      /\ c.expected = c0.expected /\ c.number = c0.number
  BY <1>4, <1>5, MergedFields, FreshFields DEF WellFormed
<1>7. c.phase = "quote"
  BY <1>5, <1>6 DEF WellFormed, Reading, Agreed
<1>8. c.pc \notin Numbered /\ WellFormed(r, c) /\ Rests(c, h) /\ UpToDate(c, h)
  BY <1>5, <1>6, <1>7 DEF Numbered, WellFormed, Rests, UpToDate, CheckoutPCs, Agreed
<1>9. /\ checkout' = [checkout EXCEPT ![r] = c] /\ UNCHANGED heldSince
      /\ UNCHANGED <<catalogueVars, counter, orders>> /\ today' \in Days
  BY <1>1, <1>2, <1>4 DEF Quote, Become, CheckoutInv
<1> QED
  BY <1>2, <1>3, <1>5, <1>6, <1>8, <1>9, Proceeds

LEMMA OrderBegins ==
  ASSUME CheckoutInv, NEW r \in Requests, PlaceOrder(r)
  PROVE  CheckoutInv'
<1>1. PICK c0 : c0 = checkout[r]
  OBVIOUS
<1>2. PICK h0 : h0 = heldSince[r]
  OBVIOUS
<1>3. /\ WellFormed(r, c0) /\ c0.pc = "quoted" /\ c0.pc \notin Numbered /\ c0.number = NoNumber
      /\ UNCHANGED <<catalogueVars, counter, orders>> /\ today \in Days
  BY <1>1, <1>2, Standing DEF PlaceOrder, Numbered, CheckoutInv
<1>4. CASE Answer(r, "EMAIL_MISMATCH") /\ UNCHANGED today
  BY <1>1, <1>3, <1>4, Refused
<1>5. CASE /\ today' \in today..LastDay
           /\ Become(r, [pc |-> "branch", phase |-> "order", now |-> today'])
           /\ heldSince' = [heldSince EXCEPT ![r] = [d \in Docs |-> {value[d]}]]
  <2>1. PICK day : day = today'
    OBVIOUS
  <2>2. day \in Days
    BY <1>3, <1>5, <2>1, CustomersAssumption DEF Days
  <2>3. PICK c : c = Merged(c0, [pc |-> "branch", phase |-> "order", now |-> day])
    OBVIOUS
  <2>4. PICK h : h = [d \in Docs |-> {value[d]}]
    OBVIOUS
  <2>5. /\ DOMAIN c = RequestFields /\ c.pc = "branch" /\ c.phase = "order" /\ c.now = day
        /\ c.ask = c0.ask /\ c.branch = c0.branch /\ c.accepts = c0.accepts
        /\ c.expected = c0.expected /\ c.number = c0.number
    BY <2>3, <1>3, MergedFields, FreshFields DEF WellFormed
  <2>6. c.pc \notin Numbered /\ WellFormed(r, c) /\ Rests(c, h)
    BY <1>3, <2>2, <2>5
    DEF Numbered, WellFormed, Rests, CheckoutPCs, Asking, Reading, Agreed
  <2>7. UpToDate(c, h) /\ DOMAIN h = Docs
    BY <2>4 DEF UpToDate
  <2>8. checkout' = [checkout EXCEPT ![r] = c] /\ heldSince' = [heldSince EXCEPT ![r] = h]
    BY <1>1, <1>5, <2>1, <2>3, <2>4 DEF Become
  <2> QED
    BY <1>1, <1>3, <2>1, <2>2, <2>5, <2>6, <2>7, <2>8, Proceeds
<1> QED
  BY <1>4, <1>5 DEF PlaceOrder

LEMMA FirstPosition ==
  ASSUME NEW S, S \subseteq Nat, S # {}
  PROVE  Min(S) \in S /\ \A j \in S : Min(S) <= j
<1> DEFINE R == OpToRel(<, Nat)
<1>1. IsWellFoundedOn(R, Nat)
  BY NatLessThanWellFounded
<1> HIDE DEF R
<1>2. PICK m \in S : \A y \in S : ~(<<y, m>> \in R)
  BY <1>1, WFMin
<1>3. \A j \in S : m <= j
  <2> SUFFICES ASSUME NEW j \in S PROVE m <= j
    OBVIOUS
  <2>1. j \in Nat /\ m \in Nat
    OBVIOUS
  <2>2. ~(j < m)
    BY <1>2, <2>1 DEF R, OpToRel
  <2> QED
    BY <2>1, <2>2
<1> QED
  BY <1>3 DEF Min

\* The branch a request resolves to is open, and the quicker ones are not.
LEMMA ResolvedBranch ==
  ASSUME CheckoutInv, NEW r \in Requests, NEW ask \in CartRequests[r],
         NEW b, b = Resolved(ask), b # NoBranch,
         NEW h, \A d \in Docs : value[d] \in h[d]
  PROVE  /\ b \in Branches /\ value[<<"branch", b>>].isActive
         /\ value[<<"branch", b>>].acceptingOrders \in BOOLEAN
         /\ <<"branch", b>> \in Docs
         /\ ask.fulfilment = "delivery" => PassedOver(ask.at, b, h)
<1>1. \A x \in Branches : /\ <<"branch", x>> \in Docs
                          /\ value[<<"branch", x>>].acceptingOrders \in BOOLEAN
  <2> TAKE x \in Branches
  <2>1. <<"branch", x>> \in BranchDocs /\ <<"branch", x>> \in Docs
    BY DEF BranchDocs, Docs
  <2>2. value[<<"branch", x>>] \in BranchFields
    BY <2>1 DEF CheckoutInv, CatalogueInv, EditsWellTyped, FieldsOf
  <2> QED
    BY <2>1, <2>2 DEF BranchFields
<1>2. CASE ask.fulfilment = "delivery"
  <2> DEFINE S == Candidates(ask.at)
             k == Min(S)
             reach == Reach[ask.at]
  <2>1. S # {} /\ b = reach[k]
    BY <1>2 DEF Resolved
  <2>2. /\ reach \in Seq(Branches)
        /\ \A i, j \in DOMAIN reach : reach[i] = reach[j] => i = j
    BY <1>2, AskFits
  <2>3. S \subseteq DOMAIN reach /\ DOMAIN reach \subseteq Nat
    BY <2>2 DEF Candidates
  <2>4. k \in S /\ \A j \in S : k <= j
    BY <2>1, <2>3, FirstPosition
  <2>5. value[<<"branch", reach[k]>>].isActive /\ k \in DOMAIN reach
    BY <2>4 DEF Candidates
  <2>6. ASSUME NEW i \in 1..(k - 1), "delivery" \in Offers[reach[i]]
        PROVE  \E v \in h[<<"branch", reach[i]>>] : ~v.isActive
    <3>1. i \in DOMAIN reach /\ i < k
      BY <2>2, <2>5
    <3>2. i \notin S
      BY <2>3, <2>4, <3>1
    <3>3. ~value[<<"branch", reach[i]>>].isActive
      BY <2>6, <3>1, <3>2 DEF Candidates
    <3>4. value[<<"branch", reach[i]>>] \in h[<<"branch", reach[i]>>]
      BY <1>1, <2>2, <3>1
    <3> QED
      BY <3>3, <3>4
  <2>7. b \in Branches /\ value[<<"branch", b>>].isActive
    BY <2>1, <2>2, <2>5
  <2>8. PassedOver(ask.at, b, h)
    <3> HIDE DEF k, S
    <3> QED
      BY <2>1, <2>5, <2>6 DEF PassedOver
  <2> QED
    BY <1>1, <2>7, <2>8
<1>3. CASE ask.fulfilment # "delivery"
  <2>1. b = ask.at /\ value[<<"branch", b>>].isActive
    BY <1>3 DEF Resolved
  <2> QED
    BY <1>1, <1>3, <2>1, AskFits
<1> QED
  BY <1>2, <1>3

LEMMA BranchRead ==
  ASSUME CheckoutInv, NEW r \in Requests, ReadBranch(r)
  PROVE  CheckoutInv'
<1>1. PICK c0 : c0 = checkout[r]
  OBVIOUS
<1>2. PICK h : h = heldSince[r]
  OBVIOUS
<1>3. PICK b : b = Resolved(c0.ask)
  OBVIOUS
<1>4. /\ WellFormed(r, c0) /\ Rests(c0, h) /\ UpToDate(c0, h) /\ DOMAIN h = Docs
      /\ c0.pc = "branch" /\ c0.pc \notin Numbered /\ c0.number = NoNumber
      /\ UNCHANGED <<catalogueVars, counter, orders>> /\ today' \in Days
  BY <1>1, <1>2, Standing DEF ReadBranch, Numbered, CheckoutInv
<1>5. c0.ask \in CartRequests[r]
  BY <1>4 DEF WellFormed, Asking, Reading
<1>6. CASE b = NoBranch
  BY <1>1, <1>3, <1>4, <1>6, Refused DEF ReadBranch
<1>7. CASE b # NoBranch
  <2>1. PICK accepts : accepts = value[<<"branch", b>>].acceptingOrders
    OBVIOUS
  <2>2. PICK c : c = Merged(c0, [pc |-> "products", branch |-> b, accepts |-> accepts])
    OBVIOUS
  <2>3. checkout' = [checkout EXCEPT ![r] = c] /\ UNCHANGED heldSince
    BY <1>1, <1>3, <1>7, <2>1, <2>2 DEF ReadBranch, Become
  <2>4. /\ DOMAIN c = RequestFields /\ c.pc = "products" /\ c.branch = b /\ c.accepts = accepts
        /\ c.phase = c0.phase /\ c.now = c0.now /\ c.ask = c0.ask
        /\ c.expected = c0.expected /\ c.number = c0.number
    BY <2>2, <1>4, MergedFields, FreshFields DEF WellFormed
  <2>5. PICK now : now = [d \in Docs |-> {value[d]}]
    OBVIOUS
  <2>6. /\ b \in Branches /\ <<"branch", b>> \in Docs /\ accepts \in BOOLEAN
        /\ value[<<"branch", b>>].isActive
    <3>1. \A d \in Docs : value[d] \in now[d]
      BY <2>5
    <3> QED
      BY <1>3, <1>5, <1>7, <2>1, <3>1, ResolvedBranch
  <2>7. WellFormed(r, c)
    BY <1>4, <1>5, <2>4, <2>6 DEF WellFormed, CheckoutPCs, Reading, Agreed
  <2>8. Rests(c, h) /\ UpToDate(c, h)
    <3>1. c.phase = "order" => \A d \in Docs : value[d] \in h[d]
      BY <1>4, <2>4 DEF UpToDate, Reading
    <3>2. c.phase = "order" /\ c.accepts => OpenTo(c.branch, h)
      BY <2>1, <2>4, <2>6, <3>1 DEF OpenTo
    <3>3. c.phase = "order" /\ c.ask.fulfilment = "delivery" => PassedOver(c.ask.at, c.branch, h)
      BY <1>3, <1>5, <1>7, <2>4, <3>1, ResolvedBranch
    <3> QED
      BY <2>4, <3>1, <3>2, <3>3 DEF Rests, UpToDate, Agreed
  <2> QED
    BY <1>1, <1>2, <1>4, <2>3, <2>4, <2>7, <2>8, Proceeds DEF Numbered
<1> QED
  BY <1>6, <1>7

\* The menu read for a cart: its products, each listed at its price just then.
LEMMA MenuRead ==
  ASSUME CheckoutInv, NEW items, Items(items), NEW menu, menu = MenuNow(items)
  PROVE  /\ OnTheMenu(menu)
         /\ \A p \in DOMAIN menu : /\ <<"product", p>> \in Docs
                                   /\ value[<<"product", p>>].isActive
                                   /\ value[<<"product", p>>].price = menu[p].price
<1>1. \A p \in ReferencedProductIds(items) : p \in Products
  <2> SUFFICES ASSUME NEW i \in DOMAIN items, NEW p \in Wanted(items[i]) PROVE p \in Products
    BY DEF ReferencedProductIds, ToSet
  <2> QED
    BY DEF Items, Wanted, ToSet
<1>2. \A p \in Products : <<"product", p>> \in Docs /\ value[<<"product", p>>].price \in Nat
  <2> TAKE p \in Products
  <2>1. <<"product", p>> \in ProductDocs /\ <<"product", p>> \in Docs /\ <<"product", p>> \notin BranchDocs
    BY DEF ProductDocs, BranchDocs, Docs
  <2>2. value[<<"product", p>>] \in ProductFields
    BY <2>1 DEF CheckoutInv, CatalogueInv, EditsWellTyped, FieldsOf
  <2> QED
    BY <2>1, <2>2 DEF ProductFields
<1>3. /\ DOMAIN menu \subseteq ReferencedProductIds(items)
      /\ \A p \in DOMAIN menu : /\ value[<<"product", p>>].isActive
                                /\ menu[p].price = value[<<"product", p>>].price
                                /\ menu[p].taxRate = TaxRate[p]
                                /\ menu[p].taxIncluded = TaxIncluded[p]
  BY DEF MenuNow
<1>4. TaxRate \in [Products -> Nat] /\ TaxIncluded \in [Products -> BOOLEAN]
  BY CustomersAssumption
<1>5. \A p \in DOMAIN menu : menu[p].taxRate \in Nat /\ menu[p].taxIncluded \in BOOLEAN
  BY <1>1, <1>3, <1>4
<1> QED
  BY <1>1, <1>2, <1>3, <1>5 DEF OnTheMenu

LEMMA ProductsRead ==
  ASSUME CheckoutInv, NEW r \in Requests, ReadProducts(r)
  PROVE  CheckoutInv'
<1>1. PICK c0 : c0 = checkout[r]
  OBVIOUS
<1>2. PICK h : h = heldSince[r]
  OBVIOUS
<1>3. PICK menu : menu = MenuNow(c0.ask.items)
  OBVIOUS
<1>4. /\ WellFormed(r, c0) /\ Rests(c0, h) /\ UpToDate(c0, h) /\ DOMAIN h = Docs
      /\ c0.pc = "products" /\ c0.pc \notin Numbered /\ c0.number = NoNumber
      /\ UNCHANGED <<catalogueVars, counter, orders, heldSince>> /\ today' \in Days
  BY <1>1, <1>2, Standing DEF ReadProducts, Numbered, CheckoutInv
<1>5. c0.ask \in CartRequests[r]
  BY <1>4 DEF WellFormed, Asking, Reading
<1>6. PICK c : c = Merged(c0, [pc |-> "stock", menu |-> menu])
  OBVIOUS
<1>7. checkout' = [checkout EXCEPT ![r] = c]
  BY <1>1, <1>3, <1>6 DEF ReadProducts, Become
<1>8. /\ DOMAIN c = RequestFields /\ c.pc = "stock" /\ c.menu = menu /\ c.branch = c0.branch
      /\ c.accepts = c0.accepts /\ c.phase = c0.phase /\ c.now = c0.now /\ c.ask = c0.ask
      /\ c.expected = c0.expected /\ c.number = c0.number
  BY <1>4, <1>6, MergedFields, FreshFields DEF WellFormed
<1>9. /\ OnTheMenu(menu)
      /\ \A p \in DOMAIN menu : /\ <<"product", p>> \in Docs
                                /\ value[<<"product", p>>].isActive
                                /\ value[<<"product", p>>].price = menu[p].price
  BY <1>3, <1>5, AskFits, MenuRead
<1>10. WellFormed(r, c)
  BY <1>4, <1>5, <1>8, <1>9 DEF WellFormed, CheckoutPCs, Reading, Agreed
<1>11. Rests(c, h) /\ UpToDate(c, h)
  <2>1. c.phase = "order" => \A d \in Docs : value[d] \in h[d]
    BY <1>4, <1>8 DEF UpToDate, Reading
  <2>2. c.phase = "order" => \A p \in DOMAIN c.menu : Listed(p, c.menu[p].price, h)
    BY <1>8, <1>9, <2>1 DEF Listed
  <2> QED
    BY <1>4, <1>8, <2>1, <2>2 DEF Rests, UpToDate, Agreed
<1> QED
  BY <1>1, <1>2, <1>4, <1>7, <1>8, <1>10, <1>11, Proceeds DEF Numbered

LEMMA StockRead ==
  ASSUME CheckoutInv, NEW r \in Requests, ReadStock(r)
  PROVE  CheckoutInv'
<1>1. PICK c0 : c0 = checkout[r]
  OBVIOUS
<1>2. PICK h : h = heldSince[r]
  OBVIOUS
<1>3. PICK priced : priced = PricedNow(r)
  OBVIOUS
<1>4. /\ WellFormed(r, c0) /\ Rests(c0, h) /\ UpToDate(c0, h) /\ DOMAIN h = Docs
      /\ c0.pc = "stock" /\ c0.pc \notin Numbered /\ c0.number = NoNumber
      /\ UNCHANGED <<catalogueVars, counter, orders>> /\ today' \in Days
  BY <1>1, <1>2, Standing DEF ReadStock, Numbered, CheckoutInv
<1>5. c0.ask \in CartRequests[r] /\ c0.branch \in Branches /\ OnTheMenu(c0.menu)
  BY <1>4 DEF WellFormed, Asking, Reading
<1>6. CASE priced.code # "OK"
  BY <1>1, <1>3, <1>4, <1>6, Refused DEF ReadStock
<1>7. CASE priced.code = "OK"
  <2>1. PICK stocked : stocked = StockedNow(c0.branch, c0.menu)
    OBVIOUS
  <2>2. /\ Acceptance(r) = "OK" /\ priced.totals.grandTotal \in Nat
        /\ priced.totals.grandTotal - Fee(c0.ask.fulfilment) = Worth(priced.lines)
        /\ TaxReconciles(priced.lines, priced.totals)
        /\ \A i \in DOMAIN priced.lines : \A child \in ToSet(priced.lines[i].contents) :
             /\ child.productId \in DOMAIN c0.menu /\ child.productId \in stocked
             /\ child.unitPrice = c0.menu[child.productId].price
    <3>1. PICK acceptance : acceptance = Acceptance(r)
      OBVIOUS
    <3>2. priced = PriceCart(c0.ask.items, c0.ask.fulfilment, acceptance, c0.menu, stocked)
      BY <1>1, <1>3, <2>1, <3>1 DEF PricedNow
    <3>3. Items(c0.ask.items)
      BY <1>5, AskFits
    <3> QED
      BY <1>5, <1>7, <3>1, <3>2, <3>3, PricedCart
  <2>3. PICK total : total = priced.totals.grandTotal
    OBVIOUS
  <2>4. CASE /\ c0.phase = "quote" /\ UNCHANGED heldSince
             /\ Become(r, [pc |-> "quoted", expected |-> total, branch |-> NoBranch,
                           menu |-> NoMenu, accepts |-> FALSE])
    <3>1. PICK c : c = Merged(c0, [pc |-> "quoted", expected |-> total, branch |-> NoBranch,
                                   menu |-> NoMenu, accepts |-> FALSE])
      OBVIOUS
    <3>2. checkout' = [checkout EXCEPT ![r] = c]
      BY <1>1, <2>4, <3>1 DEF Become
    <3>3. /\ DOMAIN c = RequestFields /\ c.pc = "quoted" /\ c.branch = NoBranch
          /\ c.phase = c0.phase /\ c.now = c0.now /\ c.ask = c0.ask
          /\ c.expected = total /\ c.number = c0.number
      BY <1>4, <3>1, MergedFields, FreshFields DEF WellFormed
    <3>4. WellFormed(r, c) /\ Rests(c, h) /\ UpToDate(c, h) /\ c.pc \notin Numbered
      BY <1>4, <1>5, <2>2, <2>3, <2>4, <3>3
      DEF WellFormed, Rests, UpToDate, CheckoutPCs, Agreed, Numbered
    <3> QED
      BY <1>1, <1>2, <1>4, <2>4, <3>2, <3>3, <3>4, Proceeds
  <2>5. CASE /\ c0.phase = "order" /\ total = c0.expected /\ UNCHANGED heldSince
             /\ Become(r, [pc |-> "agreed", priced |-> priced, menu |-> NoMenu,
                           accepts |-> FALSE])
    <3>1. PICK c : c = Merged(c0, [pc |-> "agreed", priced |-> priced, menu |-> NoMenu,
                                   accepts |-> FALSE])
      OBVIOUS
    <3>2. checkout' = [checkout EXCEPT ![r] = c]
      BY <1>1, <2>5, <3>1 DEF Become
    <3>3. /\ DOMAIN c = RequestFields /\ c.pc = "agreed" /\ c.branch = c0.branch
          /\ c.phase = c0.phase /\ c.now = c0.now /\ c.ask = c0.ask
          /\ c.expected = c0.expected /\ c.number = c0.number /\ c.priced = priced
      BY <1>4, <3>1, MergedFields, FreshFields DEF WellFormed
    <3>4. WellFormed(r, c)
      BY <1>4, <1>5, <2>5, <3>3 DEF WellFormed, CheckoutPCs, Agreed
    <3>5. \A d \in Docs : value[d] \in h[d]
      BY <1>4, <2>5 DEF UpToDate, Reading
    <3>6. OpenTo(c0.branch, h)
      <4>1. c0.accepts
        BY <1>1, <2>2 DEF Acceptance
      <4> QED
        BY <1>4, <2>5, <4>1 DEF Rests
    <3>7. LinesHeld(priced.lines, c0.branch, h)
      <4> SUFFICES ASSUME NEW i \in DOMAIN priced.lines,
                          NEW line \in ToSet(priced.lines[i].contents)
                   PROVE  /\ Listed(line.productId, line.unitPrice, h)
                          /\ Stocked(c0.branch, line.productId, h)
        BY DEF LinesHeld
      <4>1. PICK p : p = line.productId
        OBVIOUS
      <4>2. p \in DOMAIN c0.menu /\ p \in stocked /\ line.unitPrice = c0.menu[p].price
        BY <2>2, <4>1
      <4>3. Listed(p, c0.menu[p].price, h)
        BY <1>4, <2>5, <4>2 DEF Rests
      <4>4. value[<<"stock", c0.branch, p>>].inStock
        BY <2>1, <4>2 DEF StockedNow
      <4>5. <<"stock", c0.branch, p>> \in Docs
        BY <1>5, <4>2 DEF OnTheMenu, Docs, StockDocs
      <4>6. Stocked(c0.branch, p, h)
        BY <3>5, <4>4, <4>5 DEF Stocked
      <4> QED
        BY <4>1, <4>2, <4>3, <4>6
    <3>8. Rests(c, h) /\ UpToDate(c, h) /\ c.pc \notin Numbered
      <4>1. c.ask.fulfilment = "delivery" => PassedOver(c.ask.at, c.branch, h)
        BY <1>4, <2>5, <3>3 DEF Rests
      <4> QED
        BY <2>2, <2>3, <2>5, <3>3, <3>6, <3>7, <4>1 DEF Rests, UpToDate, Reading, Numbered
    <3> QED
      BY <1>1, <1>2, <1>4, <2>5, <3>2, <3>3, <3>4, <3>8, Proceeds
  <2>6. CASE Answer(r, "PRICE_CHANGED")
    BY <1>1, <1>4, <2>6, Refused
  <2>7. c0.phase \in {"quote", "order"}
    BY <1>4 DEF WellFormed
  <2> QED
    BY <1>1, <1>3, <1>7, <2>3, <2>4, <2>5, <2>6, <2>7 DEF ReadStock, AssertQuoteStillHolds
<1> QED
  BY <1>6, <1>7

LEMMA ReadBreaks ==
  ASSUME CheckoutInv, NEW r \in Requests, ReadFails(r)
  PROVE  CheckoutInv'
BY Refused DEF ReadFails, Numbered, CheckoutInv

-----------------------------------------------------------------------------
(* The steps that give out a number, store the order or fail to.           *)

\* The next number of a day goes to r, which had none.
LEMMA NumberGiven ==
  ASSUME NumbersAreOne, NEW r \in Requests, NEW c, NEW day \in Days, NEW n,
         n = counter[day] + 1, counter' = [counter EXCEPT ![day] = n],
         checkout[r].pc \notin Numbered,
         c.pc \in Numbered, c.now = day, c.number = <<day, n>>,
         checkout'[r] = c, \A s \in Requests : s # r => checkout'[s] = checkout[s]
  PROVE  NumbersAreOne'
<1>1. /\ counter \in [Days -> Nat] /\ counter' \in [Days -> Nat] /\ counter'[day] = n
      /\ n \in Nat /\ n \in 1..counter'[day]
      /\ \A d \in Days : d # day => counter'[d] = counter[d]
      /\ \A d \in Days : counter[d] <= counter'[d]
  BY DEF NumbersAreOne
<1>2. ASSUME NEW s \in Requests, s # r PROVE checkout[s].number # <<day, n>>
  <2>1. CASE checkout[s].pc \in Numbered
    <3>1. PICK m \in 1..counter[checkout[s].now] : checkout[s].number = <<checkout[s].now, m>>
      BY <2>1 DEF NumbersAreOne
    <3>2. CASE checkout[s].now = day
      <4>1. m # n
        BY <1>1, <3>1, <3>2
      <4> QED
        BY <3>1, <4>1
    <3>3. CASE checkout[s].now # day
      BY <3>1, <3>3
    <3> QED
      BY <3>2, <3>3
  <2>2. CASE checkout[s].pc \notin Numbered
    <3>1. checkout[s].number = NoNumber
      BY <2>2 DEF NumbersAreOne
    <3>2. <<day, n>> \in Nat \X Nat
      BY <1>1, CustomersAssumption DEF Days
    <3> QED
      BY <3>1, <3>2, CustomersAssumption
  <2> QED
    BY <2>1, <2>2
<1>3. NumbersAreOne'
  <2>1. ASSUME NEW s \in Requests
        PROVE  IF checkout'[s].pc \in Numbered
               THEN /\ checkout'[s].now \in Days
                    /\ \E k \in 1..counter'[checkout'[s].now] :
                           checkout'[s].number = <<checkout'[s].now, k>>
               ELSE checkout'[s].number = NoNumber
    <3>1. CASE s = r
      BY <1>1, <3>1 DEF Numbered
    <3>2. CASE s # r /\ checkout[s].pc \in Numbered
      <4>1. checkout'[s] = checkout[s] /\ checkout[s].now \in Days
        BY <3>2 DEF NumbersAreOne
      <4>2. PICK k \in 1..counter[checkout[s].now] : checkout[s].number = <<checkout[s].now, k>>
        BY <3>2 DEF NumbersAreOne
      <4>3. k \in 1..counter'[checkout[s].now]
        BY <1>1, <4>1
      <4> QED
        BY <3>2, <4>1, <4>2, <4>3
    <3>3. CASE s # r /\ checkout[s].pc \notin Numbered
      BY <3>3 DEF NumbersAreOne
    <3> QED
      BY <3>1, <3>2, <3>3
  <2>2. ASSUME NEW s \in Requests, NEW t \in Requests, checkout'[s].pc \in Numbered,
               checkout'[s].number = checkout'[t].number
        PROVE  s = t
    BY <1>2, <2>2 DEF NumbersAreOne
  <2>3. ASSUME NEW d \in Days, NEW k \in 1..counter'[d]
        PROVE  \E s \in Requests : checkout'[s].pc \in Numbered /\ checkout'[s].number = <<d, k>>
    <3>1. CASE d = day /\ k = n
      BY <3>1 DEF Numbered
    <3>2. CASE ~(d = day /\ k = n)
      <4>1. k \in 1..counter[d]
        BY <1>1, <2>3, <3>2
      <4>2. PICK s \in Requests : checkout[s].pc \in Numbered /\ checkout[s].number = <<d, k>>
        BY <4>1 DEF NumbersAreOne
      <4>3. s # r
        BY <4>2
      <4> QED
        BY <4>2, <4>3
    <3> QED
      BY <3>1, <3>2
  <2> QED
    BY <1>1, <2>1, <2>2, <2>3 DEF NumbersAreOne
<1> QED
  BY <1>3

LEMMA NumberTaken ==
  ASSUME CheckoutInv, NEW r \in Requests, NextOrderNumber(r)
  PROVE  CheckoutInv'
<1>1. PICK c0 : c0 = checkout[r]
  OBVIOUS
<1>2. PICK h : h = heldSince[r]
  OBVIOUS
<1>3. /\ WellFormed(r, c0) /\ Rests(c0, h) /\ UpToDate(c0, h) /\ DOMAIN h = Docs
      /\ c0.pc = "agreed" /\ c0.pc \notin Numbered /\ c0.number = NoNumber
      /\ UNCHANGED <<catalogueVars, today, orders, heldSince>>
  BY <1>1, <1>2, Standing DEF NextOrderNumber, Numbered
<1>4. PICK day : day = c0.now
  OBVIOUS
<1>5. PICK n : n = counter[day] + 1
  OBVIOUS
<1>6. PICK c : c = Merged(c0, [pc |-> "numbered", number |-> <<day, n>>])
  OBVIOUS
<1>7. /\ checkout' = [checkout EXCEPT ![r] = c]
      /\ counter' = [counter EXCEPT ![day] = counter[day] + 1]
  BY <1>1, <1>4, <1>5, <1>6 DEF NextOrderNumber, Become
<1>8. /\ DOMAIN c = RequestFields /\ c.pc = "numbered" /\ c.branch = c0.branch
      /\ c.phase = c0.phase /\ c.now = day /\ c.ask = c0.ask /\ c.priced = c0.priced
      /\ c.expected = c0.expected /\ c.number = <<day, n>>
  BY <1>3, <1>4, <1>6, MergedFields, FreshFields DEF WellFormed
<1>9. c0.phase = "order" /\ day \in Days
  BY <1>3, <1>4 DEF WellFormed, Agreed
<1>10. WellFormed(r, c) /\ UpToDate(c, h)
  BY <1>3, <1>4, <1>8, <1>9 DEF WellFormed, UpToDate, CheckoutPCs, Asking, Agreed, Reading
<1>11. Rests(c, h)
  BY <1>3, <1>8, <1>9 DEF Rests, Agreed
<1>12. /\ CatalogueInv' /\ RequestsRest' /\ DOMAIN checkout = Requests
       /\ checkout'[r] = c /\ \A s \in Requests : s # r => checkout'[s] = checkout[s]
  BY <1>2, <1>3, <1>7, <1>10, <1>11, OneMoves
<1>13. NumbersAreOne'
  BY <1>1, <1>3, <1>5, <1>7, <1>8, <1>9, <1>12, NumberGiven DEF CheckoutInv, Numbered
<1>14. OrdersArePlaced'
  <2>1. checkout[r].pc # "placed" /\ c.pc # "placed"
    BY <1>1, <1>3, <1>8
  <2> QED
    BY <1>3, <1>12, <2>1 DEF CheckoutInv, OrdersArePlaced
<1> QED
  BY <1>3, <1>12, <1>13, <1>14 DEF CheckoutInv

\* The counter counts, and the request that asked it fails.
LEMMA NumberLost ==
  ASSUME CheckoutInv, NEW r \in Requests, CounterFails(r)
  PROVE  CheckoutInv'
<1>1. PICK c0 : c0 = checkout[r]
  OBVIOUS
<1>2. PICK h0 : h0 = heldSince[r]
  OBVIOUS
<1>3. /\ WellFormed(r, c0) /\ c0.pc = "agreed" /\ c0.pc \notin Numbered
      /\ UNCHANGED <<catalogueVars, today, orders>>
  BY <1>1, <1>2, Standing DEF CounterFails, Numbered
<1>4. CASE Answer(r, "INTERNAL") /\ UNCHANGED counter
  BY <1>1, <1>3, <1>4, Refused DEF CheckoutInv
<1>5. CASE ~(Answer(r, "INTERNAL") /\ UNCHANGED counter)
  <2>1. PICK day : day = c0.now
    OBVIOUS
  <2>2. PICK n : n = counter[day] + 1
    OBVIOUS
  <2>3. PICK c : c = [FreshCheckout EXCEPT !.pc = "failed", !.now = day,
                                           !.number = <<day, n>>]
    OBVIOUS
  <2>4. PICK h : h = [d \in Docs |-> {}]
    OBVIOUS
  <2>5. /\ checkout' = [checkout EXCEPT ![r] = c] /\ heldSince' = [heldSince EXCEPT ![r] = h]
        /\ counter' = [counter EXCEPT ![day] = n]
    BY <1>1, <1>5, <2>1, <2>2, <2>3, <2>4 DEF CounterFails
  <2>6. /\ DOMAIN c = RequestFields /\ c.pc = "failed" /\ c.phase = "quote" /\ c.now = day
        /\ c.branch = NoBranch /\ c.expected = 0 /\ c.number = <<day, n>>
    BY <2>3 DEF RequestFields, FreshCheckout
  <2>7. WellFormed(r, c) /\ UpToDate(c, h) /\ Rests(c, h) /\ DOMAIN h = Docs
    <3>1. c.pc \notin Asking /\ c.pc \in CheckoutPCs
      BY <2>6 DEF Asking, Reading, Agreed, CheckoutPCs
    <3>2. c.pc \notin {"products", "stock"} \cup Agreed /\ c.pc # "stock" /\ c.pc \notin Agreed
      BY <3>1 DEF Asking, Reading
    <3>3. WellFormed(r, c)
      BY <2>6, <3>1, <3>2 DEF WellFormed
    <3> QED
      BY <2>4, <2>6, <3>3 DEF UpToDate, Rests
  <2>8. /\ CatalogueInv' /\ RequestsRest'
        /\ checkout'[r] = c /\ \A s \in Requests : s # r => checkout'[s] = checkout[s]
    BY <1>3, <2>5, <2>7, OneMoves
  <2>9. day \in Days
    BY <1>3, <2>1 DEF WellFormed, Agreed
  <2>10. NumbersAreOne'
    BY <1>1, <1>3, <2>2, <2>5, <2>6, <2>8, <2>9, NumberGiven DEF CheckoutInv, Numbered
  <2>11. OrdersArePlaced'
    BY <1>1, <1>3, <2>6, <2>8 DEF CheckoutInv, OrdersArePlaced
  <2> QED
    BY <1>3, <2>8, <2>10, <2>11 DEF CheckoutInv
<1> QED
  BY <1>4, <1>5

\* A request keeps its number, whatever becomes of the order.
LEMMA NumberKept ==
  ASSUME NumbersAreOne, NEW r \in Requests, NEW c,
         checkout[r].pc \in Numbered, c.pc \in Numbered,
         c.now = checkout[r].now, c.number = checkout[r].number,
         checkout'[r] = c, \A s \in Requests : s # r => checkout'[s] = checkout[s],
         UNCHANGED counter
  PROVE  NumbersAreOne'
<1>1. \A s \in Requests : /\ checkout'[s].pc \in Numbered <=> checkout[s].pc \in Numbered
                          /\ checkout'[s].number = checkout[s].number
                          /\ checkout[s].pc \in Numbered => checkout'[s].now = checkout[s].now
  OBVIOUS
<1> QED
  BY <1>1 DEF NumbersAreOne

LEMMA OrderStored ==
  ASSUME CheckoutInv, NEW r \in Requests, StoreOrder(r)
  PROVE  CheckoutInv'
<1>1. PICK c0 : c0 = checkout[r]
  OBVIOUS
<1>2. PICK h : h = heldSince[r]
  OBVIOUS
<1>3. /\ WellFormed(r, c0) /\ Rests(c0, h) /\ UpToDate(c0, h) /\ DOMAIN h = Docs
      /\ c0.pc = "numbered" /\ UNCHANGED <<catalogueVars, today, counter, heldSince>>
  BY <1>1, <1>2, Standing DEF StoreOrder
<1>4. PICK c : c = Merged(c0, [pc |-> "placed"])
  OBVIOUS
<1>5. checkout' = [checkout EXCEPT ![r] = c] /\ orders' = orders \cup {OrderFrom(r, c0)}
  BY <1>1, <1>4 DEF StoreOrder, Become, OrderOf, OrderFrom
<1>6. /\ DOMAIN c = RequestFields /\ c.pc = "placed" /\ c.branch = c0.branch
      /\ c.phase = c0.phase /\ c.now = c0.now /\ c.ask = c0.ask /\ c.priced = c0.priced
      /\ c.expected = c0.expected /\ c.number = c0.number
  BY <1>3, <1>4, MergedFields, FreshFields DEF WellFormed
<1>7. WellFormed(r, c) /\ UpToDate(c, h)
  BY <1>3, <1>6 DEF WellFormed, UpToDate, CheckoutPCs, Asking, Agreed, Reading
<1>8. Rests(c, h)
  BY <1>3, <1>6 DEF Rests, Agreed
<1>9. /\ CatalogueInv' /\ RequestsRest' /\ DOMAIN checkout = Requests
      /\ checkout'[r] = c /\ \A s \in Requests : s # r => checkout'[s] = checkout[s]
  BY <1>2, <1>3, <1>5, <1>7, <1>8, OneMoves
<1>10. NumbersAreOne'
  BY <1>1, <1>3, <1>6, <1>9, NumberKept DEF CheckoutInv, Numbered
<1>11. PICK order : order = OrderFrom(r, c)
  OBVIOUS
<1>12. order = OrderFrom(r, c0) /\ order.by = r
  BY <1>6, <1>11 DEF OrderFrom
<1>13. OrdersArePlaced'
  <2>1. \A o \in orders : /\ o.by \in Requests /\ o.by # r /\ checkout[o.by].pc = "placed"
                          /\ o = OrderFrom(o.by, checkout[o.by])
    BY <1>1, <1>3 DEF CheckoutInv, OrdersArePlaced
  <2>2. \A o \in orders' : /\ o.by \in Requests /\ checkout'[o.by].pc = "placed"
                           /\ o = OrderFrom(o.by, checkout'[o.by])
    BY <1>5, <1>6, <1>9, <1>11, <1>12, <2>1
  <2>3. \A s \in Requests : checkout'[s].pc = "placed" => OrderFrom(s, checkout'[s]) \in orders'
    BY <1>5, <1>9, <1>11, <1>12 DEF CheckoutInv, OrdersArePlaced
  <2> QED
    BY <2>2, <2>3 DEF OrdersArePlaced
<1> QED
  BY <1>3, <1>9, <1>10, <1>13 DEF CheckoutInv

LEMMA StoringFails ==
  ASSUME CheckoutInv, NEW r \in Requests, StoreFails(r)
  PROVE  CheckoutInv'
<1>1. PICK c0 : c0 = checkout[r]
  OBVIOUS
<1>2. c0.pc = "numbered" /\ UNCHANGED <<catalogueVars, today, counter, orders>>
  BY <1>1 DEF StoreFails
<1>3. PICK c : c = [FreshCheckout EXCEPT !.pc = "failed", !.now = c0.now, !.number = c0.number]
  OBVIOUS
<1>4. PICK h : h = [d \in Docs |-> {}]
  OBVIOUS
<1>5. checkout' = [checkout EXCEPT ![r] = c] /\ heldSince' = [heldSince EXCEPT ![r] = h]
  BY <1>1, <1>3, <1>4 DEF StoreFails
<1>6. /\ DOMAIN c = RequestFields /\ c.pc = "failed" /\ c.phase = "quote" /\ c.now = c0.now
      /\ c.branch = NoBranch /\ c.expected = 0 /\ c.number = c0.number
  BY <1>3 DEF RequestFields, FreshCheckout
<1>7. WellFormed(r, c) /\ UpToDate(c, h) /\ Rests(c, h) /\ DOMAIN h = Docs
  <2>1. c.pc \notin Asking /\ c.pc \in CheckoutPCs
    BY <1>6 DEF Asking, Reading, Agreed, CheckoutPCs
  <2>2. c.pc \notin {"products", "stock"} \cup Agreed /\ c.pc # "stock" /\ c.pc \notin Agreed
    BY <2>1 DEF Asking, Reading
  <2>3. WellFormed(r, c)
    BY <1>6, <2>1, <2>2 DEF WellFormed
  <2> QED
    BY <1>4, <1>6, <2>3 DEF UpToDate, Rests
<1>8. /\ CatalogueInv' /\ RequestsRest'
      /\ checkout'[r] = c /\ \A s \in Requests : s # r => checkout'[s] = checkout[s]
  BY <1>2, <1>5, <1>7, OneMoves
<1>9. NumbersAreOne'
  BY <1>1, <1>2, <1>6, <1>8, NumberKept DEF CheckoutInv, Numbered
<1>10. OrdersArePlaced'
  BY <1>1, <1>2, <1>6, <1>8 DEF CheckoutInv, OrdersArePlaced
<1> QED
  BY <1>2, <1>8, <1>9, <1>10 DEF CheckoutInv

-----------------------------------------------------------------------------
(* An edit of staff moves no request, and those that read see it.          *)

\* What a reading request rests on is not lost when its history grows.
LEMMA RestsGrow ==
  ASSUME NEW r \in Requests, NEW c, WellFormed(r, c), c.pc \in Reading,
         NEW h, Rests(c, h), NEW k, \A d \in Docs : h[d] \subseteq k[d]
  PROVE  Rests(c, k)
<1>1. SUFFICES ASSUME c.phase = "order" PROVE Rests(c, k)
  BY DEF Rests
<1>2. c.pc \notin Agreed
  BY DEF Reading, Agreed
<1>3. c.ask \in CartRequests[r]
  BY DEF WellFormed, Asking
<1>4. \A b \in Branches : <<"branch", b>> \in Docs
  BY DEF Docs, BranchDocs
<1>5. ASSUME c.pc \in {"products", "stock"}, c.accepts PROVE OpenTo(c.branch, k)
  <2>1. OpenTo(c.branch, h) /\ c.branch \in Branches
    BY <1>1, <1>5 DEF Rests, WellFormed
  <2> QED
    BY <1>4, <2>1 DEF OpenTo
<1>6. ASSUME c.pc \in {"products", "stock"}, c.ask.fulfilment = "delivery"
      PROVE  PassedOver(c.ask.at, c.branch, k)
  <2> DEFINE reach == Reach[c.ask.at]
  <2>1. reach \in Seq(Branches)
    BY <1>3, <1>6, AskFits
  <2>2. PassedOver(c.ask.at, c.branch, h)
    BY <1>1, <1>6 DEF Rests
  <2>3. PICK n \in DOMAIN reach :
            /\ reach[n] = c.branch
            /\ \A i \in 1..(n - 1) : "delivery" \in Offers[reach[i]] =>
                   \E v \in h[<<"branch", reach[i]>>] : ~v.isActive
    BY <2>2 DEF PassedOver
  <2>4. \A i \in 1..(n - 1) : reach[i] \in Branches
    BY <2>1, <2>3
  <2>5. \A i \in 1..(n - 1) : h[<<"branch", reach[i]>>] \subseteq k[<<"branch", reach[i]>>]
    BY <1>4, <2>4
  <2>6. \A i \in 1..(n - 1) : "delivery" \in Offers[reach[i]] =>
            \E v \in k[<<"branch", reach[i]>>] : ~v.isActive
    BY <2>3, <2>5
  <2> QED
    BY <2>3, <2>6 DEF PassedOver
<1>7. ASSUME c.pc = "stock", NEW p \in DOMAIN c.menu PROVE Listed(p, c.menu[p].price, k)
  <2>1. Listed(p, c.menu[p].price, h) /\ p \in Products
    BY <1>1, <1>7 DEF Rests, WellFormed, OnTheMenu
  <2>2. <<"product", p>> \in Docs
    BY <2>1 DEF Docs, ProductDocs
  <2> QED
    BY <2>1, <2>2 DEF Listed
<1> QED
  BY <1>2, <1>5, <1>6, <1>7 DEF Rests

LEMMA StaffSteps ==
  ASSUME CheckoutInv, Staff
  PROVE  CheckoutInv'
<1>1. CatalogueInv' /\ today' = today /\ checkout' = checkout /\ counter' = counter /\ orders' = orders
  BY CatalogueSteps DEF Staff, CheckoutInv
<1>2. /\ DOMAIN heldSince' = Requests
      /\ \A r \in Requests : heldSince'[r] =
            IF checkout[r].phase = "order" /\ checkout[r].pc \in Reading
            THEN [d \in Docs |-> heldSince[r][d] \cup {value'[d]}]
            ELSE heldSince[r]
  BY DEF Staff, Remember, Reading
<1>3. ASSUME NEW r \in Requests, NEW c, c = checkout[r], NEW k, k = heldSince'[r]
      PROVE  WellFormed(r, c) /\ Rests(c, k) /\ UpToDate(c, k)' /\ DOMAIN k = Docs
  <2>1. PICK h : h = heldSince[r]
    OBVIOUS
  <2>2. WellFormed(r, c) /\ Rests(c, h) /\ UpToDate(c, h) /\ DOMAIN h = Docs
    BY <1>3, <2>1, Standing
  <2>3. CASE c.phase = "order" /\ c.pc \in Reading
    <3>1. k = [d \in Docs |-> h[d] \cup {value'[d]}]
      BY <1>2, <1>3, <2>1, <2>3
    <3>2. \A d \in Docs : h[d] \subseteq k[d] /\ value'[d] \in k[d]
      BY <3>1
    <3>3. Rests(c, k)
      BY <2>2, <2>3, <3>2, RestsGrow
    <3> QED
      BY <2>2, <3>1, <3>2, <3>3 DEF UpToDate
  <2>4. CASE ~(c.phase = "order" /\ c.pc \in Reading)
    <3>1. k = h
      BY <1>2, <1>3, <2>1, <2>4
    <3> QED
      BY <2>2, <2>4, <3>1 DEF UpToDate
  <2> QED
    BY <2>3, <2>4
<1>4. RequestsRest'
  <2>1. DOMAIN checkout' = Requests
    BY <1>1 DEF CheckoutInv, RequestsRest
  <2>2. ASSUME NEW r \in Requests
        PROVE  /\ WellFormed(r, checkout'[r]) /\ Rests(checkout'[r], heldSince'[r])
               /\ UpToDate(checkout[r], heldSince[r])' /\ DOMAIN heldSince'[r] = Docs
    <3>1. PICK c : c = checkout[r]
      OBVIOUS
    <3>2. PICK k : k = heldSince'[r]
      OBVIOUS
    <3>3. WellFormed(r, c) /\ Rests(c, k) /\ UpToDate(c, k)' /\ DOMAIN k = Docs
      BY <1>3, <3>1, <3>2
    <3> QED
      BY <1>1, <3>1, <3>2, <3>3 DEF UpToDate
  <2> QED
    BY <1>2, <2>1, <2>2 DEF RequestsRest
<1>5. NumbersAreOne' /\ OrdersArePlaced'
  BY <1>1 DEF CheckoutInv, NumbersAreOne, OrdersArePlaced
<1> QED
  BY <1>1, <1>4, <1>5 DEF CheckoutInv

-----------------------------------------------------------------------------
LEMMA CheckoutStarts == ASSUME Init PROVE CheckoutInv
<1>1. CatalogueInv /\ CustomerInit
  BY CatalogueStarts DEF Init
<1>2. PICK c : c = FreshCheckout
  OBVIOUS
<1>3. /\ today \in Days /\ DOMAIN checkout = Requests /\ DOMAIN heldSince = Requests
      /\ \A r \in Requests : checkout[r] = c /\ DOMAIN heldSince[r] = Docs
      /\ counter \in [Days -> Nat] /\ \A d \in Days : counter[d] = 0
      /\ orders = {}
  BY <1>1, <1>2, CustomersAssumption DEF CustomerInit, Days
<1>4. /\ DOMAIN c = RequestFields /\ c.pc = "idle" /\ c.phase = "quote"
      /\ c.branch = NoBranch /\ c.expected = 0 /\ c.number = NoNumber
  BY <1>2, FreshFields DEF RequestFields
<1>5. ASSUME NEW r \in Requests PROVE WellFormed(r, c)
  <2>1. c.pc \notin Asking /\ c.pc \in CheckoutPCs
    BY <1>4 DEF Asking, Reading, Agreed, CheckoutPCs
  <2>2. c.pc \notin {"products", "stock"} \cup Agreed /\ c.pc # "stock" /\ c.pc \notin Agreed
    BY <2>1 DEF Asking, Reading
  <2> QED
    BY <1>4, <2>1, <2>2 DEF WellFormed
<1>6. RequestsRest
  BY <1>3, <1>4, <1>5 DEF RequestsRest, Rests, UpToDate
<1>7. NumbersAreOne /\ OrdersArePlaced
  <2>1. c.pc \notin Numbered /\ c.pc # "placed"
    BY <1>4 DEF Numbered
  <2>2. NumbersAreOne
    BY <1>3, <1>4, <2>1 DEF NumbersAreOne
  <2>3. OrdersArePlaced
    BY <1>3, <2>1 DEF OrdersArePlaced
  <2> QED
    BY <2>2, <2>3
<1> QED
  BY <1>1, <1>3, <1>6, <1>7 DEF CheckoutInv

LEMMA CheckoutSteps == ASSUME CheckoutInv, [Next]_vars PROVE CheckoutInv'
<1>1. ASSUME NEW r \in Requests, CheckoutStep(r) PROVE CheckoutInv'
  BY <1>1, QuoteMoves, OrderBegins, BranchRead, ProductsRead, StockRead, ReadBreaks,
     NumberTaken, NumberLost, OrderStored, StoringFails DEF CheckoutStep
<1>2. CASE UNCHANGED vars
  BY <1>2, CatalogueRests
  DEF vars, catalogueVars, customerVars, CheckoutInv, RequestsRest, UpToDate, NumbersAreOne,
      OrdersArePlaced
<1> QED
  BY <1>1, <1>2, StaffSteps DEF Next

(* What the steps of staff and of customers preserve together: the edits   *)
(* and the trail, what each request's reads established, whose number is   *)
(* whose, and which requests the stored orders are of.                     *)
THEOREM CheckoutInvariant == Spec => []CheckoutInv
<1>1. Init => CheckoutInv
  BY CheckoutStarts
<1>2. CheckoutInv /\ [Next]_vars => CheckoutInv'
  BY CheckoutSteps
<1> QED
  BY <1>1, <1>2, PTL DEF Spec

-----------------------------------------------------------------------------
LEMMA InvImpliesType == ASSUME CheckoutInv PROVE TypeOK
<1>1. CatalogueTypeOK
  <2>1. \A d \in Docs : value[d] \in FieldsOf(d)
    BY DEF CheckoutInv, CatalogueInv, EditsWellTyped
  <2>2. /\ \A d \in BranchDocs : value[d] \in BranchFields
        /\ \A d \in ProductDocs : value[d] \in ProductFields
        /\ \A d \in StockDocs : value[d] \in StockFields
    BY <2>1, Kinds DEF Docs, FieldsOf
  <2>3. \A i \in DOMAIN trail : trail[i].doc \in Docs
    <3>1. trail \in Seq(Rows) /\ \A row \in Rows : row.doc \in Docs
      BY DEF CheckoutInv, CatalogueInv, EditsWellTyped, Rows
    <3> QED
      BY <3>1
  <2> QED
    BY <2>2, <2>3 DEF CheckoutInv, CatalogueInv, EditsWellTyped, CatalogueTypeOK, EditPCs
<1>2. ASSUME NEW r \in Requests
      PROVE  /\ checkout[r].pc \in CheckoutPCs
             /\ checkout[r].phase \in {"quote", "order"}
             /\ checkout[r].branch \in Branches \cup {NoBranch}
             /\ checkout[r].pc \notin {"idle", "refused", "failed"} => checkout[r].ask \in CartRequests[r]
             /\ checkout[r].phase = "order" => checkout[r].now \in Days
             /\ checkout[r].expected \in Nat
             /\ checkout[r].pc = "placed" => checkout[r].branch \in Branches
  <2>1. WellFormed(r, checkout[r])
    BY DEF CheckoutInv, RequestsRest
  <2> QED
    BY <2>1 DEF WellFormed, CheckoutPCs, Asking, Reading, Agreed
<1>3. ASSUME NEW o \in orders PROVE o.by \in Requests /\ o.branch \in Branches
  <2>1. /\ o.by \in Requests /\ checkout[o.by].pc = "placed"
        /\ o.branch = checkout[o.by].branch
    BY DEF CheckoutInv, OrdersArePlaced, OrderFrom
  <2> QED
    BY <1>2, <2>1
<1> QED
  BY <1>1, <1>2, <1>3 DEF TypeOK, CheckoutInv, NumbersAreOne

(* Every variable of the checkout stays in its type.                       *)
THEOREM CheckoutTypes == Spec => []TypeOK
<1>1. CheckoutInv => TypeOK
  BY InvImpliesType
<1> QED
  BY <1>1, CheckoutInvariant, PTL

(* What the audit trail says of a document is what the document holds, as  *)
(* long as no two edits met on it and no row was lost; and no flag, price  *)
(* or stock ever leaves what some row, or the start, accounts for.         *)
THEOREM TrailExplainsCatalogue == Spec => []TrailTellsState
<1>1. CheckoutInv => TrailTellsState
  BY TrailExplains DEF CheckoutInv
<1> QED
  BY <1>1, CheckoutInvariant, PTL

\* A stored order, by the request that placed it.
LEMMA OrderIsOf ==
  ASSUME CheckoutInv, NEW o \in orders, NEW c, c = checkout[o.by], NEW h, h = heldSince[o.by]
  PROVE  /\ o.by \in Requests /\ c.pc = "placed" /\ c.phase = "order"
         /\ c.ask \in CartRequests[o.by]
         /\ o.number = c.number /\ o.branch = c.branch /\ o.fulfilment = c.ask.fulfilment
         /\ o.items = c.priced.lines /\ o.totals = c.priced.totals
         /\ Rests(c, h)
<1>1. o.by \in Requests /\ c.pc = "placed" /\ o = OrderFrom(o.by, c)
  BY DEF CheckoutInv, OrdersArePlaced
<1>2. WellFormed(o.by, c) /\ Rests(c, h)
  BY <1>1 DEF CheckoutInv, RequestsRest
<1>3. c.phase = "order" /\ c.ask \in CartRequests[o.by]
  BY <1>1, <1>2 DEF WellFormed, Asking, Agreed
<1>4. /\ o.number = c.number /\ o.branch = c.branch /\ o.fulfilment = c.ask.fulfilment
      /\ o.items = c.priced.lines /\ o.totals = c.priced.totals
  BY <1>1 DEF OrderFrom
<1> QED
  BY <1>1, <1>2, <1>3, <1>4

(* An order rests on what was true after the customer pressed the button:  *)
(* the branch was open to orders, and each product was listed at the price *)
(* charged and in stock there, whatever staff edited in between.           *)
THEOREM OrdersRestOnFacts == Spec => []OrderFactsHeld
<1>1. CheckoutInv => OrderFactsHeld
  <2> SUFFICES ASSUME CheckoutInv, NEW o \in orders
               PROVE  /\ \E v \in heldSince[o.by][<<"branch", o.branch>>] :
                            v.isActive /\ v.acceptingOrders
                      /\ \A line \in Sold(o) :
                          /\ \E v \in heldSince[o.by][<<"product", line.productId>>] :
                                v.isActive /\ v.price = line.unitPrice
                          /\ \E v \in heldSince[o.by][<<"stock", o.branch, line.productId>>] :
                                v.inStock
    BY DEF OrderFactsHeld
  <2>1. PICK c : c = checkout[o.by]
    OBVIOUS
  <2>2. PICK h : h = heldSince[o.by]
    OBVIOUS
  <2>3. /\ c.pc = "placed" /\ c.phase = "order" /\ Rests(c, h)
        /\ o.branch = c.branch /\ o.items = c.priced.lines
    BY <2>1, <2>2, OrderIsOf
  <2>4. OpenTo(o.branch, h) /\ LinesHeld(o.items, o.branch, h)
    BY <2>3 DEF Rests, Agreed
  <2>5. ASSUME NEW line \in Sold(o)
        PROVE  Listed(line.productId, line.unitPrice, h) /\ Stocked(o.branch, line.productId, h)
    BY <2>4 DEF Sold, LinesHeld
  <2> QED
    BY <2>2, <2>4, <2>5 DEF OpenTo, Listed, Stocked
<1> QED
  BY <1>1, CheckoutInvariant, PTL

(* A delivery goes to the first branch in reach that is not closed: every  *)
(* quicker one that delivers was seen closed while the order was placed.   *)
THEOREM NoHandOff == Spec => []NoSilentHandOff
<1>1. CheckoutInv => NoSilentHandOff
  <2> SUFFICES ASSUME CheckoutInv, NEW o \in orders, o.fulfilment = "delivery"
               PROVE  LET reach == Reach[checkout[o.by].ask.at]
                          at    == CHOOSE i \in DOMAIN reach : reach[i] = o.branch
                      IN  \A i \in 1..(at - 1) : "delivery" \in Offers[reach[i]] =>
                            \E v \in heldSince[o.by][<<"branch", reach[i]>>] : ~v.isActive
    BY DEF NoSilentHandOff
  <2>1. PICK c : c = checkout[o.by]
    OBVIOUS
  <2>2. PICK h : h = heldSince[o.by]
    OBVIOUS
  <2>3. /\ c.pc = "placed" /\ c.phase = "order" /\ Rests(c, h)
        /\ o.by \in Requests /\ c.ask \in CartRequests[o.by]
        /\ o.branch = c.branch /\ o.fulfilment = c.ask.fulfilment
    BY <2>1, <2>2, OrderIsOf
  <2>4. PassedOver(c.ask.at, o.branch, h)
    BY <2>3 DEF Rests, Agreed
  <2> DEFINE reach == Reach[c.ask.at]
             at    == CHOOSE i \in DOMAIN reach : reach[i] = o.branch
  <2>5. PICK k \in DOMAIN reach :
            /\ reach[k] = o.branch
            /\ \A i \in 1..(k - 1) : "delivery" \in Offers[reach[i]] =>
                   \E v \in h[<<"branch", reach[i]>>] : ~v.isActive
    BY <2>4 DEF PassedOver
  <2>6. \A i, j \in DOMAIN reach : reach[i] = reach[j] => i = j
    BY <2>3, AskFits
  <2>7. at = k
    BY <2>5, <2>6
  <2>8. \A i \in 1..(at - 1) : "delivery" \in Offers[reach[i]] =>
            \E v \in h[<<"branch", reach[i]>>] : ~v.isActive
    BY <2>5, <2>7
  <2> QED
    BY <2>1, <2>2, <2>8
<1> QED
  BY <1>1, CheckoutInvariant, PTL

(* An order costs what was quoted, that is the sum of its lines and the    *)
(* delivery fee, however many lines and boxes it has, and its tax is split *)
(* exactly and summed whatever the rates (pricing.engine.js:31-71, 343).   *)
THEOREM TotalsAreAgreed == Spec => []AgreedTotal
<1>1. CheckoutInv => AgreedTotal
  <2> SUFFICES ASSUME CheckoutInv, NEW o \in orders
               PROVE  /\ o.totals.grandTotal = checkout[o.by].expected
                      /\ o.totals.grandTotal - Fee(o.fulfilment) = Worth(o.items)
                      /\ TaxReconciles(o.items, o.totals)
    BY DEF AgreedTotal, ChargedForItems, Fee, Worth
  <2>1. PICK c : c = checkout[o.by]
    OBVIOUS
  <2>2. PICK h : h = heldSince[o.by]
    OBVIOUS
  <2>3. /\ c.pc = "placed" /\ c.phase = "order" /\ Rests(c, h)
        /\ o.fulfilment = c.ask.fulfilment /\ o.items = c.priced.lines
        /\ o.totals = c.priced.totals
    BY <2>1, <2>2, OrderIsOf
  <2>4. /\ c.priced.totals.grandTotal = c.expected
        /\ c.priced.totals.grandTotal - Fee(c.ask.fulfilment) = Worth(c.priced.lines)
        /\ TaxReconciles(c.priced.lines, c.priced.totals)
    BY <2>3 DEF Rests, Agreed
  <2> QED
    BY <2>1, <2>3, <2>4
<1> QED
  BY <1>1, CheckoutInvariant, PTL

(* Every number up to the counter was given to one request of that day,    *)
(* and a stored order carries its request's: gaps are failed inserts.      *)
THEOREM NumbersAddUp == Spec => []NumbersAccountedFor
<1>1. CheckoutInv => NumbersAccountedFor
  <2> SUFFICES ASSUME CheckoutInv PROVE NumbersAccountedFor
    OBVIOUS
  <2>1. NumbersAreOne /\ OrdersArePlaced
    BY DEF CheckoutInv
  <2>2. ASSUME NEW d \in Days, NEW n \in 1..counter[d]
        PROVE  \E r \in HoldersOf(d, n) :
                  /\ HoldersOf(d, n) = {r}
                  /\ checkout[r].now = d
                  /\ checkout[r].pc \in {"numbered", "placed", "failed"}
    <3>1. PICK r \in Requests : checkout[r].pc \in Numbered /\ checkout[r].number = <<d, n>>
      BY <2>1 DEF NumbersAreOne
    <3>2. \A s \in Requests : checkout[s].number = <<d, n>> => s = r
      BY <2>1, <3>1 DEF NumbersAreOne
    <3>3. HoldersOf(d, n) = {r}
      BY <3>1, <3>2 DEF HoldersOf
    <3>4. checkout[r].now = d
      BY <2>1, <3>1 DEF NumbersAreOne
    <3> QED
      BY <3>1, <3>3, <3>4 DEF Numbered
  <2>3. ASSUME NEW o \in orders
        PROVE  /\ o.number = checkout[o.by].number
               /\ o.number[1] \in Days
               /\ o.number[2] \in 1..counter[o.number[1]]
               /\ checkout[o.by].pc = "placed"
    <3>1. PICK c : c = checkout[o.by]
      OBVIOUS
    <3>2. PICK h : h = heldSince[o.by]
      OBVIOUS
    <3>3. o.by \in Requests /\ c.pc = "placed" /\ o.number = c.number
      BY <3>1, <3>2, OrderIsOf
    <3>4. c.now \in Days /\ \E n \in 1..counter[c.now] : c.number = <<c.now, n>>
      BY <2>1, <3>1, <3>3 DEF NumbersAreOne, Numbered
    <3> QED
      BY <3>1, <3>3, <3>4
  <2>4. ASSUME NEW r \in Requests, checkout[r].pc = "placed"
        PROVE  Cardinality({ o \in orders : o.by = r }) = 1
    <3>1. PICK order : order = OrderFrom(r, checkout[r])
      OBVIOUS
    <3>2. order \in orders /\ order.by = r
      BY <2>1, <2>4, <3>1 DEF OrdersArePlaced, OrderFrom
    <3>3. \A o \in orders : o.by = r => o = order
      BY <2>1, <3>1 DEF OrdersArePlaced
    <3>4. { o \in orders : o.by = r } = {order}
      BY <3>2, <3>3
    <3> QED
      BY <3>4, FS_Singleton
  <2> QED
    BY <2>2, <2>3, <2>4 DEF NumbersAccountedFor
<1> QED
  BY <1>1, CheckoutInvariant, PTL
=============================================================================
