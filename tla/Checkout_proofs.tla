--------------------------- MODULE Checkout_proofs ---------------------------
(***************************************************************************)
(* Proofs about quotes, orders and the settings they depend on             *)
(* (CheckoutSpec), for any catalog, rules, places and number of admins.    *)
(***************************************************************************)
EXTENDS Checkout, Sums, TLAPS

\* A product a request works on is there: products are never deleted.
EditedIsListed ==
    \A e \in Editors :
        productEdit[e].at \in {"loaded", "written"} =>
            productEdit[e].product \in Listed

\* A row in the hands of a request has a price on record.
RowsOnRecord ==
    \A e \in Editors :
        productEdit[e].at \in {"loaded", "reloaded"} =>
            OnRecord(productEdit[e].product, productEdit[e].row.price)

\* The rules stored, and those about to be.
RulesAcceptable ==
    /\ Acceptable(feeRules)
    /\ \A e \in Editors :
          feeEdit[e].at = "merged" /\ feeEdit[e].rules # Absent =>
              Acceptable(feeEdit[e].rules)

-----------------------------------------------------------------------------
(***************************************************************************)
(* Lists of rules.                                                         *)
(***************************************************************************)
\* A rule of a list is a rule, and its place a number.
LEMMA RuleAt ==
    ASSUME NEW rules \in Seq(FeeRule), NEW i \in DOMAIN rules
    PROVE  /\ i \in Nat
           /\ rules[i] \in FeeRule
           /\ rules[i].min \in Nat
           /\ rules[i].max \in Nat \cup {Infinity}
<1>1. rules \in [1 .. Len(rules) -> FeeRule] /\ Len(rules) \in Nat
  OBVIOUS
<1>2. i \in Nat /\ rules[i] \in FeeRule
  BY <1>1
<1> QED
  BY <1>2 DEF FeeRule

\* An active band below another one has a neighbour, which starts no higher.
LEMMA NeighbourAbove ==
    ASSUME NEW rules \in Seq(FeeRule),
           NEW i \in Active(rules), NEW j \in Active(rules),
           Below(rules, i, j)
    PROVE  \E k \in Active(rules) :
               Neighbours(rules, i, k) /\ rules[k].min <= rules[j].min
<1> DEFINE Above  == {k \in Active(rules) : Below(rules, i, k)}
           Starts == {rules[k].min : k \in Above}
<1>1. \A k \in Active(rules) : k \in Nat /\ rules[k].min \in Nat
  BY RuleAt DEF Active
<1>2. j \in Above
  OBVIOUS
<1>3. PICK m \in Starts : \A n \in Starts : m <= n
  <2>1. Starts \subseteq Nat /\ Starts # {}
    BY <1>1, <1>2
  <2> QED
    BY <2>1, LeastNumber
<1> DEFINE Lowest == {k \in Above : rules[k].min = m}
<1>4. PICK k \in Lowest : \A n \in Lowest : k <= n
  <2>1. Lowest \subseteq Nat /\ Lowest # {}
    BY <1>1, <1>3
  <2> QED
    BY <2>1, LeastNumber
<1>5. rules[k].min <= rules[j].min
  BY <1>2, <1>3, <1>4
<1>6. \A n \in Active(rules) : ~ (Below(rules, i, n) /\ Below(rules, n, k))
  <2> SUFFICES ASSUME NEW n \in Active(rules),
                      Below(rules, i, n), Below(rules, n, k)
               PROVE  FALSE
    OBVIOUS
  <2>1. n \in Above /\ m <= rules[n].min
    BY <1>3
  <2>2. rules[n].min = m /\ n < k
    BY <1>1, <1>4, <2>1 DEF Below
  <2> QED
    BY <1>1, <1>4, <2>1, <2>2
<1> QED
  BY <1>4, <1>5, <1>6 DEF Neighbours

\* The comparison of neighbours keeps every two active bands apart.
LEMMA BandsDisjoint ==
    ASSUME NEW rules \in Seq(FeeRule), Acceptable(rules), NEW d \in Nat,
           NEW i \in DOMAIN rules, NEW j \in DOMAIN rules,
           Covers(rules[i], d), Covers(rules[j], d)
    PROVE  i = j
<1>1. \A a, b \in Active(rules) :
          Below(rules, a, b) /\ Covers(rules[b], d) => ~Covers(rules[a], d)
  <2> SUFFICES ASSUME NEW a \in Active(rules), NEW b \in Active(rules),
                      Below(rules, a, b), Covers(rules[b], d),
                      Covers(rules[a], d)
               PROVE  FALSE
    OBVIOUS
  <2>1. PICK k \in Active(rules) :
            Neighbours(rules, a, k) /\ rules[k].min <= rules[b].min
    BY NeighbourAbove
  <2>2. rules[a].max # Infinity /\ rules[a].max <= rules[k].min
    BY <2>1 DEF Acceptable, BandsApart
  <2>3. /\ rules[a].max \in Nat
        /\ rules[k].min \in Nat
        /\ rules[b].min \in Nat
    BY <2>2, RuleAt DEF Active
  <2> QED
    BY <2>1, <2>2, <2>3 DEF Covers
<1>2. i \in Active(rules) /\ j \in Active(rules)
  BY DEF Active, Covers
<1>3. i # j => Below(rules, i, j) \/ Below(rules, j, i)
  <2>1. /\ i \in Nat /\ j \in Nat
        /\ rules[i].min \in Nat /\ rules[j].min \in Nat
    BY RuleAt
  <2> QED
    BY <2>1 DEF Below
<1> QED
  BY <1>1, <1>2, <1>3

-----------------------------------------------------------------------------
(***************************************************************************)
(* The catalog.                                                            *)
(***************************************************************************)
\* What CheckoutNext does to the catalog, step by step.
CatalogStep ==
    \/ \E e \in Editors :
          \/ \E p \in Products, row \in ProductRow : CreateProduct(e, p, row)
          \/ \E p \in Products, body \in Bodies : LoadForPatch(e, p, body)
          \/ CommitPatch(e)
          \/ RefusePatch(e)
          \/ ReloadProduct(e)
          \/ AnnounceProduct(e)
    \/ CatalogRestart
    \/ UNCHANGED catalogVars

LEMMA CatalogSteps ==
    ASSUME [CheckoutNext]_checkoutVars PROVE CatalogStep
<1>1. CASE CatalogNext
  BY <1>1 DEF CatalogNext, CatalogStep
<1>2. CASE CustomerNext \/ FeesNext \/ StoreNext \/ UNCHANGED checkoutVars
  BY <1>2 DEF CustomerNext, FeesNext, StoreNext, CatalogStep, checkoutVars
<1> QED
  BY <1>1, <1>2 DEF CheckoutNext

\* The row a patch is about to write.
LEMMA MergedType ==
    ASSUME NEW edit, edit.row \in ProductRow, edit.body \in PatchBody
    PROVE  /\ Merged(edit) \in ProductRow
           /\ Merged(edit).price =
                 IF PriceChanged(edit) THEN edit.body.price ELSE edit.row.price
<1>1. /\ Given(edit.body.sku, edit.row.sku) \in Skus
      /\ Given(edit.body.price, edit.row.price) \in Prices
      /\ Given(edit.body.active, edit.row.active) \in BOOLEAN
  BY DEF ProductRow, PatchBody, Given
<1>2. /\ Merged(edit).price = Given(edit.body.price, edit.row.price)
      /\ Merged(edit) \in ProductRow
  BY <1>1 DEF Merged, ProductRow
<1>3. Given(edit.body.price, edit.row.price) =
          IF PriceChanged(edit) THEN edit.body.price ELSE edit.row.price
  <2>1. CASE edit.body.price = Absent
    BY <2>1 DEF Given, PriceChanged
  <2>2. CASE edit.body.price # Absent
    BY <2>2, <1>2 DEF Given, PriceChanged
  <2> QED
    BY <2>1, <2>2
<1> QED
  BY <1>2, <1>3

\* A request that has loaded a product holds a row and a body.
LEMMA LoadedType ==
    ASSUME CatalogTypeOK, NEW e \in Editors, productEdit[e].at = "loaded"
    PROVE  /\ productEdit[e].product \in Products
           /\ productEdit[e].row \in ProductRow
           /\ productEdit[e].body \in PatchBody
<1>1. productEdit[e] \in ProductEdit
  BY DEF CatalogTypeOK
<1> QED
  BY <1>1 DEF ProductEdit, Idle

LEMMA WrittenType ==
    ASSUME CatalogTypeOK, NEW e \in Editors, productEdit[e].at = "written"
    PROVE  productEdit[e].product \in Products
<1>1. productEdit[e] \in ProductEdit
  BY DEF CatalogTypeOK
<1> QED
  BY <1>1 DEF ProductEdit, Idle

LEMMA ReloadedType ==
    ASSUME CatalogTypeOK, NEW e \in Editors, productEdit[e].at = "reloaded"
    PROVE  /\ productEdit[e].product \in Products
           /\ productEdit[e].row \in ProductRow
<1>1. productEdit[e] \in ProductEdit
  BY DEF CatalogTypeOK
<1> QED
  BY <1>1 DEF ProductEdit, Idle

\* Where a request may go.
LEMMA GotoType ==
    ASSUME CatalogTypeOK, NEW e \in Editors, NEW edit \in ProductEdit,
           Goto(e, edit)
    PROVE  /\ productEdit' \in [Editors -> ProductEdit]
           /\ productEdit'[e] = edit
           /\ \A f \in Editors \ {e} : productEdit'[f] = productEdit[f]
  BY DEF CatalogTypeOK, Goto

\* A price recorded: the record grows, and the price is on it, last.
LEMMA PriceRecorded ==
    ASSUME CatalogTypeOK, NEW p \in Products, NEW price \in Prices,
           RecordPrice(p, price)
    PROVE  /\ priceHistory' \in [Products -> Seq(Prices)]
           /\ \A q \in Products : \A x : OnRecord(q, x) => OnRecord(q, x)'
           /\ OnRecord(p, price)'
           /\ priceHistory'[p] # << >>
           /\ priceHistory'[p][Len(priceHistory'[p])] = price
           /\ \A q \in Products \ {p} : priceHistory'[q] = priceHistory[q]
<1>1. priceHistory[p] \in Seq(Prices)
  BY DEF CatalogTypeOK
<1> DEFINE old == priceHistory[p]
           new == Append(old, price)
<1>2. /\ priceHistory' \in [Products -> Seq(Prices)]
      /\ priceHistory'[p] = new
      /\ \A q \in Products \ {p} : priceHistory'[q] = priceHistory[q]
  BY <1>1 DEF CatalogTypeOK, RecordPrice
<1>3. /\ Len(old) \in Nat
      /\ new \in Seq(Prices)
      /\ Len(new) = Len(old) + 1
      /\ DOMAIN new = 1 .. Len(new)
      /\ DOMAIN old = 1 .. Len(old)
      /\ new[Len(new)] = price
      /\ \A i \in DOMAIN old : new[i] = old[i]
  BY <1>1
<1> HIDE DEF new, old
<1>4. \A x : OnRecord(p, x) => OnRecord(p, x)'
  <2> SUFFICES ASSUME NEW x, NEW i \in DOMAIN old, old[i] = x
               PROVE  \E k \in DOMAIN new : new[k] = x
    BY <1>2 DEF OnRecord, old
  <2>1. i \in DOMAIN new
    BY <1>3
  <2> QED
    BY <1>3, <2>1
<1>5. OnRecord(p, price)'
  <2>1. Len(new) \in DOMAIN new
    BY <1>3
  <2> QED
    BY <1>2, <1>3, <2>1 DEF OnRecord
<1>6. \A q \in Products \ {p} : \A x : OnRecord(q, x) => OnRecord(q, x)'
  BY <1>2 DEF OnRecord
<1>7. new # << >>
  BY <1>3
<1> QED
  BY <1>2, <1>3, <1>4, <1>5, <1>6, <1>7

CatalogInv ==
    CatalogTypeOK /\ EditedIsListed /\ RowsOnRecord /\ PricesOnRecord

\* A row stored with its price on record keeps the invariant.
LEMMA RowStored ==
    ASSUME CatalogInv,
           NEW e \in Editors, NEW p \in Products, NEW row \in ProductRow,
           StoreProduct(p, row),
           Goto(e, [at |-> "written", product |-> p]),
           UNCHANGED productEvents,
           priceHistory' \in [Products -> Seq(Prices)],
           \A q \in Products : \A x : OnRecord(q, x) => OnRecord(q, x)',
           OnRecord(p, row.price)'
    PROVE  CatalogInv'
<1> DEFINE edit == [at |-> "written", product |-> p]
<1>1. edit \in ProductEdit
  BY DEF ProductEdit
<1>2. /\ productEdit' \in [Editors -> ProductEdit]
      /\ productEdit'[e] = edit
      /\ \A f \in Editors \ {e} : productEdit'[f] = productEdit[f]
  BY <1>1, GotoType DEF CatalogInv
<1>3. /\ products' \in [Products -> ProductRow \cup {Absent}]
      /\ products'[p] = row
      /\ \A q \in Products \ {p} : products'[q] = products[q]
  BY DEF StoreProduct, CatalogInv, CatalogTypeOK
<1>4. Listed' = Listed \cup {p}
  BY <1>3, CatalogAssumption DEF Listed
<1>5. CatalogTypeOK'
  BY <1>2, <1>3 DEF CatalogTypeOK, CatalogInv
<1>6. EditedIsListed'
  BY <1>2, <1>4 DEF EditedIsListed, CatalogInv
<1>7. RowsOnRecord'
  <2> SUFFICES ASSUME NEW f \in Editors,
                      productEdit'[f].at \in {"loaded", "reloaded"}
               PROVE  OnRecord(productEdit[f].product, productEdit[f].row.price)'
    BY DEF RowsOnRecord
  <2>1. f # e /\ productEdit'[f] = productEdit[f]
    BY <1>2
  <2>2. productEdit[f].product \in Products
    BY <2>1, LoadedType, ReloadedType DEF CatalogInv
  <2>3. OnRecord(productEdit[f].product, productEdit[f].row.price)
    BY <2>1 DEF CatalogInv, RowsOnRecord
  <2>4. OnRecord(productEdit[f].product, productEdit[f].row.price) =>
            (\E i \in DOMAIN priceHistory'[productEdit[f].product] :
                priceHistory'[productEdit[f].product][i]
                    = productEdit[f].row.price)
    BY <2>2 DEF OnRecord
  <2> QED
    BY <2>1, <2>3, <2>4 DEF OnRecord
<1>8. PricesOnRecord'
  <2>1. \A q \in Listed' : OnRecord(q, products[q].price)'
    <3> SUFFICES ASSUME NEW q \in Listed'
                 PROVE  OnRecord(q, products[q].price)'
      OBVIOUS
    <3>1. CASE q = p
      BY <3>1, <1>3 DEF OnRecord
    <3>2. CASE q # p
      <4>1. q \in Listed /\ q \in Products /\ products'[q] = products[q]
        BY <3>2, <1>3, <1>4 DEF Listed
      <4>2. OnRecord(q, products[q].price)
        BY <4>1 DEF CatalogInv, PricesOnRecord
      <4> QED
        BY <4>1, <4>2 DEF OnRecord
    <3> QED
      BY <3>1, <3>2
  <2>2. \A a \in productEvents' : OnRecord(a.product, a.row.price)'
    <3> SUFFICES ASSUME NEW a \in productEvents
                 PROVE  OnRecord(a.product, a.row.price)'
      OBVIOUS
    <3>1. a.product \in Products
      BY DEF CatalogInv, CatalogTypeOK, Announcement
    <3>2. OnRecord(a.product, a.row.price)
      BY DEF CatalogInv, PricesOnRecord
    <3> QED
      BY <3>1, <3>2 DEF OnRecord
  <2> QED
    BY <2>1, <2>2 DEF PricesOnRecord
<1> QED
  BY <1>5, <1>6, <1>7, <1>8 DEF CatalogInv

\* So does a step that stores nothing and takes up a row that is on record.
LEMMA NothingStored ==
    ASSUME CatalogInv, UNCHANGED <<products, priceHistory>>,
           productEdit' \in [Editors -> ProductEdit],
           productEvents' \subseteq Announcement,
           \A f \in Editors :
               productEdit'[f].at \in {"loaded", "written"} =>
                   productEdit'[f].product \in Listed,
           \A f \in Editors :
               productEdit'[f].at \in {"loaded", "reloaded"} =>
                   OnRecord(productEdit'[f].product, productEdit'[f].row.price),
           \A a \in productEvents' : OnRecord(a.product, a.row.price)
    PROVE  CatalogInv'
<1>1. CatalogTypeOK'
  BY DEF CatalogInv, CatalogTypeOK
<1>2. EditedIsListed'
  BY DEF CatalogInv, EditedIsListed, Listed
<1>3. RowsOnRecord'
  BY DEF RowsOnRecord, OnRecord
<1>4. PricesOnRecord'
  BY DEF CatalogInv, PricesOnRecord, OnRecord, Listed
<1> QED
  BY <1>1, <1>2, <1>3, <1>4 DEF CatalogInv

LEMMA CatalogInvInit == ASSUME CheckoutInit PROVE CatalogInv
<1> USE DEF CheckoutInit, CatalogInit
<1>1. CatalogTypeOK
  <2>1. \A p \in Products :
            Opening[p] # Absent => Opening[p].price \in Prices
    BY CatalogAssumption DEF ProductRow
  <2>2. priceHistory \in [Products -> Seq(Prices)]
    BY <2>1
  <2>3. productEdit \in [Editors -> ProductEdit]
    BY DEF ProductEdit
  <2> QED
    BY <2>2, <2>3, CatalogAssumption DEF CatalogTypeOK
<1>2. EditedIsListed /\ RowsOnRecord
  BY DEF EditedIsListed, RowsOnRecord, Idle
<1>3. PricesOnRecord
  <2> SUFFICES ASSUME NEW p \in Listed PROVE OnRecord(p, products[p].price)
    BY DEF PricesOnRecord
  <2>1. p \in Products /\ priceHistory[p] = <<products[p].price>>
    BY DEF Listed
  <2>2. 1 \in DOMAIN <<products[p].price>>
    OBVIOUS
  <2> QED
    BY <2>1, <2>2 DEF OnRecord
<1> QED
  BY <1>1, <1>2, <1>3 DEF CatalogInv

\* A patch that is committed: what it writes is on record.
LEMMA CommitKeeps ==
    ASSUME CatalogInv, NEW e \in Editors, CommitPatch(e) PROVE CatalogInv'
<1>0. PICK edit, p, row :
          edit = productEdit[e] /\ p = edit.product /\ row = Merged(edit)
  OBVIOUS
<1>1. /\ edit.at = "loaded"
      /\ StoreProduct(p, row)
      /\ Goto(e, [at |-> "written", product |-> p])
      /\ UNCHANGED productEvents
      /\ IF PriceChanged(edit) THEN RecordPrice(p, row.price)
                               ELSE UNCHANGED priceHistory
  BY <1>0 DEF CommitPatch
<1>2. p \in Products /\ edit.row \in ProductRow /\ edit.body \in PatchBody
  BY <1>0, <1>1, LoadedType DEF CatalogInv
<1>3. /\ row \in ProductRow
      /\ row.price \in Prices
      /\ ~PriceChanged(edit) => row.price = edit.row.price
  <2>1. row \in ProductRow /\ (~PriceChanged(edit) => row.price = edit.row.price)
    BY <1>0, <1>2, MergedType
  <2>2. row.price \in Prices
    BY <2>1 DEF ProductRow
  <2> QED
    BY <2>1, <2>2
<1>4. OnRecord(p, edit.row.price)
  BY <1>0, <1>1 DEF CatalogInv, RowsOnRecord
<1>5. /\ priceHistory' \in [Products -> Seq(Prices)]
      /\ \A q \in Products : \A x : OnRecord(q, x) => OnRecord(q, x)'
      /\ OnRecord(p, row.price)'
  <2>1. CASE PriceChanged(edit)
    BY <2>1, <1>1, <1>2, <1>3, PriceRecorded DEF CatalogInv
  <2>2. CASE ~PriceChanged(edit)
    BY <2>2, <1>1, <1>3, <1>4 DEF CatalogInv, CatalogTypeOK, OnRecord
  <2> QED
    BY <2>1, <2>2
<1> QED
  BY <1>1, <1>2, <1>3, <1>5, RowStored

LEMMA CatalogInvStep == ASSUME CatalogInv, CatalogStep PROVE CatalogInv'
<1>1. ASSUME NEW e \in Editors, NEW p \in Products, NEW row \in ProductRow,
             CreateProduct(e, p, row)
      PROVE  CatalogInv'
  <2>1. row.price \in Prices
    BY DEF ProductRow
  <2>2. /\ priceHistory' \in [Products -> Seq(Prices)]
        /\ \A q \in Products : \A x : OnRecord(q, x) => OnRecord(q, x)'
        /\ OnRecord(p, row.price)'
    BY <1>1, <2>1, PriceRecorded DEF CreateProduct, CatalogInv
  <2> QED
    BY <1>1, <2>2, RowStored DEF CreateProduct
<1>2. ASSUME NEW e \in Editors, NEW p \in Products, NEW body \in Bodies,
             LoadForPatch(e, p, body)
      PROVE  CatalogInv'
  <2> DEFINE edit == [at |-> "loaded", product |-> p, row |-> products[p],
                      body |-> body]
  <2>1. p \in Listed /\ products[p] \in ProductRow /\ body \in PatchBody
    BY <1>2, CatalogAssumption
       DEF LoadForPatch, CatalogInv, CatalogTypeOK, Listed
  <2>2. edit \in ProductEdit
    BY <2>1 DEF ProductEdit
  <2>3. /\ productEdit' \in [Editors -> ProductEdit]
        /\ productEdit'[e] = edit
        /\ \A f \in Editors \ {e} : productEdit'[f] = productEdit[f]
    BY <1>2, <2>2, GotoType DEF LoadForPatch, CatalogInv
  <2>4. OnRecord(edit.product, edit.row.price)
    BY <2>1 DEF CatalogInv, PricesOnRecord
  <2>5. /\ edit.at = "loaded"
        /\ UNCHANGED <<products, priceHistory>>
        /\ productEvents' = productEvents
    BY <1>2 DEF LoadForPatch
  <2> HIDE DEF edit
  <2>6. \A f \in Editors :
            productEdit'[f].at \in {"loaded", "written"} =>
                productEdit'[f].product \in Listed
    BY <2>1, <2>3 DEF CatalogInv, EditedIsListed, edit
  <2>7. \A f \in Editors :
            productEdit'[f].at \in {"loaded", "reloaded"} =>
                OnRecord(productEdit'[f].product, productEdit'[f].row.price)
    BY <2>3, <2>4 DEF CatalogInv, RowsOnRecord
  <2>8. /\ productEvents' \subseteq Announcement
        /\ \A a \in productEvents' : OnRecord(a.product, a.row.price)
    BY <2>5 DEF CatalogInv, CatalogTypeOK, PricesOnRecord
  <2> QED
    BY <2>3, <2>5, <2>6, <2>7, <2>8, NothingStored
<1>3. ASSUME NEW e \in Editors, CommitPatch(e) PROVE CatalogInv'
  BY <1>3, CommitKeeps
<1>4. ASSUME NEW e \in Editors,
             Goto(e, Idle), UNCHANGED <<products, priceHistory>>,
             productEvents' \subseteq Announcement,
             \A a \in productEvents' : OnRecord(a.product, a.row.price)
      PROVE  CatalogInv'
  <2>1. Idle \in ProductEdit /\ Idle.at = "idle"
    BY DEF ProductEdit, Idle
  <2>2. /\ productEdit' \in [Editors -> ProductEdit]
        /\ productEdit'[e] = Idle
        /\ \A f \in Editors \ {e} : productEdit'[f] = productEdit[f]
    BY <1>4, <2>1, GotoType DEF CatalogInv
  <2>3. \A f \in Editors :
            productEdit'[f].at \in {"loaded", "reloaded"} =>
                OnRecord(productEdit'[f].product, productEdit'[f].row.price)
    BY <2>1, <2>2 DEF CatalogInv, RowsOnRecord
  <2>4. \A f \in Editors :
            productEdit'[f].at \in {"loaded", "written"} =>
                productEdit'[f].product \in Listed
    BY <2>1, <2>2 DEF CatalogInv, EditedIsListed
  <2> QED
    BY <1>4, <2>2, <2>3, <2>4, NothingStored
<1>5. ASSUME NEW e \in Editors, RefusePatch(e) PROVE CatalogInv'
  <2>1. /\ Goto(e, Idle)
        /\ UNCHANGED <<products, priceHistory>>
        /\ productEvents' = productEvents
    BY <1>5 DEF RefusePatch
  <2> QED
    BY <2>1, <1>4 DEF CatalogInv, CatalogTypeOK, PricesOnRecord
<1>6. ASSUME NEW e \in Editors, ReloadProduct(e) PROVE CatalogInv'
  <2> DEFINE p    == productEdit[e].product
             edit == [at |-> "reloaded", product |-> p, row |-> products[p]]
  <2>1. /\ productEdit[e].at = "written"
        /\ Goto(e, edit)
        /\ UNCHANGED <<products, priceHistory>>
        /\ productEvents' = productEvents
    BY <1>6 DEF ReloadProduct
  <2>2. p \in Listed /\ p \in Products /\ products[p] \in ProductRow
    BY <2>1 DEF CatalogInv, CatalogTypeOK, EditedIsListed, Listed
  <2>3. edit \in ProductEdit
    BY <2>2 DEF ProductEdit
  <2>4. /\ productEdit' \in [Editors -> ProductEdit]
        /\ productEdit'[e] = edit
        /\ \A f \in Editors \ {e} : productEdit'[f] = productEdit[f]
    BY <2>1, <2>3, GotoType DEF CatalogInv
  <2>5. OnRecord(edit.product, edit.row.price)
    BY <2>2 DEF CatalogInv, PricesOnRecord
  <2>6. edit.at = "reloaded"
    OBVIOUS
  <2> HIDE DEF edit, p
  <2>7. \A f \in Editors :
            productEdit'[f].at \in {"loaded", "written"} =>
                productEdit'[f].product \in Listed
    BY <2>4, <2>6 DEF CatalogInv, EditedIsListed
  <2>8. \A f \in Editors :
            productEdit'[f].at \in {"loaded", "reloaded"} =>
                OnRecord(productEdit'[f].product, productEdit'[f].row.price)
    BY <2>4, <2>5 DEF CatalogInv, RowsOnRecord
  <2>9. /\ productEvents' \subseteq Announcement
        /\ \A a \in productEvents' : OnRecord(a.product, a.row.price)
    BY <2>1 DEF CatalogInv, CatalogTypeOK, PricesOnRecord
  <2> QED
    BY <2>1, <2>4, <2>7, <2>8, <2>9, NothingStored
<1>7. ASSUME NEW e \in Editors, AnnounceProduct(e) PROVE CatalogInv'
  <2> DEFINE edit == productEdit[e]
             a    == [product |-> edit.product, row |-> edit.row]
  <2>1. /\ edit.at = "reloaded"
        /\ Goto(e, Idle)
        /\ UNCHANGED <<products, priceHistory>>
        /\ productEvents' \subseteq productEvents \cup {a}
    BY <1>7 DEF AnnounceProduct
  <2>2. a \in Announcement
    BY <2>1, ReloadedType DEF CatalogInv, Announcement
  <2>3. OnRecord(a.product, a.row.price)
    BY <2>1 DEF CatalogInv, RowsOnRecord
  <2>4. /\ productEvents' \subseteq Announcement
        /\ \A b \in productEvents' : OnRecord(b.product, b.row.price)
    BY <2>1, <2>2, <2>3 DEF CatalogInv, CatalogTypeOK, PricesOnRecord
  <2> QED
    BY <2>1, <2>4, <1>4
<1>8. ASSUME CatalogRestart PROVE CatalogInv'
  <2>1. /\ productEdit' = [e \in Editors |-> Idle]
        /\ UNCHANGED <<products, priceHistory>>
        /\ productEvents' = productEvents
    BY <1>8 DEF CatalogRestart
  <2>2. Idle \in ProductEdit /\ Idle.at = "idle"
    BY DEF ProductEdit, Idle
  <2>3. /\ productEdit' \in [Editors -> ProductEdit]
        /\ \A f \in Editors : productEdit'[f].at = "idle"
    BY <2>1, <2>2
  <2> QED
    BY <2>1, <2>3, NothingStored DEF CatalogInv, CatalogTypeOK, PricesOnRecord
<1>9. ASSUME UNCHANGED catalogVars PROVE CatalogInv'
  BY <1>9 DEF catalogVars, CatalogInv, CatalogTypeOK, EditedIsListed, RowsOnRecord,
              PricesOnRecord, OnRecord, Listed
<1> QED
  BY <1>1, <1>2, <1>3, <1>5, <1>6, <1>7, <1>8, <1>9 DEF CatalogStep

\* What TrailLeftOnlyByStaleWrite asks of a step.
TrailLeftOnlyByStaleStep ==
    \A p \in Products :
        TrailCurrent(p) /\ ~TrailCurrentNext(p) =>
            \E e \in Editors :
                /\ productEdit[e].at = "loaded"
                /\ productEdit'[e].at = "written"
                /\ productEdit[e].product = p
                /\ productEdit[e].row.price # products[p].price

LEMMA TrailStep ==
    ASSUME CatalogInv, CatalogStep PROVE TrailLeftOnlyByStaleStep
<1> SUFFICES ASSUME NEW p \in Products, TrailCurrent(p), ~TrailCurrentNext(p)
             PROVE  \E e \in Editors :
                        /\ productEdit[e].at = "loaded"
                        /\ productEdit'[e].at = "written"
                        /\ productEdit[e].product = p
                        /\ productEdit[e].row.price # products[p].price
  BY DEF TrailLeftOnlyByStaleStep
<1>1. CASE UNCHANGED <<products, priceHistory>>
  BY <1>1 DEF TrailCurrent, TrailCurrentNext, Listed
<1>2. ASSUME NEW e \in Editors, NEW q \in Products, NEW row \in ProductRow,
             CreateProduct(e, q, row)
      PROVE  FALSE
  <2>1. row.price \in Prices
    BY DEF ProductRow
  <2>2. /\ priceHistory'[q] # << >>
        /\ priceHistory'[q][Len(priceHistory'[q])] = row.price
        /\ \A r \in Products \ {q} : priceHistory'[r] = priceHistory[r]
    BY <1>2, <2>1, PriceRecorded DEF CreateProduct, CatalogInv
  <2>3. /\ products'[q] = row
        /\ \A r \in Products \ {q} : products'[r] = products[r]
    BY <1>2 DEF CreateProduct, StoreProduct, CatalogInv, CatalogTypeOK
  <2>4. CASE p = q
    BY <2>2, <2>3, <2>4 DEF TrailCurrentNext
  <2>5. CASE p # q
    BY <2>2, <2>3, <2>5 DEF TrailCurrent, TrailCurrentNext, Listed
  <2> QED
    BY <2>4, <2>5
<1>3. ASSUME NEW e \in Editors, CommitPatch(e)
      PROVE  /\ productEdit[e].at = "loaded"
             /\ productEdit'[e].at = "written"
             /\ productEdit[e].product = p
             /\ productEdit[e].row.price # products[p].price
  <2>0. PICK edit, q, row :
            edit = productEdit[e] /\ q = edit.product /\ row = Merged(edit)
    OBVIOUS
  <2>1. /\ edit.at = "loaded"
        /\ StoreProduct(q, row)
        /\ Goto(e, [at |-> "written", product |-> q])
        /\ IF PriceChanged(edit) THEN RecordPrice(q, row.price)
                                 ELSE UNCHANGED priceHistory
    BY <1>3, <2>0 DEF CommitPatch
  <2>2. /\ q \in Products /\ row \in ProductRow /\ row.price \in Prices
        /\ ~PriceChanged(edit) => row.price = edit.row.price
    <3>1. /\ q \in Products /\ edit.row \in ProductRow
          /\ edit.body \in PatchBody
      BY <2>0, <2>1, LoadedType DEF CatalogInv
    <3>2. /\ row \in ProductRow
          /\ ~PriceChanged(edit) => row.price = edit.row.price
      BY <2>0, <3>1, MergedType
    <3> QED
      BY <3>1, <3>2 DEF ProductRow
  <2>3. /\ products'[q] = row
        /\ \A r \in Products \ {q} : products'[r] = products[r]
    BY <2>1, <2>2 DEF StoreProduct, CatalogInv, CatalogTypeOK
  <2>4. productEdit'[e].at = "written"
    BY <2>1 DEF Goto, CatalogInv, CatalogTypeOK
  <2>5. CASE PriceChanged(edit)
    <3>1. /\ priceHistory'[q] # << >>
          /\ priceHistory'[q][Len(priceHistory'[q])] = row.price
          /\ \A r \in Products \ {q} : priceHistory'[r] = priceHistory[r]
      BY <2>1, <2>2, <2>5, PriceRecorded DEF CatalogInv
    <3>2. CASE p = q
      BY <2>3, <3>1, <3>2 DEF TrailCurrentNext
    <3>3. CASE p # q
      BY <2>3, <3>1, <3>3 DEF TrailCurrent, TrailCurrentNext, Listed
    <3> QED
      BY <3>2, <3>3
  <2>6. CASE ~PriceChanged(edit)
    <3>1. row.price = edit.row.price /\ priceHistory' = priceHistory
      BY <2>1, <2>2, <2>6
    <3>2. p = q
      BY <2>3, <3>1 DEF TrailCurrent, TrailCurrentNext, Listed
    <3>3. edit.row.price # products[p].price
      <4>1. SUFFICES ASSUME edit.row.price = products[p].price
                     PROVE  FALSE
        OBVIOUS
      <4>2. p \in Listed => TrailCurrentNext(p)
        BY <2>3, <3>1, <3>2, <4>1 DEF TrailCurrent, TrailCurrentNext
      <4>3. p \in Listed
        BY <2>0, <2>1, <3>2 DEF CatalogInv, EditedIsListed
      <4> QED
        BY <4>2, <4>3
    <3> QED
      BY <2>0, <2>1, <2>4, <3>2, <3>3
  <2> QED
    BY <2>5, <2>6
<1>4. ASSUME NEW e \in Editors, CommitPatch(e)
      PROVE  \E f \in Editors :
                 /\ productEdit[f].at = "loaded"
                 /\ productEdit'[f].at = "written"
                 /\ productEdit[f].product = p
                 /\ productEdit[f].row.price # products[p].price
  BY <1>3, <1>4
<1> QED
  BY <1>1, <1>2, <1>4 DEF CatalogStep, LoadForPatch, RefusePatch, ReloadProduct,
                          AnnounceProduct, CatalogRestart, catalogVars

-----------------------------------------------------------------------------
(***************************************************************************)
(* The rules of the delivery fee.                                          *)
(***************************************************************************)
FeesInv == FeesTypeOK /\ RulesAcceptable

FeesStep ==
    \/ \E e \in Editors :
          \/ \E toggle \in BOOLEAN \cup {Absent},
                rules \in RuleLists \cup {Absent} : PutFees(e, toggle, rules)
          \/ SaveFees(e)
    \/ FeesRestart
    \/ UNCHANGED feeVars

LEMMA FeesSteps == ASSUME [CheckoutNext]_checkoutVars PROVE FeesStep
<1>1. CASE FeesNext
  BY <1>1 DEF FeesNext, FeesStep
<1>2. CASE CustomerNext \/ CatalogNext \/ StoreNext \/ UNCHANGED checkoutVars
  BY <1>2 DEF CustomerNext, CatalogNext, StoreNext, FeesStep, checkoutVars
<1> QED
  BY <1>1, <1>2 DEF CheckoutNext

LEMMA NoRulesAcceptable == << >> \in Seq(FeeRule) /\ Acceptable(<< >>)
  BY DEF Acceptable, WellFormed, BandsApart, Active

LEMMA FeesInvInit == ASSUME CheckoutInit PROVE FeesInv
<1> USE DEF CheckoutInit, FeesInit
<1>1. FeesTypeOK
  BY FeesAssumption DEF FeesTypeOK, FeeEdit
<1>2. Acceptable(feeRules)
  BY NoRulesAcceptable, SeedAssumption
<1> QED
  BY <1>1, <1>2 DEF FeesInv, RulesAcceptable, Idle

\* A request that has merged holds a toggle, and rules or none.
LEMMA MergedFeesType ==
    ASSUME FeesTypeOK, NEW e \in Editors, feeEdit[e].at = "merged"
    PROVE  /\ feeEdit[e].enabled \in BOOLEAN
           /\ feeEdit[e].rules \in RuleLists \cup {Absent}
<1>1. feeEdit[e] \in FeeEdit
  BY DEF FeesTypeOK
<1> QED
  BY <1>1 DEF FeeEdit, Idle

LEMMA FeesInvStep == ASSUME FeesInv, FeesStep PROVE FeesInv'
<1>1. ASSUME NEW e \in Editors, NEW toggle \in BOOLEAN \cup {Absent},
             NEW rules \in RuleLists \cup {Absent}, PutFees(e, toggle, rules)
      PROVE  FeesInv'
  <2> DEFINE edit == [at |-> "merged", enabled |-> Given(toggle, feeEnabled),
                      rules |-> rules]
  <2>1. /\ feeEnabled \in BOOLEAN
        /\ rules # Absent => Acceptable(rules)
        /\ feeEdit' = [feeEdit EXCEPT ![e] = edit]
        /\ UNCHANGED <<feeEnabled, feeRules, feeLog>>
    BY <1>1 DEF PutFees, FeesInv, FeesTypeOK
  <2>2. Given(toggle, feeEnabled) \in BOOLEAN
    BY <2>1 DEF Given
  <2>3. edit \in FeeEdit /\ edit.rules = rules
    BY <2>2 DEF FeeEdit
  <2> HIDE DEF edit
  <2>4. /\ feeEdit' \in [Editors -> FeeEdit]
        /\ feeEdit'[e] = edit
        /\ \A f \in Editors \ {e} : feeEdit'[f] = feeEdit[f]
    BY <2>1, <2>3 DEF FeesInv, FeesTypeOK
  <2>5. FeesTypeOK'
    BY <2>1, <2>4 DEF FeesInv, FeesTypeOK
  <2>6. RulesAcceptable'
    BY <2>1, <2>3, <2>4 DEF FeesInv, RulesAcceptable
  <2> QED
    BY <2>5, <2>6 DEF FeesInv
<1>2. ASSUME NEW e \in Editors, SaveFees(e) PROVE FeesInv'
  <2>1. /\ feeEdit[e].at = "merged"
        /\ feeEnabled' = feeEdit[e].enabled
        /\ feeRules' = Given(feeEdit[e].rules, feeRules)
        /\ feeLog' = feeLog \cup {feeRules'}
        /\ feeEdit' = [feeEdit EXCEPT ![e] = Idle]
    BY <1>2 DEF SaveFees
  <2>2. /\ feeEdit[e].enabled \in BOOLEAN
        /\ feeEdit[e].rules \in RuleLists \cup {Absent}
    BY <2>1, MergedFeesType DEF FeesInv
  <2>3. /\ feeRules' \in RuleLists \cup {SeedRules, << >>}
        /\ Acceptable(feeRules')
    BY <2>1, <2>2 DEF Given, FeesInv, FeesTypeOK, RulesAcceptable
  <2>4. Idle \in FeeEdit /\ Idle.at = "idle"
    BY DEF FeeEdit, Idle
  <2>5. /\ feeEdit' \in [Editors -> FeeEdit]
        /\ feeEdit'[e] = Idle
        /\ \A f \in Editors \ {e} : feeEdit'[f] = feeEdit[f]
    BY <2>1, <2>4 DEF FeesInv, FeesTypeOK
  <2>6. FeesTypeOK'
    BY <2>1, <2>2, <2>3, <2>5 DEF FeesInv, FeesTypeOK
  <2>7. RulesAcceptable'
    BY <2>3, <2>4, <2>5 DEF FeesInv, RulesAcceptable
  <2> QED
    BY <2>6, <2>7 DEF FeesInv
<1>3. ASSUME FeesRestart PROVE FeesInv'
  <2>1. /\ feeEnabled' \in BOOLEAN \cup {Absent}
        /\ feeRules' \in RuleLists \cup {SeedRules, << >>}
        /\ feeLog' \subseteq RuleLists \cup {SeedRules, << >>}
        /\ Acceptable(feeRules')
    BY <1>3, SeedAssumption, FeesAssumption
       DEF FeesRestart, FeesInv, FeesTypeOK, RulesAcceptable
  <2>2. feeEdit' = [e \in Editors |-> Idle]
    BY <1>3 DEF FeesRestart
  <2> QED
    BY <2>1, <2>2 DEF FeesInv, FeesTypeOK, RulesAcceptable, FeeEdit, Idle
<1>4. ASSUME UNCHANGED feeVars PROVE FeesInv'
  BY <1>4 DEF feeVars, FeesInv, FeesTypeOK, RulesAcceptable
<1> QED
  BY <1>1, <1>2, <1>3, <1>4 DEF FeesStep

\* Acceptable rules are what OneBandPerDistance is about.
LEMMA AcceptableMeansOneBand == ASSUME FeesInv PROVE OneBandPerDistance
<1>1. feeRules \in Seq(FeeRule)
  BY FeesAssumption, NoRulesAcceptable DEF FeesInv, FeesTypeOK
<1>2. Acceptable(feeRules) /\ Distances \subseteq Nat
  BY FeesAssumption DEF FeesInv, RulesAcceptable
<1> QED
  BY <1>1, <1>2, BandsDisjoint DEF OneBandPerDistance

-----------------------------------------------------------------------------
(***************************************************************************)
(* The store.                                                              *)
(***************************************************************************)
StoreStep ==
    \/ \E e \in Editors :
          \/ \E place \in Places \cup {Absent}, radius \in Radii \cup {Absent} :
                PutStore(e, place, radius)
          \/ SaveStore(e)
    \/ StoreRestart
    \/ UNCHANGED storeVars

LEMMA StoreSteps == ASSUME [CheckoutNext]_checkoutVars PROVE StoreStep
<1>1. CASE StoreNext
  BY <1>1 DEF StoreNext, StoreStep
<1>2. CASE CustomerNext \/ CatalogNext \/ FeesNext \/ UNCHANGED checkoutVars
  BY <1>2 DEF CustomerNext, CatalogNext, FeesNext, StoreStep, checkoutVars
<1> QED
  BY <1>1, <1>2 DEF CheckoutNext

LEMMA StoreTypeInit == ASSUME CheckoutInit PROVE StoreTypeOK
  BY StoreAssumption DEF CheckoutInit, StoreInit, StoreTypeOK

LEMMA StoreTypeStep == ASSUME StoreTypeOK, StoreStep PROVE StoreTypeOK'
<1> DEFINE Edit == {Idle} \cup [at : {"merged"}, row : StoreRow]
<1>1. ASSUME NEW e \in Editors, NEW place \in Places \cup {Absent},
             NEW radius \in Radii \cup {Absent}, PutStore(e, place, radius)
      PROVE  StoreTypeOK'
  <2> DEFINE row  == [place  |-> Given(place, store.place),
                      radius |-> Given(radius, store.radius)]
             edit == [at |-> "merged", row |-> row]
  <2>1. /\ store \in StoreRow
        /\ storeEdit' = [storeEdit EXCEPT ![e] = edit]
        /\ store' = store
    BY <1>1 DEF PutStore, StoreTypeOK
  <2>2. /\ Given(place, store.place) \in Places
        /\ Given(radius, store.radius) \in Radii
    BY <2>1 DEF Given, StoreRow
  <2>3. row \in StoreRow
    BY <2>2 DEF StoreRow
  <2> HIDE DEF row
  <2>4. edit \in Edit
    BY <2>3
  <2> HIDE DEF edit
  <2> QED
    BY <2>1, <2>4 DEF StoreTypeOK
<1>2. ASSUME NEW e \in Editors, SaveStore(e) PROVE StoreTypeOK'
  <2>1. /\ storeEdit[e].at = "merged"
        /\ store' = storeEdit[e].row
        /\ storeEdit' = [storeEdit EXCEPT ![e] = Idle]
    BY <1>2 DEF SaveStore
  <2>2. storeEdit[e] \in Edit
    BY DEF StoreTypeOK
  <2>3. store' \in StoreRow
    BY <2>1, <2>2 DEF Idle
  <2> QED
    BY <2>1, <2>3 DEF StoreTypeOK
<1>3. ASSUME StoreRestart PROVE StoreTypeOK'
  BY <1>3, StoreAssumption DEF StoreRestart, StoreTypeOK
<1>4. ASSUME UNCHANGED storeVars PROVE StoreTypeOK'
  BY <1>4 DEF storeVars, StoreTypeOK
<1> QED
  BY <1>1, <1>2, <1>3, <1>4 DEF StoreStep

-----------------------------------------------------------------------------
(***************************************************************************)
(* The customer.  A sum over the lines of a request is a number, so what a *)
(* quote and an order say is one.                                          *)
(***************************************************************************)
\* A function that adds up the subsets of a set ends at the sum.
LEMMA ChosenSum ==
    ASSUME NEW f, NEW S, IsFiniteSet(S), NEW g, SumsUp(f, S, g)
    PROVE  g[S] = SumFunctionOnSet(f, S)
<1>1. PICK h : SumsUp(f, S, h) /\ h = (CHOOSE k : SumsUp(f, S, k))
  <2>1. \E k : SumsUp(f, S, k) BY SumsUpExists
  <2> HIDE DEF SumsUp
  <2> QED BY <2>1
<1>2. SumFunctionOnSet(f, S) = h[S]
  BY <1>1, SumUnfolds
<1>3. g[S] = h[S]
  BY <1>1, SumsUpUnique
<1> QED
  BY <1>2, <1>3

\* The lines of a request, and the products they name, are finitely many.
LEMMA LinesAreFinite ==
    ASSUME NEW items \in Carts
    PROVE  /\ IsFiniteSet(DOMAIN items)
           /\ IsFiniteSet(Ordered(items))
           /\ \A i \in DOMAIN items :
                 items[i].product \in Products /\ items[i].qty \in Nat
<1>1. items \in Seq([product : Products, qty : Nat \ {0}])
  BY CheckoutAssumption
<1> DEFINE Line == [product : Products, qty : Nat \ {0}]
<1>2. /\ DOMAIN items = 1 .. Len(items) /\ Len(items) \in Nat
      /\ \A i \in DOMAIN items : items[i] \in Line
  <2> HIDE DEF Line
  <2>1. items \in [1 .. Len(items) -> Line] /\ Len(items) \in Nat
    <3>1. items \in Seq(Line) BY <1>1 DEF Line
    <3> QED BY <3>1
  <2> QED BY <2>1
<1>3. IsFiniteSet(DOMAIN items)
  BY <1>2, FS_Interval
<1> DEFINE name == [i \in DOMAIN items |-> items[i].product]
<1>4. name \in Surjection(DOMAIN items, Ordered(items))
  BY DEF Surjection, Ordered
<1>5. IsFiniteSet(Ordered(items))
  <2> HIDE DEF name
  <2> QED BY <1>3, <1>4, FS_Surjection
<1> QED
  BY <1>2, <1>3, <1>5

\* qtyByProduct adds up numbers.
LEMMA QuantityType ==
    ASSUME NEW items \in Carts, NEW p
    PROVE  Quantity(items, p) \in Nat
<1> DEFINE S == {i \in DOMAIN items : items[i].product = p}
           f == [i \in S |-> items[i].qty]
           Adds(g) == g = [s \in SUBSET S |->
                               IF s = {} THEN 0
                               ELSE LET i == CHOOSE i \in s : TRUE
                                    IN  items[i].qty + g[s \ {i}]]
<1>1. Quantity(items, p) = (CHOOSE g : Adds(g))[S]
  BY DEF Quantity, MapThenSumSet, MapThenFoldSet
<1>2. IsFiniteSet(S)
  BY LinesAreFinite, FS_Subset
<1>3. \A g : Adds(g) <=> SumsUp(f, S, g)
  <2>1. \A s \in SUBSET S :
            s # {} => f[CHOOSE i \in s : TRUE] = items[CHOOSE i \in s : TRUE].qty
    <3> TAKE s \in SUBSET S
    <3> HAVE s # {}
    <3>1. (CHOOSE i \in s : TRUE) \in S OBVIOUS
    <3> HIDE DEF S
    <3> QED BY <3>1
  <2> HIDE DEF S, f
  <2> QED BY <2>1 DEF SumsUp
<1>4. PICK g : SumsUp(f, S, g) /\ Quantity(items, p) = g[S]
  <2>1. \E g : SumsUp(f, S, g)
    BY <1>2, SumsUpExists
  <2> HIDE DEF S, f
  <2> HIDE DEF Adds
  <2>2. \E g : Adds(g)
    BY <2>1, <1>3
  <2> QED BY <2>2, <1>1, <1>3
<1>5. \A i \in S : f[i] \in Nat
  BY LinesAreFinite
<1>6. SumFunctionOnSet(f, S) \in Nat
  <2> HIDE DEF S, f
  <2> QED BY <1>2, <1>5, SumType
<1> HIDE DEF S, f
<1> QED
  BY <1>2, <1>4, <1>6, ChosenSum

\* The prices of a quote and the lines of an order add up to the same.
LEMMA LinesAddUp ==
    ASSUME NEW rows, NEW items \in Carts
    PROVE  SumFunction(LineTotals(rows, items)) = Subtotal(rows, items)
<1> DEFINE S == Ordered(items)
           f == [p \in S |-> rows[p].price * Quantity(items, p)]
           Adds(g) == g = [s \in SUBSET S |->
                               IF s = {} THEN 0
                               ELSE LET p == CHOOSE p \in s : TRUE
                                    IN  rows[p].price * Quantity(items, p)
                                            + g[s \ {p}]]
<1>1. Subtotal(rows, items) = (CHOOSE g : Adds(g))[S]
  BY DEF Subtotal, MapThenSumSet, MapThenFoldSet
<1>2. IsFiniteSet(S)
  BY LinesAreFinite
<1>3. \A g : Adds(g) <=> SumsUp(f, S, g)
  <2>1. \A s \in SUBSET S :
            s # {} => f[CHOOSE p \in s : TRUE]
                          = rows[CHOOSE p \in s : TRUE].price
                                * Quantity(items, CHOOSE p \in s : TRUE)
    <3> TAKE s \in SUBSET S
    <3> HAVE s # {}
    <3>1. (CHOOSE p \in s : TRUE) \in S OBVIOUS
    <3> HIDE DEF S
    <3> QED BY <3>1
  <2> HIDE DEF S, f
  <2> QED BY <2>1 DEF SumsUp
<1>4. PICK g : SumsUp(f, S, g) /\ Subtotal(rows, items) = g[S]
  <2>1. \E g : SumsUp(f, S, g)
    BY <1>2, SumsUpExists
  <2> HIDE DEF S, f
  <2> HIDE DEF Adds
  <2>2. \E g : Adds(g)
    BY <2>1, <1>3
  <2> QED BY <2>2, <1>1, <1>3
<1>5. SumFunction(LineTotals(rows, items)) = SumFunctionOnSet(f, S)
  BY DEF SumFunction, LineTotals
<1> HIDE DEF S, f
<1> QED
  BY <1>2, <1>4, <1>5, ChosenSum

\* The price of the lines, when they are all on sale.
LEMMA SubtotalType ==
    ASSUME NEW rows, NEW items \in Carts,
           \A p \in Ordered(items) : rows[p].price \in Nat
    PROVE  Subtotal(rows, items) \in Nat
<1> DEFINE S == Ordered(items)
           f == [p \in S |-> rows[p].price * Quantity(items, p)]
<1>1. \A p \in S : f[p] \in Nat
  <2> TAKE p \in S
  <2>1. Quantity(items, p) \in Nat /\ rows[p].price \in Nat
    BY QuantityType
  <2>2. f[p] = rows[p].price * Quantity(items, p)
    OBVIOUS
  <2> QED BY <2>1, <2>2
<1>2. Subtotal(rows, items) = SumFunctionOnSet(f, S)
  BY LinesAddUp DEF SumFunction, LineTotals
<1>3. IsFiniteSet(S)
  BY LinesAreFinite
<1>4. SumFunctionOnSet(f, S) \in Nat
  <2> HIDE DEF S, f
  <2> QED BY <1>1, <1>3, SumType
<1> HIDE DEF S, f
<1> QED
  BY <1>2, <1>4

\* The fee of the first rule that covers a distance, or none.
LEMMA BandFeeType ==
    ASSUME NEW rules \in Seq(FeeRule), NEW distance
    PROVE  BandFee(rules, distance) \in Nat
<1> DEFINE found == Covering(rules, distance)
<1>1. found \subseteq Nat /\ \A i \in found : i \in DOMAIN rules
  BY RuleAt DEF Covering
<1>2. CASE found = {}
  BY <1>2 DEF BandFee
<1>3. CASE found # {}
  <2> DEFINE first == CHOOSE i \in found : \A j \in found : i <= j
  <2>1. first \in found
    <3> HIDE DEF found
    <3> QED BY <1>1, <1>3, LeastNumber
  <2>2. rules[first] \in FeeRule
    <3> HIDE DEF found, first
    <3> QED BY <1>1, <2>1, RuleAt
  <2>3. BandFee(rules, distance) = rules[first].fee
    BY <1>3 DEF BandFee
  <2> HIDE DEF first
  <2> QED BY <2>2, <2>3 DEF FeeRule
<1> QED
  BY <1>2, <1>3

\* A quote or an order in progress is of somebody's basket; so is one made.
CustomerTypeOK ==
    /\ basket \in Basket \cup {Absent}
    /\ request \in Request
    /\ quote \in Priced \cup {Absent}
    /\ order \in Priced \cup {Absent}
    /\ steady \in BOOLEAN
    /\ edits \in 0 .. MaxEdits
    /\ request # Idle \/ quote # Absent => basket \in Basket

LEMMA CustomerTypeInit == ASSUME CheckoutInit PROVE CustomerTypeOK
<1>1. edits \in 0 .. MaxEdits
  BY CheckoutAssumption DEF CheckoutInit
<1>2. steady \in BOOLEAN
  BY DEF CheckoutInit
<1> QED
  BY <1>1, <1>2 DEF CheckoutInit, CustomerTypeOK, Request

\* Where a request stands says which locals it has.
LEMMA RequestLocals ==
    ASSUME request \in Request
    PROVE  /\ request.at \in {"asked", "located", "summed", "toggled"} =>
                 request.kind \in Kinds /\ request # Idle
           /\ request.at \in {"located", "summed", "toggled"} =>
                 request.distance \in Nat
           /\ request.at \in {"summed", "toggled"} => request.subtotal \in Nat
           /\ request.at = "toggled" => request.toggle \in BOOLEAN \cup {Absent}
<1> DEFINE Asked   == [at : {"asked"}, kind : Kinds]
           Located == [at : {"located"}, kind : Kinds, distance : Nat]
           Summed  == [at : {"summed"}, kind : Kinds, distance : Nat,
                       subtotal : Nat]
           Toggled == [at : {"toggled"}, kind : Kinds, distance : Nat,
                       subtotal : Nat, toggle : BOOLEAN \cup {Absent}]
<1>1. CASE request = Idle
  BY <1>1 DEF Idle
<1>2. CASE request \in Asked
  BY <1>2 DEF Idle
<1>3. CASE request \in Located
  BY <1>3 DEF Idle
<1>4. CASE request \in Summed
  BY <1>4 DEF Idle
<1>5. CASE request \in Toggled
  <2>1. /\ request.at = "toggled" /\ request.kind \in Kinds
        /\ request.distance \in Nat /\ request.subtotal \in Nat
    BY <1>5
  <2>2. request.toggle \in BOOLEAN \cup {Absent}
    BY <1>5, Zenon
  <2> QED BY <2>1, <2>2 DEF Idle
<1> QED
  BY <1>1, <1>2, <1>3, <1>4, <1>5 DEF Request

\* The steps of the customer.
LEMMA CustomerKeepsType ==
    ASSUME CustomerTypeOK, CatalogTypeOK, FeesTypeOK, StoreTypeOK, CustomerNext
    PROVE  CustomerTypeOK'
<1> USE DEF CustomerTypeOK
<1>1. ASSUME NEW b \in Basket, AskQuote(b) PROVE CustomerTypeOK'
  <2>1. steady' \in BOOLEAN BY <1>1 DEF AskQuote
  <2>2. edits' = edits BY DEF CustomerNext
  <2>3. request' \in Request BY <1>1 DEF AskQuote, Ask, Request, Kinds
  <2> QED BY <1>1, <2>1, <2>2, <2>3 DEF AskQuote
<1>2. ASSUME UNCHANGED <<basket, quote, order, steady>>, request' \in Request,
             request' # Idle => basket \in Basket
      PROVE  CustomerTypeOK'
  <2>1. edits' = edits BY DEF CustomerNext
  <2>2. steady' \in BOOLEAN BY <1>2
  <2> QED BY <1>2, <2>1, <2>2
<1>3. ASSUME PlaceOrder PROVE CustomerTypeOK'
  BY <1>2, <1>3 DEF PlaceOrder, Ask, Request, Kinds
<1>4. Refused => request' \in Request /\ request' = Idle
  BY DEF Refused, Request
<1>5. ASSUME CheckRange PROVE CustomerTypeOK'
  <2>1. basket \in Basket /\ request.kind \in Kinds
    BY <1>5, RequestLocals DEF CheckRange
  <2>2. ASSUME store # Absent PROVE DistanceTo(basket.place) \in Nat
    <3>1. store.place \in Places
      BY <2>2 DEF StoreTypeOK, StoreRow
    <3>2. basket.place \in Places
      BY <2>1 DEF Basket
    <3> QED
      BY <3>1, <3>2, StoreAssumption DEF DistanceTo
  <2>3. request' \in Request
    BY <1>4, <1>5, <2>1, <2>2 DEF CheckRange, Request
  <2> QED BY <1>2, <1>5, <2>1, <2>3 DEF CheckRange
<1>6. ASSUME SumPrices \/ PrepareLines PROVE CustomerTypeOK'
  <2> DEFINE sum == Subtotal(products, basket.items)
  <2>1. /\ basket \in Basket /\ request.kind \in Kinds
        /\ request.distance \in Nat
    BY <1>6, RequestLocals DEF SumPrices, PrepareLines
  <2>2. basket.items \in Carts
    BY <2>1 DEF Basket
  <2>3. ASSUME Ordered(basket.items) \subseteq OnSale
        PROVE  sum \in Nat
    <3>1. ASSUME NEW p \in OnSale PROVE products[p].price \in Nat
      <4>1. products[p] \in ProductRow
        BY DEF CatalogTypeOK, OnSale, Listed
      <4> QED BY <4>1, CatalogAssumption DEF ProductRow
    <3>2. \A p \in Ordered(basket.items) : products[p].price \in Nat
      BY <2>3, <3>1
    <3> QED BY <2>2, <3>2, SubtotalType
  <2>4. Refused \/ (sum \in Nat /\ LinesSumTo(sum))
    BY <1>6, <2>2, <2>3, LinesAddUp DEF SumPrices, PrepareLines
  <2>5. request' \in Request
    <3> HIDE DEF sum
    <3> QED BY <1>4, <2>1, <2>4 DEF Request, LinesSumTo
  <2> QED BY <1>2, <1>6, <2>1, <2>5 DEF SumPrices, PrepareLines
<1>7. ASSUME ReadToggle PROVE CustomerTypeOK'
  <2>1. /\ basket \in Basket /\ request.kind \in Kinds
        /\ request.distance \in Nat /\ request.subtotal \in Nat
    BY <1>7, RequestLocals DEF ReadToggle
  <2>2. feeEnabled \in BOOLEAN \cup {Absent}
    BY DEF FeesTypeOK
  <2>3. request' \in [at : {"toggled"}, kind : Kinds, distance : Nat,
                      subtotal : Nat, toggle : BOOLEAN \cup {Absent}]
    BY <1>7, <2>1, <2>2, Zenon DEF ReadToggle
  <2>4. request' \in Request
    BY <2>3, Zenon DEF Request
  <2> QED BY <1>2, <1>7, <2>1, <2>4 DEF ReadToggle
<1>8. ASSUME AnswerQuote \/ InsertOrder PROVE CustomerTypeOK'
  <2> DEFINE fee    == MatchFee(request.toggle, feeRules, request.distance)
             total  == request.subtotal + fee
             priced == [distance |-> request.distance, toggle |-> request.toggle,
                        fee |-> fee, total |-> total]
  <2>1. /\ basket \in Basket
        /\ request.distance \in Nat /\ request.subtotal \in Nat
        /\ request.toggle \in BOOLEAN \cup {Absent}
    BY <1>8, RequestLocals DEF AnswerQuote, InsertOrder
  <2>2. /\ quote' \in {quote, priced} /\ order' \in {order, priced}
        /\ request' = Idle
        /\ UNCHANGED <<basket, steady>>
    BY <1>8 DEF AnswerQuote, InsertOrder, DeliveryFee
  <2>3. feeRules \in Seq(FeeRule)
    BY FeesAssumption, NoRulesAcceptable DEF FeesTypeOK
  <2>4. fee \in Nat
    BY <2>3, BandFeeType DEF MatchFee
  <2> HIDE DEF fee
  <2>5. total \in Nat
    BY <2>1, <2>4
  <2> HIDE DEF total
  <2>6. priced \in Priced
    BY <2>1, <2>4, <2>5, Zenon DEF Priced
  <2> HIDE DEF priced
  <2>7. edits' = edits /\ steady' = steady BY <2>2 DEF CustomerNext
  <2>8. request' \in Request BY <2>2 DEF Request
  <2>9. steady' \in BOOLEAN BY <2>7
  <2> QED BY <2>1, <2>2, <2>6, <2>7, <2>8, <2>9
<1>9. ASSUME RequestFails PROVE CustomerTypeOK'
  BY <1>2, <1>4, <1>9 DEF RequestFails
<1> QED
  BY <1>1, <1>3, <1>5, <1>6, <1>7, <1>8, <1>9 DEF CustomerNext

\* The admins leave the customer alone, except that order-service ending ends
\* the request.
LEMMA CustomerTypeStep ==
    ASSUME CustomerTypeOK, CatalogTypeOK, FeesTypeOK, StoreTypeOK,
           [CheckoutNext]_checkoutVars
    PROVE  CustomerTypeOK'
<1>1. CASE CustomerNext
  BY <1>1, CustomerKeepsType
<1>2. ASSUME UNCHANGED <<basket, quote, order>>, request' \in {request, Idle},
             steady' \in BOOLEAN, edits' = edits \/ Begins
      PROVE  CustomerTypeOK'
  <2>1. edits' \in 0 .. MaxEdits
    BY <1>2, CheckoutAssumption DEF CustomerTypeOK, Begins
  <2>2. request' \in Request
    BY <1>2 DEF CustomerTypeOK, Request
  <2> QED BY <1>2, <2>1, <2>2 DEF CustomerTypeOK
<1>3. steady \in BOOLEAN
  BY DEF CustomerTypeOK
<1>4. CASE CatalogNext
  <2>1. steady' \in BOOLEAN
    BY <1>3, <1>4, Zenon DEF CatalogNext
  <2> QED BY <1>2, <1>4, <2>1 DEF CatalogNext, customerVars
<1>5. CASE FeesNext
  <2>1. steady' \in BOOLEAN
    BY <1>3, <1>5, Zenon DEF FeesNext
  <2> QED BY <1>2, <1>5, <2>1 DEF FeesNext, Refused
<1>6. CASE StoreNext
  <2>1. steady' \in BOOLEAN
    BY <1>3, <1>6, Zenon DEF StoreNext
  <2> QED BY <1>2, <1>6, <2>1 DEF StoreNext, customerVars
<1>7. CASE UNCHANGED checkoutVars
  <2>1. steady' \in BOOLEAN
    BY <1>3, <1>7 DEF checkoutVars
  <2> QED BY <1>2, <1>7, <2>1 DEF checkoutVars, customerVars
<1> QED
  BY <1>1, <1>4, <1>5, <1>6, <1>7 DEF CheckoutNext

-----------------------------------------------------------------------------
(***************************************************************************)
(* Quotes and orders.                                                      *)
(***************************************************************************)
\* What the answer would be if everything were read at once.
PricedNow ==
    LET distance == DistanceTo(basket.place)
        fee      == MatchFee(feeEnabled, feeRules, distance)
    IN  [distance |-> distance, toggle |-> feeEnabled, fee |-> fee,
         total |-> Subtotal(products, basket.items) + fee]

\* As long as nobody edits anything, what a request has read so far, and the
\* quote and the order, are what they would be if read now.
ReadsStillTrue ==
    steady =>
        /\ request.at \in {"located", "summed", "toggled"} =>
              request.distance = DistanceTo(basket.place)
        /\ request.at \in {"summed", "toggled"} =>
              request.subtotal = Subtotal(products, basket.items)
        /\ request.at = "toggled" => request.toggle = feeEnabled
        /\ quote # Absent => quote = PricedNow
        /\ order # Absent => order = PricedNow

\* The rules in force are logged, and the fees charged come from the log.
FeesLogged == feeRules \in feeLog /\ FeeFromStoredRules

LEMMA ReadsStillTrueInit == ASSUME CheckoutInit PROVE ReadsStillTrue
  BY DEF CheckoutInit, ReadsStillTrue

LEMMA FeesLoggedInit == ASSUME CheckoutInit PROVE FeesLogged
  BY DEF CheckoutInit, FeesInit, FeesLogged, FeeFromStoredRules

\* Nothing a request depends on was stored.
LEMMA NothingEdited ==
    ASSUME UNCHANGED <<store, products, feeEnabled, feeRules, basket>>
    PROVE  /\ PricedNow' = PricedNow
           /\ DistanceTo(basket.place)' = DistanceTo(basket.place)
           /\ Subtotal(products, basket.items)'
                  = Subtotal(products, basket.items)
<1>1. DistanceTo(basket.place)' = DistanceTo(basket.place)
  BY DEF DistanceTo
<1>2. Subtotal(products, basket.items)' = Subtotal(products, basket.items)
  OBVIOUS
<1>3. MatchFee(feeEnabled, feeRules, DistanceTo(basket.place))'
          = MatchFee(feeEnabled, feeRules, DistanceTo(basket.place))
  BY <1>1
<1> QED
  BY <1>1, <1>2, <1>3 DEF PricedNow

LEMMA CustomerKeepsReads ==
    ASSUME ReadsStillTrue, CustomerTypeOK, CustomerNext
    PROVE  ReadsStillTrue'
<1> USE DEF ReadsStillTrue
<1>1. /\ UNCHANGED <<store, products, feeEnabled, feeRules>>
      /\ UNCHANGED basket => PricedNow' = PricedNow
      /\ UNCHANGED basket =>
            DistanceTo(basket.place)' = DistanceTo(basket.place)
      /\ UNCHANGED basket =>
            Subtotal(products, basket.items)' = Subtotal(products, basket.items)
  BY NothingEdited DEF CustomerNext, catalogVars, feeVars, storeVars
<1>2. ASSUME NEW b \in Basket, AskQuote(b) PROVE ReadsStillTrue'
  BY <1>2 DEF AskQuote, Ask
<1>3. ASSUME PlaceOrder PROVE ReadsStillTrue'
  BY <1>1, <1>3 DEF PlaceOrder, Ask
<1>4. ASSUME CheckRange PROVE ReadsStillTrue'
  BY <1>1, <1>4 DEF CheckRange, Refused, Idle
<1>5. ASSUME SumPrices \/ PrepareLines PROVE ReadsStillTrue'
  <2>1. basket.items \in Carts
    BY <1>5 DEF SumPrices, PrepareLines, CustomerTypeOK, Basket, Idle
  <2>2. Refused \/ LinesSumTo(Subtotal(products, basket.items))
    BY <1>5, <2>1, LinesAddUp DEF SumPrices, PrepareLines
  <2>3. /\ request.at = "located"
        /\ UNCHANGED <<basket, quote, order, steady>>
    BY <1>5 DEF SumPrices, PrepareLines
  <2>4. CASE Refused
    BY <1>1, <2>3, <2>4 DEF Refused, Idle
  <2>5. CASE LinesSumTo(Subtotal(products, basket.items))
    <3> DEFINE sum == Subtotal(products, basket.items)
    <3>1. /\ request'.at = "summed"
          /\ request'.distance = request.distance
          /\ request'.subtotal = sum
      BY <2>5 DEF LinesSumTo
    <3>2. sum' = sum
      BY <1>1, <2>3
    <3> HIDE DEF sum
    <3> QED
      BY <1>1, <2>3, <3>1, <3>2 DEF sum
  <2> QED
    BY <2>2, <2>4, <2>5
<1>6. ASSUME ReadToggle PROVE ReadsStillTrue'
  BY <1>1, <1>6 DEF ReadToggle
<1>7. ASSUME AnswerQuote \/ InsertOrder PROVE ReadsStillTrue'
  <2> DEFINE fee    == MatchFee(request.toggle, feeRules, request.distance)
             priced == [distance |-> request.distance, toggle |-> request.toggle,
                        fee |-> fee, total |-> request.subtotal + fee]
  <2>1. /\ request.at = "toggled"
        /\ quote' \in {quote, priced} /\ order' \in {order, priced}
        /\ request' = Idle
        /\ UNCHANGED <<basket, steady>>
    BY <1>7 DEF AnswerQuote, InsertOrder, DeliveryFee
  <2>2. steady => priced = PricedNow
    BY <2>1 DEF PricedNow
  <2> HIDE DEF priced
  <2> QED
    BY <1>1, <2>1, <2>2 DEF Idle
<1>8. ASSUME RequestFails PROVE ReadsStillTrue'
  BY <1>1, <1>8 DEF RequestFails, Refused, Idle
<1> QED
  BY <1>2, <1>3, <1>4, <1>5, <1>6, <1>7, <1>8 DEF CustomerNext

LEMMA ReadsStillTrueStep ==
    ASSUME ReadsStillTrue, CustomerTypeOK, FeesTypeOK,
           [CheckoutNext]_checkoutVars
    PROVE  ReadsStillTrue'
<1>1. CASE CustomerNext
  BY <1>1, CustomerKeepsReads
<1>2. CASE ~steady'
  BY <1>2 DEF ReadsStillTrue
<1>3. ASSUME UNCHANGED <<store, products, feeEnabled, feeRules, basket, quote,
                         order, steady>>,
             request' \in {request, Idle}
      PROVE  ReadsStillTrue'
  BY <1>3, NothingEdited DEF ReadsStillTrue, Idle
<1>4. CASE CatalogNext
  BY <1>2, <1>3, <1>4
     DEF CatalogNext, LoadForPatch, RefusePatch, ReloadProduct, AnnounceProduct,
         CatalogRestart, feeVars, storeVars, customerVars
<1>5. CASE FeesNext
  <2>1. ASSUME FeesRestart, steady', steady' = (steady /\ UNCHANGED feeEnabled)
        PROVE  UNCHANGED <<feeEnabled, feeRules, steady>>
    BY <2>1, FeesAssumption DEF FeesRestart
  <2> QED
    BY <1>2, <1>3, <1>5, <2>1
       DEF FeesNext, PutFees, Refused, catalogVars, storeVars
<1>6. CASE StoreNext
  <2>1. ASSUME StoreRestart, steady', steady' = (steady /\ UNCHANGED store)
        PROVE  UNCHANGED <<store, steady>>
    BY <2>1 DEF StoreRestart
  <2> QED
    BY <1>2, <1>3, <1>6, <2>1
       DEF StoreNext, PutStore, catalogVars, feeVars, customerVars
<1>7. CASE UNCHANGED checkoutVars
  BY <1>3, <1>7 DEF checkoutVars, catalogVars, feeVars, storeVars, customerVars
<1> QED
  BY <1>1, <1>4, <1>5, <1>6, <1>7 DEF CheckoutNext

LEMMA FeesLoggedStep ==
    ASSUME FeesLogged, [CheckoutNext]_checkoutVars PROVE FeesLogged'
<1>1. feeRules' \in feeLog' /\ feeLog \subseteq feeLog'
  BY FeesSteps
     DEF FeesStep, PutFees, SaveFees, FeesRestart, feeVars, FeesLogged
<1> DEFINE Charged(priced, log) ==
        IF priced.toggle = TRUE
        THEN \E l \in log : priced.fee = BandFee(l, priced.distance)
        ELSE priced.fee = 0
<1>2. \A priced : Charged(priced, feeLog) => Charged(priced, feeLog')
  BY <1>1
<1>3. CASE UNCHANGED <<quote, order>>
  BY <1>1, <1>2, <1>3 DEF FeesLogged, FeeFromStoredRules
<1>4. CASE CustomerNext
  <2>1. ASSUME AnswerQuote \/ InsertOrder PROVE FeesLogged'
    <3> DEFINE fee    == MatchFee(request.toggle, feeRules, request.distance)
               priced == [distance |-> request.distance,
                          toggle |-> request.toggle,
                          fee |-> fee, total |-> request.subtotal + fee]
    <3>1. quote' \in {quote, priced} /\ order' \in {order, priced}
      BY <2>1 DEF AnswerQuote, InsertOrder, DeliveryFee
    <3>2. Charged(priced, feeLog)
      BY DEF MatchFee, FeesLogged
    <3> HIDE DEF priced
    <3> QED
      BY <1>1, <1>2, <3>1, <3>2 DEF FeesLogged, FeeFromStoredRules
  <2>2. ASSUME NEW b \in Basket, AskQuote(b) PROVE FeesLogged'
    BY <1>1, <2>2 DEF AskQuote, FeesLogged, FeeFromStoredRules
  <2> QED
    BY <1>3, <1>4, <2>1, <2>2
       DEF CustomerNext, PlaceOrder, CheckRange, SumPrices, PrepareLines,
           ReadToggle, RequestFails
<1>5. CASE CatalogNext \/ FeesNext \/ StoreNext \/ UNCHANGED checkoutVars
  BY <1>3, <1>5
     DEF CatalogNext, FeesNext, StoreNext, checkoutVars, customerVars
<1> QED
  BY <1>4, <1>5 DEF CheckoutNext

-----------------------------------------------------------------------------
(***************************************************************************)
(* The invariant, and what follows from it.                                *)
(***************************************************************************)
CheckoutInv ==
    /\ CatalogInv
    /\ FeesInv
    /\ StoreTypeOK
    /\ CustomerTypeOK
    /\ FeesLogged
    /\ ReadsStillTrue

LEMMA CheckoutInvariant == CheckoutSpec => []CheckoutInv
<1>1. CheckoutInit => CheckoutInv
  BY CatalogInvInit, FeesInvInit, StoreTypeInit, CustomerTypeInit,
     FeesLoggedInit, ReadsStillTrueInit DEF CheckoutInv
<1>2. CheckoutInv /\ [CheckoutNext]_checkoutVars => CheckoutInv'
  <2> SUFFICES ASSUME CheckoutInv, [CheckoutNext]_checkoutVars
               PROVE  CheckoutInv'
    OBVIOUS
  <2>1. CatalogInv'
    BY CatalogSteps, CatalogInvStep DEF CheckoutInv
  <2>2. FeesInv'
    BY FeesSteps, FeesInvStep DEF CheckoutInv
  <2>3. StoreTypeOK'
    BY StoreSteps, StoreTypeStep DEF CheckoutInv
  <2>4. FeesLogged'
    BY FeesLoggedStep DEF CheckoutInv
  <2>5. ReadsStillTrue'
    BY ReadsStillTrueStep DEF CheckoutInv, FeesInv
  <2>6. CustomerTypeOK'
    BY CustomerTypeStep DEF CheckoutInv, CatalogInv, FeesInv
  <2> QED
    BY <2>1, <2>2, <2>3, <2>4, <2>5, <2>6 DEF CheckoutInv
<1> QED
  BY <1>1, <1>2, PTL DEF CheckoutSpec

\* The tables of the catalog, of the fee rules and of the store stay well
\* typed, whatever the admins send, and so do the requests of the customer: a
\* quote and an order are numbers (quote_order.go, create_order.go: the sum of
\* the lines, the fee of the band), never a place or a row that is not there.
THEOREM CheckoutTypeCorrect == CheckoutSpec => []CheckoutTypeOK
<1>1. CheckoutInv => CheckoutTypeOK
  BY Zenon DEF CheckoutInv, CatalogInv, FeesInv, CheckoutTypeOK, CustomerTypeOK
<1> QED
  BY <1>1, CheckoutInvariant, PTL

\* A price on sale or announced is on record (products.go: insertPriceHistory
\* in the transaction that stores the row).
THEOREM PricesAreRecorded == CheckoutSpec => []PricesOnRecord
<1>1. CheckoutInv => PricesOnRecord
  BY DEF CheckoutInv, CatalogInv
<1> QED
  BY <1>1, CheckoutInvariant, PTL

\* The last price on record and the price on sale part only at a patch stored
\* over a price it had not loaded (products.go: handlePatchProduct).
THEOREM TrailLeftByStaleWrites == CheckoutSpec => TrailLeftOnlyByStaleWrite
<1>1. CheckoutInv /\ [CheckoutNext]_checkoutVars => TrailLeftOnlyByStaleStep
  BY CatalogSteps, TrailStep DEF CheckoutInv
<1>2. CheckoutInv /\ [CheckoutNext]_checkoutVars =>
          [TrailLeftOnlyByStaleStep]_<<products, priceHistory>>
  BY <1>1
<1> QED
  BY <1>2, CheckoutInvariant, PTL
     DEF CheckoutSpec, TrailLeftOnlyByStaleWrite, TrailLeftOnlyByStaleStep

\* Comparing neighbours is enough (validateActiveRuleBands): of the rules stored
\* at most one covers a distance.
THEOREM BandsNeverOverlap == CheckoutSpec => []OneBandPerDistance
<1>1. CheckoutInv => OneBandPerDistance
  BY AcceptableMeansOneBand DEF CheckoutInv
<1> QED
  BY <1>1, CheckoutInvariant, PTL

\* A fee is charged by a list of rules that was in force as a whole
\* (loadDeliveryFeeConfig, saveDeliveryFeeConfig).
THEOREM FeesAreWhole == CheckoutSpec => []FeeFromStoredRules
<1>1. CheckoutInv => FeeFromStoredRules
  BY DEF CheckoutInv, FeesLogged
<1> QED
  BY <1>1, CheckoutInvariant, PTL

\* The order costs what the quote said unless an admin stored something in
\* between (quote_order.go, create_order.go).
THEOREM QuotesHold == CheckoutSpec => []PlacedAsQuoted
<1>1. CheckoutInv => PlacedAsQuoted
  BY DEF CheckoutInv, ReadsStillTrue, PlacedAsQuoted
<1> QED
  BY <1>1, CheckoutInvariant, PTL
=============================================================================
