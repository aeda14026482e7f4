------------------------------- MODULE Catalog -------------------------------
(***************************************************************************)
(* catalog-service: the products, their price history, and the events      *)
(* that announce them (products.go, product_events.go, schema.sql).        *)
(*                                                                         *)
(* A transaction is one step (one connection).  Name, unit, description    *)
(* and images of a product go the way of the fields kept here, without     *)
(* the UNIQUE of sku.                                                      *)
(***************************************************************************)
EXTENDS Editing, Naturals, Sequences

CONSTANTS
    Products,  \* product ids
    Skus,
    Prices,    \* sale_price, VND
    Bodies,    \* the patches admins send
    Opening    \* the catalog at first; each product is as it was created

ProductRow == [sku : Skus, price : Prices, active : BOOLEAN]

\* patchProductBody: at least one field.
PatchBody ==
    [sku : Skus \cup {Absent}, price : Prices \cup {Absent},
     active : BOOLEAN \cup {Absent}]
        \ {[sku |-> Absent, price |-> Absent, active |-> Absent]}

ASSUME CatalogAssumption ==
    /\ Prices \subseteq Nat
    /\ Absent \notin Skus
    /\ Absent \notin Prices
    /\ Absent \notin BOOLEAN
    /\ Absent \notin ProductRow
    /\ Bodies \subseteq PatchBody
    /\ Opening \in [Products -> ProductRow \cup {Absent}]

VARIABLES
    products,       \* table products
    priceHistory,   \* table product_price_history, oldest first
    productEvents,  \* catalog.product.updated in JetStream
    productEdit     \* the create and patch handlers, with their locals

catalogVars == <<products, priceHistory, productEvents, productEdit>>

Announcement == [product : Products, row : ProductRow]

ProductEdit ==
    {Idle}
        \cup [at : {"loaded"}, product : Products, row : ProductRow,
              body : PatchBody]
        \cup [at : {"written"}, product : Products]
        \cup [at : {"reloaded"}, product : Products, row : ProductRow]

CatalogTypeOK ==
    /\ products \in [Products -> ProductRow \cup {Absent}]
    /\ priceHistory \in [Products -> Seq(Prices)]
    /\ productEvents \subseteq Announcement
    /\ productEdit \in [Editors -> ProductEdit]

CatalogInit ==
    /\ products = Opening
    /\ priceHistory = [p \in Products |->
           IF Opening[p] = Absent THEN << >> ELSE <<Opening[p].price>>]
    /\ productEvents = {}
    /\ productEdit = [e \in Editors |-> Idle]

-----------------------------------------------------------------------------
Listed == {p \in Products : products[p] # Absent}

\* products.sku is UNIQUE: may p have this one?
SkuFree(sku, p) == \A q \in Listed \ {p} : products[q].sku # sku

StoreProduct(p, row) == products' = [products EXCEPT ![p] = row]

\* insertPriceHistory
RecordPrice(p, price) ==
    priceHistory' = [priceHistory EXCEPT ![p] = Append(@, price)]

Goto(e, edit) == productEdit' = [productEdit EXCEPT ![e] = edit]

\* The columns written: the body over the row loaded before.
Merged(edit) ==
    [sku    |-> Given(edit.body.sku, edit.row.sku),
     price  |-> Given(edit.body.price, edit.row.price),
     active |-> Given(edit.body.active, edit.row.active)]

\* handleCreateProduct, up to its commit; a taken sku is a 409.
CreateProduct(e, p, row) ==
    /\ productEdit[e] = Idle
    /\ products[p] = Absent
    /\ SkuFree(row.sku, p)
    /\ StoreProduct(p, row)
    /\ RecordPrice(p, row.price)
    /\ Goto(e, [at |-> "written", product |-> p])
    /\ UNCHANGED productEvents

\* handlePatchProduct loads the product outside its transaction.
LoadForPatch(e, p, body) ==
    /\ productEdit[e] = Idle
    /\ p \in Listed
    /\ Goto(e, [at |-> "loaded", product |-> p, row |-> products[p],
                body |-> body])
    /\ UNCHANGED <<products, priceHistory, productEvents>>

\* isUniqueViolation: SKU_EXISTS, and the transaction is rolled back.
\* Mutant: the merged row is announced all the same.
AnnounceRefusedPatch(e) ==
    /\ productEdit[e].at = "loaded"
    /\ ~SkuFree(Merged(productEdit[e]).sku, productEdit[e].product)
    /\ Goto(e, [at |-> "reloaded", product |-> productEdit[e].product,
                row |-> Merged(productEdit[e])])
    /\ UNCHANGED <<products, priceHistory, productEvents>>

RefusePatch(e) ==
    /\ productEdit[e].at = "loaded"
    /\ ~SkuFree(Merged(productEdit[e]).sku, productEdit[e].product)
    /\ Goto(e, Idle)
    /\ UNCHANGED <<products, priceHistory, productEvents>>

\* priceChanged.  Mutant: asked of the row after the body was merged into it.
PriceChangedAfterMerge(edit) ==
    edit.body.price # Absent /\ edit.body.price # Merged(edit).price

PriceChanged(edit) ==
    edit.body.price # Absent /\ edit.body.price # edit.row.price

\* The transaction of a patch: every column is written.
CommitPatch(e) ==
    LET edit == productEdit[e]
        p    == edit.product
    IN  /\ edit.at = "loaded"
        /\ SkuFree(Merged(edit).sku, p)
        /\ StoreProduct(p, Merged(edit))
        /\ IF PriceChanged(edit)
           THEN RecordPrice(p, Merged(edit).price)
           ELSE UNCHANGED priceHistory
        /\ Goto(e, [at |-> "written", product |-> p])
        /\ UNCHANGED productEvents

\* The product is loaded again, which may show what another admin wrote since.
ReloadProduct(e) ==
    /\ productEdit[e].at = "written"
    /\ Goto(e, [at |-> "reloaded", product |-> productEdit[e].product,
                row |-> products[productEdit[e].product]])
    /\ UNCHANGED <<products, priceHistory, productEvents>>

\* publishProductUpdated: a failure is logged and the request ends well.
AnnounceProduct(e) ==
    /\ productEdit[e].at = "reloaded"
    /\ \/ productEvents' = productEvents \cup
              {[product |-> productEdit[e].product, row |-> productEdit[e].row]}
       \/ UNCHANGED productEvents
    /\ Goto(e, Idle)
    /\ UNCHANGED <<products, priceHistory>>

\* The requests being served end with the process.
CatalogRestart ==
    /\ productEdit' = [e \in Editors |-> Idle]
    /\ UNCHANGED <<products, priceHistory, productEvents>>

-----------------------------------------------------------------------------
(***************************************************************************)
(* Properties.                                                             *)
(***************************************************************************)
OnRecord(p, price) == \E i \in DOMAIN priceHistory[p] : priceHistory[p][i] = price

\* Whatever patches overlap, are refused for their sku or die on the way: a
\* price on sale, or announced to inventory-service, is one the audit table
\* product_price_history holds for that product.
PricesOnRecord ==
    /\ \A p \in Listed : OnRecord(p, products[p].price)
    /\ \A a \in productEvents : OnRecord(a.product, a.row.price)

\* The last price on record is the price on sale.
TrailCurrent(p) ==
    p \in Listed => /\ priceHistory[p] # << >>
                    /\ priceHistory[p][Len(priceHistory[p])] = products[p].price

TrailCurrentNext(p) ==
    p \in Listed' => /\ priceHistory'[p] # << >>
                     /\ priceHistory'[p][Len(priceHistory'[p])]
                            = products'[p].price

\* The price on sale and the last one on record part for one reason only: a
\* patch stored over a price that was not the one it had loaded.
TrailLeftOnlyByStaleWrite ==
    [][\A p \in Products :
          TrailCurrent(p) /\ ~TrailCurrentNext(p) =>
              \E e \in Editors :
                  /\ productEdit[e].at = "loaded"
                  /\ productEdit'[e].at = "written"
                  /\ productEdit[e].product = p
                  /\ productEdit[e].row.price # products[p].price
      ]_<<products, priceHistory>>
=============================================================================
