------------------------------- MODULE MCShop -------------------------------
(***************************************************************************)
(* The shop and the business behind it, for TLC: customers, categories,    *)
(* catalogue, images, domains, settings, the platform's people, plans,     *)
(* tenants, keys of Razorpay, the cart, the counter, GST and invoice       *)
(* numbers.  What the parts share is in the modules of orders, payments    *)
(* and stock, so a behaviour is one of the part chosen at its start.       *)
(***************************************************************************)
EXTENDS Customers, Categories, Catalog, ProductImages, Workspace, Platform, Cart, Counter, Invoices, Tenants, Gateway, TLC

CONSTANTS Parts, u1, u2, x1, x2, y1, y2, o1

ASSUME OfficerAssumption == o1 \in Officer

VARIABLE part

allVars == <<part, customerVars, categoryVars, catalogVars, imageVars, domainVars, settingsVars,
             platformVars, planVars, cartVars, counterVars, gstVars, invoiceVars, tenantVars, gatewayVars>>

ShopInit ==
    /\ part \in Parts
    /\ CustomersInit /\ CategoriesInit /\ CatalogInit /\ ImagesInit /\ DomainsInit /\ SettingsInit
    /\ PlatformInit /\ PlansInit /\ CartInit /\ CounterInit /\ GstInit /\ InvoicesInit
    /\ TenantsInit /\ GatewayInit
    \* the parts that stand still start in one of their initial states only
    /\ part \notin {"limits", "plans"} => ceiling = [r \in Resource |-> Null]
    /\ part # "tenants" => firm = [f \in Firm |-> NoFirm]
    /\ part # "gst" => sale = [inclusive |-> TRUE, intra |-> TRUE, charges |-> TRUE]

ShopNext ==
    /\ UNCHANGED part
    /\ \/ part = "customers" /\ CustomersNext
          /\ UNCHANGED <<categoryVars, catalogVars, imageVars, domainVars, settingsVars, platformVars,
                         planVars, cartVars, counterVars, gstVars, invoiceVars, tenantVars, gatewayVars>>
       \/ part = "categories" /\ CategoriesNext
          /\ UNCHANGED <<customerVars, catalogVars, imageVars, domainVars, settingsVars, platformVars,
                         planVars, cartVars, counterVars, gstVars, invoiceVars, tenantVars, gatewayVars>>
       \/ part = "places" /\ (ProductsNext \/ PlacesNext)
          /\ UNCHANGED <<customerVars, categoryVars, imageVars, domainVars, settingsVars, platformVars,
                         planVars, cartVars, counterVars, gstVars, invoiceVars, tenantVars, gatewayVars>>
       \/ part = "variants" /\ (ProductsNext \/ VariantsNext)
          /\ UNCHANGED <<customerVars, categoryVars, imageVars, domainVars, settingsVars, platformVars,
                         planVars, cartVars, counterVars, gstVars, invoiceVars, tenantVars, gatewayVars>>
       \/ part = "images" /\ ImagesNext
          /\ UNCHANGED <<customerVars, categoryVars, catalogVars, domainVars, settingsVars, platformVars,
                         planVars, cartVars, counterVars, gstVars, invoiceVars, tenantVars, gatewayVars>>
       \/ part = "domains" /\ DomainsNext
          /\ UNCHANGED <<customerVars, categoryVars, catalogVars, imageVars, settingsVars, platformVars,
                         planVars, cartVars, counterVars, gstVars, invoiceVars, tenantVars, gatewayVars>>
       \/ part = "settings" /\ SettingsNext
          /\ UNCHANGED <<customerVars, categoryVars, catalogVars, imageVars, domainVars, platformVars,
                         planVars, cartVars, counterVars, gstVars, invoiceVars, tenantVars, gatewayVars>>
       \/ part = "platform" /\ PlatformNext
          /\ UNCHANGED <<customerVars, categoryVars, catalogVars, imageVars, domainVars, settingsVars,
                         planVars, cartVars, counterVars, gstVars, invoiceVars, tenantVars, gatewayVars>>
       \/ /\ part = "limits"
          /\ CreatesNext \/ OfficerNext(o1) \/ \E p \in PlanCode, limits \in Limits : CreatePlan(p, limits)
          /\ UNCHANGED <<customerVars, categoryVars, catalogVars, imageVars, domainVars, settingsVars,
                         platformVars, cartVars, counterVars, gstVars, invoiceVars, tenantVars, gatewayVars>>
       \/ /\ part = "plans"
          /\ \/ \E f \in Officer : OfficerNext(f)
             \/ \E p \in PlanCode, limits \in Limits : CreatePlan(p, limits)
          /\ UNCHANGED <<customerVars, categoryVars, catalogVars, imageVars, domainVars, settingsVars,
                         platformVars, cartVars, counterVars, gstVars, invoiceVars, tenantVars, gatewayVars>>
       \/ part = "cart" /\ CartNext
          /\ UNCHANGED <<customerVars, categoryVars, catalogVars, imageVars, domainVars, settingsVars,
                         platformVars, planVars, counterVars, gstVars, invoiceVars, tenantVars, gatewayVars>>
       \/ part = "counter" /\ CounterNext
          /\ UNCHANGED <<customerVars, categoryVars, catalogVars, imageVars, domainVars, settingsVars,
                         platformVars, planVars, cartVars, gstVars, invoiceVars, tenantVars, gatewayVars>>
       \/ part = "gst" /\ GstNext
          /\ UNCHANGED <<customerVars, categoryVars, catalogVars, imageVars, domainVars, settingsVars,
                         platformVars, planVars, cartVars, counterVars, invoiceVars, tenantVars, gatewayVars>>
       \/ part = "invoices" /\ InvoicesNext
          /\ UNCHANGED <<customerVars, categoryVars, catalogVars, imageVars, domainVars, settingsVars,
                         platformVars, planVars, cartVars, counterVars, gstVars, tenantVars, gatewayVars>>
       \/ part = "tenants" /\ TenantsNext
          /\ UNCHANGED <<customerVars, categoryVars, catalogVars, imageVars, domainVars, settingsVars,
                         platformVars, planVars, cartVars, counterVars, gstVars, invoiceVars, gatewayVars>>
       \/ part = "gateway" /\ GatewayNext
          /\ UNCHANGED <<customerVars, categoryVars, catalogVars, imageVars, domainVars, settingsVars,
                         platformVars, planVars, cartVars, counterVars, gstVars, invoiceVars, tenantVars>>

ShopSpec == ShopInit /\ [][ShopNext]_allVars

(* The parts share the model values of their ids, and so their permutations. *)
ShopSymmetry == Permutations({u1, u2}) \cup Permutations({x1, x2}) \cup Permutations({y1, y2})

(* The parts that stand still stay as they began, so each is looked at in its own behaviours. *)
In(p, holds) == part = p => holds

(* The rows, requests and totals of the parts have the values of the schema. *)
ShopTypeOK ==
    /\ In("customers", CustomersTypeOK) /\ In("categories", CategoriesTypeOK) /\ In("places", CatalogTypeOK)
    /\ In("variants", CatalogTypeOK)
    /\ In("images", ImagesTypeOK) /\ In("domains", DomainsTypeOK) /\ In("settings", SettingsTypeOK)
    /\ In("platform", PlatformTypeOK) /\ In("limits", PlansTypeOK) /\ In("plans", PlansTypeOK) /\ In("cart", CartTypeOK)
    /\ In("counter", CounterTypeOK) /\ In("gst", GstTypeOK) /\ In("invoices", InvoicesTypeOK)
    /\ In("tenants", TenantsTypeOK) /\ In("gateway", GatewayTypeOK)

(* What the code keeps by looking before it writes, while requests do not overlap: one default address
   (customers.repository.js:139), one primary image and domain, barcodes and values that fit, a tree of
   categories, settings and limits that nobody overwrites, a manager of the platform, a cart bought once, a cached
   tenant that is the tenant (tenants.service.js:101). *)
KeptInTurn ==
    /\ In("customers", OneDefaultInTurn) /\ In("images", OnePrimaryInTurn) /\ In("domains", OnePrimaryDomainInTurn)
    /\ In("places", CatalogInTurn) /\ In("variants", CatalogInTurn) /\ In("categories", OnlyTwoMovesMakeACycle /\ EverybodyIsInTheTree)
    /\ In("settings", SettingsKeptInTurn) /\ In("plans", LimitsKeptInTurn)
    /\ In("platform", AManagerRemainsInTurn) /\ In("cart", WishesKeptInTurn)
    /\ In("tenants", TenantCacheInTurn)

(* What locks, unique indexes and the order of the steps keep whatever overlaps: a row of an image has its
   file (product-images.service.js:11), a tax profile is of one state (workspace.service.js:122), nobody is let in
   after the end of a support visit (support.service.js:13), the plan's limit is passed by no more than the creates
   at once (plans.service.js:45), a UPI payment pays one sale and there is one walk-in customer (pos.service.js:118,
   31), an invoice adds up (gst.js:57) and the numbers of a year have no gap (orders.service.js:236), a seed that ends
   leaves whole tenants (seed.js:222), and a payment is not stranded when Razorpay is switched off
   (payment-gateway.service.js:81). *)
KeptAlways ==
    /\ In("images", RowHasFile) /\ In("settings", ProfileOfOneState) /\ In("platform", NoEntryAfterTheEnd)
    /\ In("limits", SoftLimit) /\ In("counter", UpiPaidOnce /\ OneWalkIn)
    /\ In("gst", InvoiceAddsUp /\ TagPriceIsPaid /\ TaxIsNearest) /\ In("invoices", NumberedWithoutGaps)
    /\ In("tenants", SeededIsWhole) /\ In("gateway", SwitchingOffStrandsNothing)

=============================================================================
