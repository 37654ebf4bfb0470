SPECIFICATION ShopSpec
CONSTANTS
    Parts = {"customers", "categories", "places", "variants", "images", "domains", "settings", "platform", "limits", "plans", "cart", "counter", "gst", "invoices", "tenants", "gateway"}
    u1 = u1
    u2 = u2
    x1 = x1
    x2 = x2
    y1 = y1
    y2 = y2
    o1 = o1
    MaxAddress = 3
    AddressType = {x1, x2}
    Clerk = {u1, u2}
    Nothing = Nothing
    Category = {x1, x2, z1}
    Editor = {u1, u2}
    Unmade = Unmade
    Top = Top
    NoEdit = NoEdit
    Product = {p1}
    Variant = {x1, x2}
    Shelf = {y1, y2}
    Barcode = {b1}
    Merchant = {u1, u2}
    Blank = Blank
    Image = {x1, x2}
    Gallery = {y1, y2}
    Uploader = {u1, u2}
    NoImage = NoImage
    Tenant = {x1, x2}
    Domain = {y1, y2}
    Owner = {u1, u2}
    MaxClaim = 3
    Unclaimed = Unclaimed
    State = {x1, x2}
    Pan = {y1, y2}
    Saver = {u1, u2}
    Unset = Unset
    Left = Left
    Insider = {f, x1, x2}
    Founder = f
    Business = {b1}
    Visit = {v1}
    Desk = {u1, u2}
    Nobody = Nobody
    PlanCode = {free, gold}
    FreePlan = free
    Resource = {r1}
    MaxUsed = 2
    Limit = {1}
    Maker = {u1, u2}
    Officer = {o1, o2}
    Null = Null
    Good = {x1, x2}
    Tab = {u1, u2}
    MaxWish = 3
    NoWish = NoWish
    Upi = {x1, x2}
    Cashier = {u1, u2}
    MaxWalkIn = 2
    HeldSale = {h1}
    Idle = Idle
    Gross = {0, 1, 99, 10003}
    Discount = {0, 7}
    Rate = {0, 25, 500, 1800}
    Explicit = {0, 3}
    MaxLine = 2
    NoTax = NoTax
    Seller = {u1, u2}
    MaxInvoice = 3
    LastYear = 1
    NoSale = NoSale
    Firm = {x1, x2}
    Slug = {res, dev, sl}
    Email = {e1, e2}
    Director = {u1, u2}
    PlatformSlug = res
    Development = dev
    AdminEmail = e1
    Perm = {pr, pw}
    OldPerm = {pr}
    ReadPerm = {pr}
    ExcludedPerm = {pw}
    MaxCalls = 2
    NoFirm = NoFirm
    Gone = Gone
    RazorpayKey = {x1, x2, k3}
    OtherKey = {k3}
    Payee = {y1}
    Keeper = {u1, u2}
    MaxMoves = 3
    NoKey = NoKey
SYMMETRY ShopSymmetry
CHECK_DEADLOCK FALSE
INVARIANTS
    ShopTypeOK
    KeptInTurn
    KeptAlways
PROPERTIES
    VerifiedStays
