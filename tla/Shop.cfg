CONSTANTS
    Kinds = {"delivery", "receipt", "invoice", "return"}
    Orders = {"o1"}
    Items = {"a", "b"}
    Ordered <- ShopOrdered
    Cards = {c1, c2}
    Handlers = {h1, h2}
    Names = {n1, n2}
    PageLimit = 2
    OpenLimit = 2
    MaxLines = 2
    None = None
    Invoices = {"i1", "i2"}
    Owed <- ShopOwed
    Oldest <- ShopOldest
    PayCards = {c1, c2}
    PayHandlers = {h1, h2}
    Entries = {n1, n2}
    DraftLimit = 2
    NoOne = None
    Modes = {"Cash", "Wire", "Card"}
    Meaning <- ShopMeaning
    Accounts = {"1111", "1121"}
    TypeOf <- ShopTypeOf
    Strangers = {}
    Anchor = "131"
    Nobody = None
    Trades = {"quotation", "sales_order", "purchase_order", "sale", "purchase"}
    Wares = {"x", "y"}
    StartPrice <- ShopStartPrice
    TopPrice = 2
    Lists = {1}
    TopQty = 1
    s1 = s1
    Slips = {s1, s2}
    SlipsOf <- ShopSlips
    Clerks = {h1, h2}
    Sheets = {n1, n2}
    Bills = {b1}
    LineLimit = 2
    MaxChanges <- ShopChanges
    Nil = None
    Shelf = 3
    Factors = {1, 2}
    Issues = {n1, n2}
    Forms = {c1, c2}
    Keepers = {h1, h2}
    PageOfDrafts = 2
    Nowhere = None
    FullNames <- ShopNames
    Numbers = {"phone"}
    Groups = {"retail"}
    Applicants = {c1, c2}
    Tellers = {h1, h2}
    MaxRecords = 2
    Blankly = None
SPECIFICATION ShopSpec
SYMMETRY Symmetry
INVARIANTS
    ShopTypeOK
    NothingDrawnTwice
    WrittenAsConfirmed
    NoDebtPromisedTwice
    MoneyInSaidChannel
    PricedAsShown
    NothingDraftedTwice
    ShelfNotOverdrawn
    OneRecordPerCustomer
PROPERTIES
    AdvanceAfterDebts
    WrittenAtLivePrice
CHECK_DEADLOCK FALSE
