CONSTANTS
    k1 = k1
    k2 = k2
    k3 = k3
    s1 = s1
    m1 = m1
    t1 = t1
    t2 = t2
    Rows = {k1, k2, k3, s1, m1}
    AskedFor = {"payment_write", "sales_write", "purchase_invoice_write", "purchase_order_write", "delivery_write", "purchase_receipt_write", "sales_invoice_write", "payment", "sales", "balance", "supplier", "inventory", "sales_summary", "customer_create_write"}
    NameOf <- FrontNameOf
    BookOf <- FrontBookOf
    Sayings <- FrontSayings
    AmountsIn <- FrontAmounts
    Talks = {t1, t2}
    Passes = {"p1"}
    PassHours = 0
    LastHour = 1
    Askers = {"h1"}
    Nemo = Nemo
    Firms = {"A", "B"}
    Callers = {"c1", "c2"}
    Docs = {"sA", "sB", "rN"}
    FirmOf <- FrontFirmOf
    KindOf <- FrontKindOf
    PageSize = 1
    ScreenCap = 1
    LimitOf <- FrontLimit
    SpanOf <- FrontSpan
    LastTick = 3
    Nil = Nil
    Turns = {"r1", "r2", "r3"}
    Chats = {"ca", "cb"}
    DshCap = 2
    MemoryCap = 1
    KeptTurns = 2
    NoTurn = "none"
    Calls = {"q1", "q2"}
    Closers = {"w1", "w2"}
    Parties = {"p1"}
    MaxItems = 1
    LastAsk = 4
    LastKey = 3
    Sides = {"asking", "books", "meter", "dsh", "client", "phone"}
SPECIFICATION FrontSpec
SYMMETRY Symmetry
INVARIANTS
    FrontTypeOK
    CardPartyIsMeant
    CardFromOwnHandoff
    NeverTwiceTheLimit
    OwnBooksWhole
    OneChildPerChat
    OwnAnswerOrFailure
    SentAsShown
PROPERTIES
    NoTurnLost
CHECK_DEADLOCK FALSE
