CONSTANTS
    Thread = {t1, t2}
    Warehouses = {1}
    Districts = {1, 2}
    Customers = {1, 2}
    Items = {1}
    OlCnts = {2}
    Quantities = {2}
    LastNames = 2
    LoadedStock = 12
    NewOrders = 1
    RecentOrders = 2
    U16 = 4
    U32 = 8
    CacheLimit = 2
    MaxTx = 3
    MaxAborts = 1
    t1 = t1
    t2 = t2
SPECIFICATION Spec
SYMMETRY Symmetry
INVARIANTS
    OrdersConsistent
    MoneyConsistent
    StockConsistent
    LookupsSucceed
    WaiterIsWoken
