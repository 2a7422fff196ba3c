CONSTANTS
    Items = {i1, i2}
    Calls = {c1, c2}
    MaxRevs = 2
    MaxTaken = 3
    MaxFaults = 1
    Readers = {c1, c2}
    MaxPublished = 2
    MaxReads = 3
    MaxRedisFaults = 1
    Colls = {i1, i2}
    Names = {n1, n2}
    CollCalls = {c1, c2}
    MaxCollTaken = 3
    Partners = {i1, i2}
    BrandNames = {n1, n2}
    Types = {n1, n2}
    PartnerCalls = {c1, c2}
    MaxPartnerCalls = 3
    Shown = {1, 2, 3}
    TypeOf <- ShownTypes
    BatchSize = 2
    Jobs = {c1, c2}
    MaxShopWrites = 1
    MaxEsFaults = 1
    Wares = {1, 2, 3, 4}
    Catalogs <- WareCatalogs
    PersonalCatalog <- WaresToLike
    Shoppers = {ann, bob}
    me = ann
    Limits = {1, 2}
    MaxTaste = 1
    MaxShopEvents = 1
    BufferSize = 2
    MaxTracked = 3
    Flushes = {c1, c2}
    MaxFlushFaults = 1
    Documents = {1, 2, 3, 4}
    Fields = {"tags", "price"}
    DocumentOf <- FourDocuments
    SearchLimits = {1, 2}
    Wanted <- ThreeFilters
    MaxIndexChanges = 1
SPECIFICATION Spec
INVARIANTS
    TypeOK
    IndexAgrees
    CachesFreshAlone
    TidyAlone
    AnswersAreSound
    NothingLost
PROPERTIES
    CopiesFollow
SYMMETRY Interchangeable
CHECK_DEADLOCK FALSE
