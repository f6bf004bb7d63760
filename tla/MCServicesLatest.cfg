SPECIFICATION AllSpec
CONSTANTS
    None = None
    Foci = {"statistics"}
    \* the discovery cache
    Callers = {"c1", "c2"}
    CacheTTL = 3  NegativeTTL = 2  MaxTime = 6
    \* the price of oil
    Tasks = {"t1", "t2"}
    Offers = {0, 40, 50, 60}  MinPrice = 1  MaxPrice = 100
    MinRecords = 2  RecentDays = 2  SeasonalAge = 3  SeasonalDays = 0  DaysPerYear = 4
    Recorded <- MCRecorded
    FirstDay = 4  LastDay = 5
    \* down-sampling
    Minute = 2  Hour = 4
    Old <- MCOld  Aging = 0  Day = 6
    Nights = 2
    Buckets <- Buckets421
    StoredReadings <- MCStoredReadings
    ReadingTimes = {4, 9}  ReadingValues = {15}
    MaxId = 10  MaxRequests = 1
    \* recognition
    Count <- MCCount
    SameAsSerial <- MCSameAsSerial
    Answers <- MCAnswers
    SerialAnswers <- MCSerialAnswers
    MinDigits = 3  MaxDigits = 12  EqualFrom = 6
    Decimals <- MCDecimals
    MetersByNumber <- MCMeters
    Asked <- MCAsked
    OneEditFrom = 2  TwoEditsFrom = 4
    \* the standalone OCR service
    Calls = {"o1", "o2"}
    Images <- MCImages
    MaxSide = 60  MaxPixels = 540  MaxUpscaled = 100
    Results <- MCResults
    SerialResults <- MCSerialResults
    \* the limit on bodies
    Limit = 3
    Chunks = {0, 1, 2}
    Garbage = Garbage
    Declarations = {2, 3, 4, None, Garbage}
    \* review and capture
    Photos = {p1, p2}
    ReviewMeters = {a, b}
    MaxCrops = 2  MaxCuts = 1  MaxHints = 2  MaxTyped = 1  MaxChosen = 3  MaxPending = 4
    \* month and year views
    CountedMeters = {1, 2}
    MonthStart <- MCMonthStart
    MonthsPerYear = 2  LongestMonth = 3  Months = 2
    EstimatedFrom = 4  Scale = 720720  Tolerance = 1
    CountTimes = {3, 8, 12, 16}  CountValues = {1, 3}
    PriceEntries <- MCPriceEntries
    StoredCounts <- MCStoredCounts
    FirstNow = 10  LastNow = 14
    MaxReadings = 5  MaxChanges = 2
SYMMETRY Symmetry
CHECK_DEADLOCK FALSE
INVARIANT LatestReadingShown
