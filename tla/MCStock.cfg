SPECIFICATION FairSpec
CONSTANTS
    first = first
    second = second
    third = third
    snapshot = snapshot
    daily = daily
    dailyKey = dailyKey
    liveKey = liveKey
    bars = bars
    quotes = quotes
    tushare = tushare
    akshare = akshare
    None = None
    Runs = {first, snapshot, daily}
    Keys = {dailyKey, liveKey}
    Series = {bars, quotes}
    Providers = {tushare, akshare}
    Canonical = tushare
    KeyOf <- KeyOfRuns
    SeriesOf <- SeriesOfRuns
    DailyOf <- DailyOfRuns
    CrossValidated = {first}
    Fallback = TRUE
    MaxFaults = 1
INVARIANTS
    AdoptedRecordsResolve
    SuccessIsDurable
    SkippedOnlyAfterStoring
PROPERTIES
    NewestFetchWins
    RunsEnd
CHECK_DEADLOCK FALSE
