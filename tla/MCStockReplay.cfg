SPECIFICATION Spec
CONSTANTS
    first = first
    second = second
    third = third
    snapshot = snapshot
    daily = daily
    dailyKey = dailyKey
    liveKey = liveKey
    bars = bars
    quotes = quotes
    tushare = tushare
    akshare = akshare
    None = None
    Runs = {first, second, third}
    Keys = {dailyKey}
    Series = {bars}
    Providers = {tushare}
    Canonical = tushare
    KeyOf <- KeyOfRuns
    SeriesOf <- SeriesOfRuns
    DailyOf <- DailyOfRuns
    CrossValidated = {}
    Fallback = TRUE
    MaxFaults = 0
INVARIANT
    ReplayServesAdopted
CHECK_DEADLOCK FALSE
