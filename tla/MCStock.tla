------------------------------- MODULE MCStock -------------------------------
(* Two requests for the same daily series and one for a realtime snapshot,   *)
(* whose daily request has the key of the other two.                         *)
EXTENDS StockIngestion, TLC

CONSTANTS first, second, third, snapshot, daily, dailyKey, liveKey, bars, quotes, tushare, akshare

KeyOfRuns == [r \in Runs |-> IF r = snapshot THEN liveKey ELSE dailyKey]
SeriesOfRuns == [r \in Runs |-> IF r = snapshot THEN quotes ELSE bars]
DailyOfRuns == [r \in Runs |-> IF r = snapshot THEN daily ELSE None]
=============================================================================
