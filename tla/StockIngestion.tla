--------------------------- MODULE StockIngestion ---------------------------
(***************************************************************************)
(* Market-context requests of the stock data collector: the runs of        *)
(* IngestionRunner that several processes start against one SQLite file,   *)
(* and the replay MarketContextService makes of a request that was already *)
(* collected.                                                              *)
(*                                                                         *)
(* A run is one call of IngestionRunner.run with its own request_id.  Its  *)
(* idempotency key, and the series (instrument and date) it asks for, are  *)
(* given.  A provider's answer is one row of the series or none: a record  *)
(* is named by the run that fetched it and the provider it came from.      *)
(* A run that collects realtime snapshots starts a daily run of its own    *)
(* (DailyOf) to date them.                                                 *)
(*                                                                         *)
(* A step is what SQLite commits at once, which is not a session of the    *)
(* code.  The driver starts a transaction at the first plain statement     *)
(* that writes; a savepoint opened before that (begin_nested) commits when *)
(* it is released.  So a session writes its savepoints one by one up to    *)
(* the first plain statement, and the rest with session.commit.            *)
(***************************************************************************)
EXTENDS Naturals, FiniteSets

CONSTANTS
    Runs,           \* requests, one call of run each
    Keys,           \* idempotency keys
    Series,         \* an instrument's row of one date
    Providers,
    Canonical,      \* canonical_provider of every request
    KeyOf,          \* the key of a run
    SeriesOf,       \* the series a run asks for
    DailyOf,        \* the daily request a snapshot run makes, None for others
    CrossValidated, \* runs with cross_validate
    Fallback,       \* fallback_enabled and allow_fallback_when_canonical_missing
    MaxFaults,      \* bound: failed sessions and deaths
    None

ASSUME StockAssumption ==
    /\ IsFiniteSet(Runs) /\ IsFiniteSet(Providers)
    /\ Canonical \in Providers
    /\ KeyOf \in [Runs -> Keys]
    /\ SeriesOf \in [Runs -> Series]
    /\ DailyOf \in [Runs -> Runs \cup {None}]
    /\ \A r \in Runs : DailyOf[r] # None => DailyOf[DailyOf[r]] = None
    /\ CrossValidated \subseteq Runs
    /\ Fallback \in BOOLEAN
    /\ MaxFaults \in Nat
    /\ None \notin Runs /\ None \notin Runs \X Providers

VARIABLES
    pc,         \* where a run stands
    outcome,    \* status of a provider's fetch, per run
    fetched,    \* fetch_time of a record, counted within its business key; 0 before
    rows,       \* the records of a run that were normalized and are still wanted
    failing,    \* a run's errors hold one that is not EMPTY_RESULT
    reported,   \* the records a run's response carries
    answer,     \* status of a run's response
    served,     \* the rows a replay read back
    request,    \* ingestion_requests: the row of an idempotency key
    runRow,     \* status in ingestion_runs
    current,    \* the standard table: the row of a business key
    successor,  \* market_context_record_revisions.superseded_by_record_id
    blocked,    \* records whose validation_status is a blocking one
    links,      \* market_context_request_records
    offered,    \* history: records carried by a committed upsert
    faults

local == <<pc, outcome, fetched, rows, failing, reported, answer, served>>
store == <<request, runRow, current, successor, blocked, links, offered>>
vars == <<local, store, faults>>

Records == Runs \X Providers
BusinessKeys == Series \X Providers
\* effective_provider is part of the business key
KeyOfRecord(x) == <<SeriesOf[x[1]], x[2]>>

Steps == {"idle", "starting", "asking", "fetching", "confirming", "persisting",
          "linking", "finishing", "replaying", "done", "dead"}
\* "failed": failed or unavailable; "unsaved": rows came, their raw payload was not written
Fetches == {"none", "success", "empty", "failed", "unsaved"}
Statuses == {"running", "success", "partial_success", "failed"}
NoRow == [owner |-> None, status |-> "none"]
RequestRow == [owner : Runs, status : Statuses] \cup {NoRow}

\* Every column has its domain; a record is fetched before it goes anywhere.
StockTypeOK ==
    /\ pc \in [Runs -> Steps]
    /\ outcome \in [Runs -> [Providers -> Fetches]]
    /\ fetched \in [Records -> Nat]
    /\ rows \in [Runs -> SUBSET Providers]
    /\ failing \in [Runs -> BOOLEAN]
    /\ reported \in [Runs -> SUBSET Records]
    /\ answer \in [Runs -> Statuses \cup {"none"}]
    /\ served \in [Runs -> SUBSET Records]
    /\ request \in [Keys -> RequestRow]
    /\ runRow \in [Runs -> Statuses \cup {"none"}]
    /\ current \in [BusinessKeys -> Records \cup {None}]
    /\ successor \in [Records -> Records \cup {None}]
    /\ blocked \subseteq Records
    /\ links \subseteq Runs \X Records
    /\ offered \subseteq Records
    /\ faults \in 0..MaxFaults

NotAsked == [p \in Providers |-> "none"]

Goto(r, step) == pc' = [pc EXCEPT ![r] = step]

Failure == faults < MaxFaults /\ faults' = faults + 1

\* A session that raises loses what it has not committed yet, and the runner goes on
\* with an error.
Fault(r) ==
    /\ Failure
    /\ failing' = [failing EXCEPT ![r] = TRUE]

Parent(r) == {q \in Runs : DailyOf[q] = r}

-----------------------------------------------------------------------------
(* _start_persistence and _is_idempotent_success                           *)

\* insert_ingestion_request skips a row whose idempotency key exists: the row keeps
\* the request that brought the key first.  A daily request starts inside its parent.
Begin(r) ==
    /\ pc[r] = "idle"
    /\ \A q \in Parent(r) : pc[q] = "confirming"
    /\ \/ /\ Goto(r, "starting")
          /\ request' = IF request[KeyOf[r]] = NoRow
                        THEN [request EXCEPT ![KeyOf[r]] = [owner |-> r, status |-> "running"]]
                        ELSE request
          /\ UNCHANGED <<faults, failing>>
       \/ Goto(r, "asking") /\ Fault(r) /\ UNCHANGED request
    /\ UNCHANGED <<outcome, fetched, rows, reported, answer, served, runRow, current,
                   successor, blocked, links, offered>>

\* insert_ingestion_run, in a savepoint of its own: the request row stays without it.
StartRun(r) ==
    /\ pc[r] = "starting"
    /\ Goto(r, "asking")
    /\ \/ runRow' = [runRow EXCEPT ![r] = "running"] /\ UNCHANGED <<faults, failing>>
       \/ Fault(r) /\ UNCHANGED runRow
    /\ UNCHANGED <<outcome, fetched, rows, reported, answer, served, request, current,
                   successor, blocked, links, offered>>

\* Regression: a partial success counts as collected.
SkipCollected(r) ==
    /\ pc[r] = "asking"
    /\ request[KeyOf[r]].status \in {"success", "partial_success"}
    /\ Goto(r, IF Parent(r) = {} THEN "replaying" ELSE "done")
    /\ answer' = [answer EXCEPT ![r] = "success"]
    /\ UNCHANGED <<outcome, fetched, rows, failing, reported, served, store, faults>>

\* has_successful_idempotency_key, in a session of its own: the run ends at once,
\* and its ingestion_runs row stays as it is.
SkipDuplicate(r) ==
    /\ pc[r] = "asking"
    /\ request[KeyOf[r]].status = "success"
    /\ Goto(r, IF Parent(r) = {} THEN "replaying" ELSE "done")
    /\ answer' = [answer EXCEPT ![r] = "success"]
    /\ UNCHANGED <<outcome, fetched, rows, failing, reported, served, store, faults>>

GoOn(r) ==
    /\ pc[r] = "asking"
    /\ Goto(r, "fetching")
    /\ \/ request[KeyOf[r]].status # "success" /\ UNCHANGED <<faults, failing>>
       \/ Fault(r)
    /\ UNCHANGED <<outcome, fetched, rows, reported, answer, served, store>>

-----------------------------------------------------------------------------
(* The provider loop of _run                                               *)

\* _should_fetch_supplement, for request types that are not provider-specific
ShouldFetchSupplement(r) ==
    \/ r \in CrossValidated
    \/ outcome[r][Canonical] \notin {"success", "unsaved"} /\ Fallback

\* _provider_order: the canonical provider first, then the supplements it leaves due.
Due(r) ==
    IF outcome[r][Canonical] = "none" THEN {Canonical}
    ELSE {p \in Providers : outcome[r][p] = "none" /\ ShouldFetchSupplement(r)}

SameKey(x) == {y \in Records : KeyOfRecord(y) = KeyOfRecord(x)}

\* _fetch and _save_raw_for_result: an error raised is a failed result; a raw payload
\* that cannot be saved fails the result after it was noted that rows came.
Fetch(r, p) ==
    /\ pc[r] = "fetching"
    /\ p \in Due(r)
    /\ \E o \in Fetches \ {"none"} :
         /\ outcome' = [outcome EXCEPT ![r][p] = o]
         /\ failing' = [failing EXCEPT ![r] = @ \/ o \in {"failed", "unsaved"}]
         /\ fetched' = IF o # "success" THEN fetched
                       ELSE [fetched EXCEPT ![<<r, p>>] =
                                1 + Cardinality({y \in SameKey(<<r, p>>) : fetched[y] > 0})]
    /\ UNCHANGED <<pc, rows, reported, answer, served, store, faults>>

Successes(r) == {p \in Providers : outcome[r][p] = "success"}

\* _normalize_market_context: a row that does not fit the record's schema raises.
NormalizedRows(r) == SUBSET Successes(r)

\* _ctx_rows_snapshot: only a realtime row may come with a time of day and no date.
MayBeUndated(r) == DailyOf[r] # None

\* _normalize_results: a row that cannot be normalized is dropped with an error.
\* Snapshots without the vendor's date wait for _confirm_snapshot_dates.
Normalize(r) ==
    /\ pc[r] = "fetching"
    /\ Due(r) = {}
    /\ \E good \in NormalizedRows(r) :
         /\ rows' = [rows EXCEPT ![r] = good]
         /\ failing' = [failing EXCEPT ![r] = @ \/ good # Successes(r)]
         /\ \E undated \in BOOLEAN :
              /\ undated => good # {} /\ MayBeUndated(r)
              /\ Goto(r, IF undated THEN "confirming" ELSE "persisting")
    /\ UNCHANGED <<outcome, fetched, reported, answer, served, store, faults>>

-----------------------------------------------------------------------------
(* _confirm_snapshot_dates                                                 *)

\* _daily_bars_for_snapshot: what the daily request answered, or the stored rows of
\* its series when it answered none.
DailyBars(d) ==
    IF reported[d] # {} THEN reported[d]
    ELSE {current[<<SeriesOf[d], p>>] : p \in Providers} \ {None}

\* Regression: a snapshot waits for bars.
DailyAnsweredWithBars(r) == pc[DailyOf[r]] = "done" /\ DailyBars(DailyOf[r]) # {}

\* run is called and has returned, whatever it answers
DailyAnswered(r) == pc[DailyOf[r]] = "done"

\* _match_snapshot_to_last_session: without an unblocked bar nothing is dated, with one
\* a snapshot may agree with it or not.
Datable(r) == IF DailyBars(DailyOf[r]) \subseteq blocked THEN {{}} ELSE SUBSET rows[r]

\* What stays undated is dropped with an error.
Confirm(r) ==
    /\ pc[r] = "confirming"
    /\ DailyAnswered(r)
    /\ Goto(r, "persisting")
    /\ \E kept \in Datable(r) :
         /\ rows' = [rows EXCEPT ![r] = kept]
         /\ failing' = [failing EXCEPT ![r] = @ \/ kept # rows[r]]
    /\ UNCHANGED <<outcome, fetched, reported, answer, served, store, faults>>

-----------------------------------------------------------------------------
(* _merge_records and _persist                                             *)

\* apply_canonical_merge_policy: the canonical provider's row, else one supplement's.
Merged(r) ==
    IF Canonical \in rows[r] THEN {<<r, Canonical>>}
    ELSE {x \in {<<r, p>> : p \in rows[r]} : Fallback}

\* Only rows that were compared can disagree, and only a conflict is a blocking status.
MayConflict(r) == \E p, q \in rows[r] : p # q

\* Regression: the last writer wins.
IsNewerAlways(x, old) == x # old

IsNewer(x, old) == fetched[x] > fetched[old]

\* The record the store holds for x's key once x has been offered.
Retained(x) ==
    LET old == current[KeyOfRecord(x)]
    IN  IF old = None \/ IsNewer(x, old) THEN x ELSE old

\* Regression: the replaced row is not archived with its successor.
UpsertUnarchived(x) ==
    /\ current' = [current EXCEPT ![KeyOfRecord(x)] = Retained(x)]
    /\ UNCHANGED successor

\* upsert_market_context_record: a newer row replaces the current one, which is archived
\* with its successor; any other leaves the table as it is.
Upsert(x) ==
    LET k == KeyOfRecord(x)
        old == current[k]
    IN  /\ current' = [current EXCEPT ![k] = Retained(x)]
        /\ successor' = IF old = None \/ ~IsNewer(x, old) THEN successor
                        ELSE [successor EXCEPT ![old] = x]

\* _persist up to its first plain statement: the upsert is committed by itself.  The
\* run reports the record that was retained, unless the session fails.
Store(r) ==
    /\ pc[r] = "persisting"
    /\ \E x \in Merged(r), bad \in BOOLEAN :
         /\ bad => MayConflict(r)
         /\ blocked' = IF bad THEN blocked \cup {x} ELSE blocked
         /\ rows' = [rows EXCEPT ![r] = {x[2]}]
         /\ \/ /\ Goto(r, "linking")
               /\ Upsert(x)
               /\ offered' = offered \cup {x}
               /\ reported' = [reported EXCEPT ![r] = {Retained(x)}]
               /\ UNCHANGED <<failing, faults>>
            \/ /\ Goto(r, "finishing")
               /\ Fault(r)
               /\ reported' = [reported EXCEPT ![r] = {x}]
               /\ UNCHANGED <<current, successor, offered>>
    /\ UNCHANGED <<outcome, fetched, answer, served, request, runRow, links>>

\* link_request_record and the commit: the request is linked to the record that was
\* retained.  If the session fails here, the record stays in the store without a link,
\* and the run reports its own.
Link(r) ==
    /\ pc[r] = "linking"
    /\ Goto(r, "finishing")
    /\ \/ /\ links' = links \cup ({r} \X reported[r])
          /\ UNCHANGED <<reported, failing, faults>>
       \/ /\ Fault(r)
          /\ reported' = [reported EXCEPT ![r] = {r} \X rows[r]]
          /\ UNCHANGED links
    /\ UNCHANGED <<outcome, fetched, rows, answer, served, request, runRow, current,
                   successor, blocked, offered>>

PersistNothing(r) ==
    /\ pc[r] = "persisting"
    /\ Merged(r) = {}
    /\ Goto(r, "finishing")
    /\ UNCHANGED <<outcome, fetched, rows, failing, reported, answer, served, store, faults>>

-----------------------------------------------------------------------------
(* _response_status and _finish_persistence                                *)

\* Regression: a run that has records to report is a success.
ResponseOfRecords(r) == IF reported[r] = {} THEN "failed" ELSE "success"

ResponseStatus(r) ==
    IF reported[r] = {}
    THEN IF failing[r] \/ \A p \in Providers : outcome[r][p] \in {"none", "empty"}
         THEN "failed" ELSE "partial_success"
    ELSE IF failing[r] THEN "partial_success" ELSE "success"

\* The update finds the row by request id or by key: whoever brought it, it gets the
\* status of the run that finishes.  A session that fails is only noted.  What the run
\* kept to itself ends with it.
Finish(r) ==
    /\ pc[r] = "finishing"
    /\ Goto(r, "done")
    /\ answer' = [answer EXCEPT ![r] = ResponseStatus(r)]
    /\ outcome' = [outcome EXCEPT ![r] = NotAsked]
    /\ rows' = [rows EXCEPT ![r] = {}]
    /\ failing' = [failing EXCEPT ![r] = FALSE]
    /\ \/ /\ request' = IF request[KeyOf[r]] = NoRow THEN request
                        ELSE [request EXCEPT ![KeyOf[r]].status = ResponseStatus(r)]
          /\ runRow' = IF runRow[r] = "none" THEN runRow
                       ELSE [runRow EXCEPT ![r] = ResponseStatus(r)]
          /\ UNCHANGED faults
       \/ Failure /\ UNCHANGED <<request, runRow>>
    /\ UNCHANGED <<fetched, reported, served, current, successor, blocked, links, offered>>

-----------------------------------------------------------------------------
(* MarketContextService._records_from_database                             *)

\* _follow_replacement_chain: the row a record's chain of successors leads to, if the
\* table has it.
Stored(R) == {x \in Records : x \in R /\ current[KeyOfRecord(x)] = x}
Latest[x \in Records] == IF successor[x] = None THEN x ELSE Latest[successor[x]]

\* resolve_request_records: the linked records; for a request without links the records
\* it collected itself.
Adopted(q) ==
    LET linked == {x \in Records : <<q, x>> \in links}
    IN  IF linked # {} THEN linked
        ELSE {x \in Records : x[1] = q}

\* An idempotent hit is answered with the records of the request whose row has the key.
Replay(r) ==
    /\ pc[r] = "replaying"
    /\ Goto(r, "done")
    /\ served' = [served EXCEPT ![r] =
          IF request[KeyOf[r]].status # "success" THEN {}
          ELSE Stored({Latest[x] : x \in Adopted(request[KeyOf[r]].owner)})]
    /\ UNCHANGED <<outcome, fetched, rows, failing, reported, answer, store, faults>>

-----------------------------------------------------------------------------

Running(r) == pc[r] \notin {"idle", "done", "dead"}

\* A crash: the runs of one process end together.
Die(r) ==
    /\ Running(r)
    /\ Failure
    /\ pc' = [q \in Runs |->
                IF Running(q) /\ (q = r \/ q \in Parent(r) \/ DailyOf[r] = q)
                THEN "dead" ELSE pc[q]]
    /\ UNCHANGED <<outcome, fetched, rows, failing, reported, answer, served, store>>

Init ==
    /\ pc = [r \in Runs |-> "idle"]
    /\ outcome = [r \in Runs |-> NotAsked]
    /\ fetched = [x \in Records |-> 0]
    /\ rows = [r \in Runs |-> {}]
    /\ failing = [r \in Runs |-> FALSE]
    /\ reported = [r \in Runs |-> {}]
    /\ answer = [r \in Runs |-> "none"]
    /\ served = [r \in Runs |-> {}]
    /\ request = [k \in Keys |-> NoRow]
    /\ runRow = [r \in Runs |-> "none"]
    /\ current = [k \in BusinessKeys |-> None]
    /\ successor = [x \in Records |-> None]
    /\ blocked = {}
    /\ links = {}
    /\ offered = {}
    /\ faults = 0

Work(r) ==
    \/ StartRun(r)
    \/ SkipDuplicate(r) \/ GoOn(r)
    \/ \E p \in Providers : Fetch(r, p)
    \/ Normalize(r)
    \/ Confirm(r)
    \/ Store(r) \/ Link(r) \/ PersistNothing(r)
    \/ Finish(r)
    \/ Replay(r)

Next == \E r \in Runs : Begin(r) \/ Work(r) \/ Die(r)

Spec == Init /\ [][Next]_vars

\* A run goes on in its own process; a daily request is a plain call of its parent.
\* Whether a caller ever makes a request is not assumed.
FairSpec ==
    /\ Spec
    /\ \A r \in Runs : WF_vars(Work(r))
    /\ \A r \in Runs : WF_vars(Parent(r) # {} /\ Begin(r))

-----------------------------------------------------------------------------
(* Properties                                                              *)

\* The standard table with its history of offers is a store in which the newest fetch
\* wins, although runs offer in another order than they fetched in and although sessions
\* fail before or after the upsert is committed (upsert_market_context_record).
Table == INSTANCE NewestWins WITH
    NoRecord <- None, newest <- current, fetchTime <- fetched

NewestFetchWins == Table!Spec

\* Whatever a request was linked to leads along the archive to the row its business key
\* has now: neither a rejected record nor a replaced one is a dead end
\* (link_request_record, _follow_replacement_chain).
AdoptedRecordsResolve ==
    \A l \in links : Latest[l[2]] = current[KeyOfRecord(l[2])]

\* A run recorded as successful is linked to a record of its own series in the
\* store: no other status may follow a session that failed on either side of the upsert.
SuccessIsDurable ==
    \A r \in Runs : runRow[r] = "success" =>
        \E x \in offered : <<r, x>> \in links /\ SeriesOf[x[1]] = SeriesOf[r]

\* A key whose row says success had a request that stored its records: an idempotent
\* skip never rests on a run that failed, that only reported what was not stored, or
\* that stored a record and failed to link it.
SkippedOnlyAfterStoring ==
    \A r \in Runs : answer[r] = "success" =>
        \E q \in Runs : KeyOf[q] = KeyOf[r] /\ \E x \in offered : <<q, x>> \in links

\* Every run that started ends, the one that waits for its daily request too (a run
\* starts once, so all have ended in the end).
RunsEnd == <>[](\A r \in Runs : ~Running(r))

\* "Records of the run that originally succeeded under this idempotency key"
\* (_records_from_database): a replay serves what some run of the key adopted.
ReplayServesAdopted ==
    \A r \in Runs :
        pc[r] = "done" /\ answer[r] = "success" /\ reported[r] = {} /\ Parent(r) = {}
            => served[r] # {}

=============================================================================
