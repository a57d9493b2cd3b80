# Verification of the intelligence collector

TLA+ models of `agents_groups`: an agent that turns investment *demands* into
collection work and two tools it drives, a market intelligence collector (MIC) and a
stock data collector.  The models are translated from the Python source; each
definition of a module is mapped to its lines in `PROJECT.json`.  Paths below are
relative to `src/agents/intelligence_collector_agent/src/agent_trade_intel/` unless
they begin with `mic/` (`src/tools/market_intelligence_collector/mic/`) or `stock/`
(`src/tools/stock_data_collector/stock_data_ingestion/`).

## 1. The system

Processes share SQLite files: a *state*, a *bus* and a *data* store, in autocommit
mode (`db.py:27`), every write either one statement or a `BEGIN IMMEDIATE`
transaction.  An operator's commands keep a demand; a controller's tick compiles it into
a request ticket; an agent worker plans the request into task tickets; a worker executes
a task by calling a tool and settles the ticket; a receipt of the outcome is published to
consumers.  Tickets are the business record, messages the deliveries: a message is leased,
then acknowledged, returned, or killed after `max_attempts`.  Each tool is a process with
an SQLite file of its own: MIC searches, reads and has models extract; the stock collector
asks providers and merges their rows.

| Component | State | Operations | Hard behaviour |
|---|---|---|---|
| delivery bus (`queue.py`, `tickets.py`, `work_guard.py`, `collection_results.py`) | messages with lease, attempts, generation; tickets; receipts | publish, lease, ack, nack, extend, requeue, expire, dead letter, retry; create, update, receipt | late workers under a shared worker id, retries that reset attempts, two tables that must agree |
| agent worker (`agent.py`, `persistence.py`) | active lease, collection_tasks, collection_runs | run_once: plan, execute, settle, notify | crash between two transactions, redelivery, a cancelled ticket under a running tool |
| recovery (`recovery.py`) | none | requeue, retire, fault, republish, notify | acts on what it read a moment ago |
| demand registry, request center (`demand.py`, `request_center.py`) | demands, target_profiles.yaml | request, batch, remove, register, suspend, resume, cancel | read, then write, in autocommit mode; a file and a row that must agree |
| runtime controller (`runtime.py`) | demand messages | tick: expire, requeue, cancel, compile, capability check; by hand: compile a demand, retry its work | stale list, cancel against plan, unfenced ack |
| circuit breaker (`circuit_breaker.py`) | one row per tool | allow, record_success, record_failure | read and write without a transaction |
| collection attempts (`attempts.py`) | one row per supervised child process | start, heartbeat, finish, blocking check | stale parent and live worker, compare-and-set against revocation |
| task projection (`task_lifecycle.py`) | collection_tasks.status | sync | two synchronizers with snapshots of different age |
| MIC supervisor (`mic/browser/runner.py`, `worker.py`, `profile_lock.py`) | child process, result file, profile lock | run, terminate, verify, reap | result against kill, process that survives, parent that dies |
| MIC pipeline (`mic/pipeline.py`, `reader.py`, `publication_time.py`, `modeling/call_planner.py`, `budget.py`, `store/repository.py`) | queue of links, counters, pending dates, records of the run | search, triage, read, extract, arbitrate, date, corroborate, publish, settle, finish | a stop during any wait, budgets shared by nested calls, evidence that arrives after what it is about |
| stock ingestion (`stock/services/ingestion_runner.py`, `market_context_service.py`, `storage/repositories.py`, `validation/merge_policy.py`) | request, run, current row, archive, links | run, fetch, merge, persist, replay | fetched in one order and committed in another, a session that commits in parts, repeated request, a run inside a run |
| stock rate limiter (`stock/adapters/tushare_rate_limit.py`) | counter files | pace, minute slot, day count | files shared by processes, boundary values |

What makes each correct: the bus must never let two processes settle one delivery,
never reopen a final ticket, bound the deliveries of a task and never lose one; the
worker must complete a plan in spite of crashes, not repeat a successful collection,
record nothing for a ticket that has ended, and always get its outcome to the
consumers; a demand that was stopped must come to rest and must not name a target MIC
does not know; the breaker must open at its threshold and end; an attempt must keep a second
worker off a profile in use; a MIC run must give records only to sources of the wanted
period, stay within its budgets, stop when told and account for what it asked; the stock
store must keep the newest fetch, keep what a request adopted reachable and report
success only for what is stored.

## 2. Modules

| Module | Models | Composes |
|---|---|---|
| `DeliveryBus` | the bus, one action per transaction; `BusSpec` allows every caller every call | implements `TicketPromise` |
| `CollectionWorkers` | workers, recovery, runtime controller, operator, time | extends `DeliveryBus` and conjoins its actions with their own state; implements `BusSpec` |
| `DemandRuntime` | commands on demands, their announcements and the controller's ticks | a request and its tasks are one bit here, `CollectionWorkers` has the rest |
| `CircuitBreaker` | the row of one tool and the processes that read and write it | |
| `BreakerRetry` | one delivery's attempts and delays against the cooldown | `nack` of the queue with the open circuit |
| `CollectionAttempts` | attempt rows, the agents inside `_execute_mic_task`, the supervisor and its child, the browser profile | a delivery is reduced to whether its agent still holds it |
| `IntelligenceRun` | one MIC run, `collect_intelligence` on the browser route | what goes on inside the child of `CollectionAttempts` |
| `TicketPromise` | what the bus promises to whoever files a ticket | abstract |
| `NewestWins` | what the market-context store promises | abstract |
| `StockIngestion` | runs of `IngestionRunner` on one SQLite file, and the replay of a request | implements `NewestWins` |
| `...Proofs` | theorems about `DeliveryBus`, `CollectionWorkers`, `CircuitBreaker`, `CollectionAttempts`, `IntelligenceRun`, `StockIngestion`, `DemandRuntime` (`...SafetyProofs`: what the workers guarantee with all the others) | each extends its module and `TLAPS` |
| `MC...` | instances for TLC | |

Definitions whose comment begins with *Regression* are not the code: each is a
definition changed as a plausible bug would change it, and PROJECT.json says which
property it breaks.

**`DeliveryBus`.**  `msgs`, `tickets`, `receipts` and `results` are the tables;
`held` is each process's `active_lease`; `retries` is history, the operator retries of
a ticket, which separates its *lives*.  A message's lease is `owner`, `live`
(`lease_until > now`), `attempts` and `generation`; time is `LeaseLapses`, after which
only a new lease makes `live` true.  `OwnsLease` is `owns_lease`, `RequireWork` is
`require_work`.  A receipt is the latest `collection_result_ready` event; it is
`standing` while no later `status_changed` event of its ticket exists, which is what the query of
`publish_ready_results` asks with row ids.  Transactions that treat many
rows treat them at once here too (`RequeueExpiredLeases`, `CancelOpenWork`,
`AckCompleted`).  Idempotency keys are the identity of a message: `Publish` inserts a
message that is absent and is a no-op otherwise.

**`TicketPromise`** knows a ticket as pending or ended, with a number of lives, the answer of the present one, and
what was told.  The refinement maps its outcome to the ticket's status (open and in progress are both pending),
its life to `retries`, its answer to the standing receipt and its notices to `results`, so leases, attempts and deliveries disappear;
it is checked as the property `TicketPromiseKept`.

**`CollectionWorkers`.**  `pc` follows `run_once`; every value of it is a point between
two transactions, so every interleaving that SQLite admits is a behaviour and `Crash`
may happen at each.  Planning (`CreateChild`, `SaveChildRow`, `SendChild`, per task)
and execution (`LookUpRun`, `CallTool`, `ToolReturns`, `PersistRun`, then
`ScheduleRetry` or `CompleteTask` and `DeliverResult`) keep the code's order.
`Revoked` is `WorkRevoked` from a fenced write, `StepFails` the exception handler.  A
run is saved under the delivery's generation, the `_execution_key`.  Recovery reads the
orphans (`ScanOrphans`) and publishes each later (`RepublishOrphan`).  `PublishByHand` is
`queue publish --ticket-id`: it has no idempotency key, so it gives a ticket another message.  What a tool
answers is a choice of `Outcomes`: run status and what `_tool_message_action` makes of it.

**`CircuitBreaker`.**  A process reads the row into `seen` and writes what it computed
from it in another step, as `record_failure`, `record_success` and `_set` do.
**`BreakerRetry`** counts one delivery's delay and the cooldown in the same ticks.

**`CollectionAttempts`.**  `row` is the table `collection_attempt`: state, whether a heartbeat
is so old that `_is_stale` holds (`late`), whether a worker pid is recorded (`pid`).
`job[a].pc` follows `_execute_mic_task` and `RunSupervisor.run`, one value per point
between two statements on shared state: the blocking check, the insert and its second try over a stale row
(which is examined in one step and closed in another, as the code does), the first
heartbeat, the launch, the poll loop, the verification, the reads before `finish`, the
compare-and-set, the fallback, the saving.  `revoked` joins `_lease_lost` and the
cancel event: the code sets the first from the second before anything depends on the
difference.  A child is `up`, then one of the results its file and exit code amount to;
its browser may outlive it.  `Signalled` is TERM and KILL, which any process of the tree may
survive; `VerifyCleanup` calls a cleanup complete only if nothing is left, and may be
unable to tell.  `saved` is the status of the run written for an attempt, `reported` is
history: the attempts whose agent came to record a failed cleanup.  An agent that dies
leaves row and child behind (`AgentDies`).  What becomes of a delivery that ends is left
to the bus modules: a task that is not `settled` may be delivered again.

**`IntelligenceRun`.**  The run is one thread, so a step is the code between two points at which
something outside can happen: a page or a model is awaited, a record is committed, `check_alive`
is asked.  `at` is the step that comes next and `stopAt` says whether, and where, a cancel or the
deadline has come (`Stop`); `Alive` is `check_alive`, and the steps of `Checked` are
the ones that begin with it (`Unwind` leaves from there).  `used` and `Limit` are
`RunBudget`, `calls`, `triages`, `linkCalls` and `recovered` are `CallBudget` and the one recovery, `audited` counts the
entries of `stats.model_requests`.  `Query`, `BatchTriage` ... `BuildReadQueue` are `_execute` up to its loop;
`Pick`, `Load`, `Transcribe`, `AuthenticatedRetry` are the reader's transports for the link in hand (`cur`,
`plan`, `page`, `shown`); `ReadFailed`, `FilterByWindow`, `ReuseBody`, `Analyse` what the loop makes of the page;
`AskModel` to `PersistArbitration` the model calls; `DeferPublication` to `Settle` the handling of dates;
`Close`, `FinalStatusCheck`, `FinishSearchRun` the ways out.  `date[l]` is the stored
`publication_time` (`awaiting`: the link waits for evidence), `gap` and `support` are the dictionary of
pending sources and the rows collected for them, `admitted` are the links with a merged analysis.
What a page shows, which links a ranking prefers and what a model answers are choices.
After its end a run forgets its locals (`ForgetAll`), which the model does too.

**`StockIngestion`.**  `pc` follows `IngestionRunner.run`, one value per point between two commits.
A session is not a transaction here: pysqlite opens none for a SAVEPOINT, and the engine keeps that
(`stock/storage/database.py:18`), so an outermost `begin_nested` commits when it is released.  Hence the rows of request and
run are two steps (`Begin`, `StartRun`), and so are the upsert and the link of a record (`Store`, `Link`).  At any of them the
session may fail (`Fault`): what is committed stays, and the runner goes on with an error.  A record is named by the run that fetched it and its provider; `fetched` orders the fetches of one
business key.  `current` is the standard table, `successor` the archive with its chain,
`links` the association of requests with adopted records, `request` the row of an idempotency key, `runRow` the
status in `ingestion_runs`.  `Store` is `_persist` up to `upsert_market_context_record` and `Link` the rest of it.
A realtime run starts a daily run of its own (`DailyOf`), which begins only while its parent is at
`_confirm_snapshot_dates`.  `Replay` follows the links of the request that a key's row names.  `offered` is
history: the records that were upserted; it is the variable `NewestWins` is about.

**`NewestWins`** holds, of all records offered for a business key in whatever order, the one
fetched last.  The refinement maps its store to the standard table and its time to `fetched`, and
is checked as the property `NewestFetchWins`.

**`DemandRuntime`.**  `demand` is the table of demands with their version, `job[o]` a command of an
operator between two statements: `LoadProfiles` and `SaveProfiles` under the lock of the file, then per demand
`MergeTarget` (SELECT), `ReadVersion` (SELECT) and `WriteDemand` (UPDATE); `ReadLifecycle`, `ChangeDemand` and
`Announce` for suspend, resume and cancel.  `news` are the `demand.changed` messages, whose key is demand and
version, so that `Announce` is a no-op for one that exists.  `tick[c]` follows `tick`: `StartTick`, then
`LeaseNews`, `CancelOpenWork`, `AckNews` (or `HandlerFails`) until nothing is open, `ListActive`, `CompileDemand` one by one.
The acknowledgement names the message and not the lease, as in the code.  `busy` are the demands with a live ticket,
`failed` those with a failed one.  An operator's `demand compile`, of one demand in any status or of a list of its own
(`ReadToCompile`, `CompileByHand`), and `queue retry` of a failed ticket (`RetryWork`) make a demand busy too; `forced` is history, the
demands for which that happened behind a stop, until `CancelOpenWork` runs for them again.  `RegisterFile` asks for no profile, as in the code; `unknown` is
history, the targets a file has named without one.
`since` is history: the version of the last lifecycle action, so that a property can name its announcement.

## 3. Runs

| Run | Question | Bounds |
|---|---|---|
| `MCSettling` | Is a success recorded once, the task completed and told once per life, nothing recorded after its end, whatever intervenes? | 2 processes with one worker id, 1 MIC task with its message and one published by hand, 3 outcomes, 1 attempt per message, 1 retry, cancel, expiry |
| `MCPlanning` | Is the plan complete, is nothing stranded, does a cancelled request stay quiet, are deliveries bounded and lost ones lost? | 2 processes, 1 request with 1 task, 2 attempts |
| `MCProgress` | Does everything end, and do the workers implement the bus? | 1 process, 1 request with 1 task, 2 attempts |
| `MCCapabilityCheck` | One delivery per ticket? *Violated.* | 2 processes, the check's two keys |
| `MCDemands` | Does a stop take hold, is it carried out, does MIC know every target but those a file named without a profile? | 1 demand, 2 targets, 2 files, 2 operators, 3 commands, 4 versions, 1 controller, 2 attempts, 1 crash |
| `MCCircuitBreaker` | Does the breaker work without transactions? | 2 processes, threshold 2, cooldown 2 |
| `MCBreakerRetry` | Is a refused task retried after the cooldown? *Violated* as shipped. | 3 attempts, delay 1, cooldown 10 (minutes) |
| `MCAttemptsEnd` | Does only a completed attempt count, does a surviving worker stay on record, does an abandoned attempt end, is a revoked child stopped? | 2 agents and an operator, 1 task, 1 attempt, 1 crash |
| `MCAttemptsLeftover` | Does everything left of a failed cleanup block the profile? *Violated.* | 1 agent, 2 tasks, 2 attempts |
| `MCCollectionRun` | Are records those of the wanted period, are budgets kept, does a stop hold, is every call on record, does the run end? | 3 links (one a mirror of another, one a directory that shows the other), 4 calls, 2 reads, 2 hits, limits that can each run out |
| `MCStock` | Does the newest fetch win, does what was adopted stay reachable, does success mean stored, do runs end? | a daily request, a realtime one and the daily one inside it, under the first one's key; 2 providers, 1 fault |
| `MCStockReplay` | Is a repeated request answered with what was collected? *Violated.* | 3 requests of one key, 1 provider, no fault |

*Why the bounds are enough.*  The hazards of the bus are between an old and a new holder of one
delivery, between a worker and one of runtime, recovery or operator, and at the
last attempt: two processes and one operator retry produce each of them,
including a late worker whose attempt number equals the new one's.  `MCSettling` allows one attempt per message: the retry delivers
a message again and starts the ticket's second life, while the other message may be under way in the first;
requeues between attempts are in `MCPlanning` and `MCProgress`, which allow two.
Symmetry (`Permutations` of the two processes) is used only in runs without
liveness.  `MaxAttempts`, `MaxRetries`, `MaxReopens`, `MaxCommands`, `MaxVersion`, `MaxFaults`
and `MaxCrashes` are the only counters and each is a bound in a guard or the code's own limit;
the sets `Attempts` and `Runs` bound the collections started.  The hazards of an attempt are between its
agent, a second agent that is given the same task, and the child;
the leftover of one task meets the next one with two tasks and one agent.  A collection run needs a
document that waits for its date, a mirror that can be read for it, and a directory whose child
is already known: three links, with two reads of the three, so that a link is left unread, and with
four calls, so that triage, extraction, navigation and corroboration compete for them.
A stock run competes with one of the same key and with one that waits for it.  Of demands and targets, one suffices
for stops; a resumed demand that is stopped again needs three commands.  Two targets and two operators make two
copies of the profiles file that disagree; one of the two demand files names a target that may have no profile.  For the bus, the attempts, the collection run, the stock store, the breaker and the demands,
theorems remove the bounds (§5).

*Fairness.*  `MCProgress`: a worker goes on with a step that stays enabled and some process
keeps polling: `run_until_idle` and its scheduler.  Leases lapse because the clock runs;
`requeue_expired_leases` is called by every poll and every tick.  `ScanOrphans`,
`RepublishOrphan` and `PublishAllReady` are `runtime recover` (or `agent resume`), which
an operator or scheduler runs; without it a ticket whose message was never published
stays open, so this assumption is needed for `TicketsSettle` and is the documented
recovery procedure (docs/ARCHITECTURE.md §6).  No fairness is
assumed of crashes, failures, the operator or cancelling, nor that a tool ever succeeds.
`MCCircuitBreaker` assumes the clock, that started calls end and that tasks keep asking.
`MCAttemptsEnd` assumes that an agent which is alive goes on and its heartbeat thread runs,
that the clock passes over an abandoned attempt, and (strongly, for an agent is not always idle) that a task that is not settled is
delivered again.  The last goes beyond `max_attempts`: a task that died of its attempts keeps its
active row until another delivery of the same task key.  Nothing is assumed of the child: it may ignore every
signal, so `RevocationStopsChild` promises its end or the report that it would not end, and
no deadline is waited for.
`MCDemands` assumes that ticks are run again and again (`runtime tick` is a command made to be repeated)
and that time passes over leases and delays; nothing of the operators, so an action whose process
dies before `Announce` announces nothing and the property leaves it out.
`MCCollectionRun` assumes the run's own thread: every page load, model request and wait in it has a timeout.
`MCStock` assumes that a started run goes on, its provider calls having deadlines, and that a parent calls its daily run.

*Deadlock* is checked in `MCCapabilityCheck` and `MCCircuitBreaker`.  The
other instances end: when all tickets are settled, the runs over or the commands used up.

## 4. What the runs show that the code does not say

* The capability check can be delivered twice (`MCCapabilityCheck`): `recovery.py:127`
  publishes under another key than `runtime.py:177`.
* As configured, a task refused by an open circuit is dead about two minutes later, the
  cooldown being ten (`MCBreakerRetry`).
* A browser that survives the kill of its worker is reported as `cleanup_incomplete`, and yet
  the next collection starts on its profile (`MCAttemptsLeftover`): the blocking check asks for the worker's pid alone.
* A market-context record may be in the standard table without a link to its request, where comments in three places
  (`stock/storage/models.py:469`, `repositories.py:310`, `ingestion_runner.py:826`) say that both are written in one transaction: the first upsert of a session commits when its savepoint is released
  (`stock/storage/repositories.py:271`), and what follows may fail.  Success, the chain of the archive and the newest fetch do not depend on it.
* A repeated stock request may be told that its records were collected and get none
  (`MCStockReplay`): the row of a key keeps the id of the first request, takes the status of whichever finishes
  last, and the replay looks for links under that id.
* `half_open` lets through every caller that asks before the probe has answered, where the class comment says
  one; and an answer to a call that was under
  way when the circuit opened closes it before its cooldown.  The threshold is kept all the same: a closed row
  never counts `failure_threshold` failures, and a stale write cannot make it (`ClosedBelowThreshold`).
* A worker that finds its earlier MIC run reuses it, so a task records one success even
  when every delivery lapses after `save_run` (`SuccessRecordedOnce`).  This takes one message per task.  With a second one,
  published by hand, the look-up of one delivery may precede the other's saving, and without the exception for such tasks
  (`SentByHand`) TLC finds two successes in `MCSettling`; the active attempt of `CollectionAttempts` defers only a start that overlaps.
  Completion once per life and silence after the end hold all the same.
* A worker that survives keeps blocking, also when its attempt had been revoked or closed as
  stale before the failure was known (`SurvivingWorkerBlocks`); only the fallback of `finish` sees to it.
* A run stopped between an arbiter's answer and its storing has paid for calls it keeps no entry of
  (`pipeline.py:990`); only a completed run accounts for every call (`CompletedRunIsAudited`).
* The stop of a demand holds against a tick's stale list because the same controller handles the announcement after it;
  with two ticks at once, the second could compile a stopped demand from its own list after the first has
  acknowledged the stop.  Two overlapping commands on one demand read the same version, and the second announcement is taken for the first.
  Nothing in the code rules out either; the premise `Orderly` of the theorem names both.
* `demand compile --demand-id` compiles a demand of any status and `queue retry` reopens a failed ticket of any demand, so an operator can put work
  behind a stop that was acknowledged; it stays until the demand is stopped again.  `HandledStopIsQuiet` and `StopIsCarriedOut` except
  exactly those demands (`forced`).
* `demand register` takes targets without a profile and warns (`cli.py:357`); `DemandTargetsHaveProfiles` says that no other target lacks one.

## 5. Proofs

`DeliveryBusProofs` proves for every number of processes, messages, tickets, attempts
and retries, and every assignment of worker ids: `BusTypes`, `MessageHasOneOwner`,
`LossIsFinal`, `DeliveriesAreBounded`, `FinalTicketsAreFinal`, `ResultsAreCurrent`,
`CompletedOncePerLife`.

The assumptions are `BusAssumption`: constants have their kinds, `MaxAttempts` is
positive, and the null values are not leases or ids.  Nothing is assumed of worker ids
being distinct.

*One owner.*  `OneOwner` is not inductive: after an operator retry, attempts and owner
may be what a late process remembers.  The strengthening says that a remembered
generation never exceeds its message's (`held[w].generation <= msgs[m].generation`), and
that processes which remember the same message remember different generations.  Leasing
increases the generation and nothing resets it, so the new holder's is larger than every
remembered one.  `LossIsFinal` follows from the same invariant: to own again, a process
would need its old generation to come back.

*Bounded deliveries* needs that each path to `open` either sees an attempt left
or resets the count.

*Receipts.*  `FinalizedOnce` and `NoSupersededResult` rest on a relation of a ticket's status, its receipt
and its retries: a standing receipt belongs to a terminal ticket and to the present
life, and in a live ticket every receipt is of an earlier life (`count <= retries`).

`HeardOncePerLife` (`ConsumersHearOncePerLife`) needs in addition that whatever was told of a ticket's present life is
its standing receipt (`HeardInv`): a live ticket has none, so nothing of its present life was told.

*The promise.*  `BusStepKinds` says that a transaction does one of five things to tickets and receipts: it files a ticket, moves live ones,
answers one, publishes, or is a retry.  These are the actions of `TicketPromise`, and `BusKeepsPromise` proves the
refinement for every caller and every order of calls; a retry needs that a message has a ticket (`EnvelopesHaveTickets`).

`CollectionWorkersProofs` proves `WorkersTypes`, then `WorkersImplementBus`: the initial states are
`BusInit` and each action of the processes is one bus call or leaves the bus variables unchanged,
so the detailed system implements `BusSpec`.  `WorkersCompleteOncePerLife`, `WorkersKeepTheBusGuarantees` and
`WorkersKeepPromise` carry the bus theorems over through that refinement.

`CollectionWorkersSafetyProofs` proves what takes workers, recovery and controller together, for any number of each.  Two assumptions
are added to `BusAssumption` and `WorkersAssumption`.  `DeliveryAssumption`: the message sent for a ticket names it; a message
an operator publishes has no key, so it is none of those the code sends; and the code sends one for a MIC task, for planner and
recovery publish it under one key (`agent.py:390`, `recovery.py:127`).  `PlanAssumption`: a planned task carries the demand of its request and is created by planners
alone (`planner.py:254`).

* `NoTicketIsStranded`.  A delivery that exists may be about to be acknowledged.  `WorkInv` says that a
  live ticket has a delivery whose newest holder is not; a worker comes to its acknowledgement only with an outcome of its ticket
  (`EndsWithOutcome`), and a claim that is not the newest cannot acknowledge.
* `FinishedTicketsRecordNothing`: `save_run` passes `require_work`.
* `MicTasksSucceedOnce` holds of a MIC task as long as no operator has published another message for it (`SentByHand`), whatever is done to other
  tasks; after that the conclusion may be false (§4).  `MicInv` says that while the newest holder of such a task is between the look-up of earlier runs and the
  saving of its own, no success is on record.  A second success would need a second claim that passes the fence; one message has
  one newest claim, and of two messages held for one MIC task an operator has published one.
* `DoneRequestsArePlanned`.  `PlanInv` (`PlanProgress`): at index `i` of its plan, the tasks before `i` have ticket, row and message,
  task `i` as much of it as the step says; rows, tickets and messages are never deleted, so a crashed planner's work stands.
* `CancelledRequestsStayQuiet`.  `QuietInv` says of any live task that no operator has retried that some request which plans it
  is not cancelled.  A cancellation takes the demand's live tickets at once, and a task comes to life only
  under a request that passes the fence.

`CollectionAttemptsProofs` proves, for every number of agents, tasks and attempts and with or
without an operator, from `AttemptsAssumption` (there is a task, the null attempt is not an attempt,
constants have their kinds): `AttemptsTypes`, whose invariant adds that an agent past the insertion
has an attempt in hand; `EndedStaysEnded`, which goes through what each statement of the repository does
to the state of a row, and holds because a compare-and-set names the states it starts from;
and `SuccessFromCompleted`.  `SuccessIsFromCompletedAttempt` is not inductive: between
`Finish` and `Persist` the success is only in the agent's hand.  The strengthening
(`SuccessInHand`) says that the row is already `completed` then; only `Finish` brings an
agent there, its compare-and-set having succeeded unrevoked, and by `EndedStaysEnded` the row stays so.
`SurvivorsBlock` (`SurvivingWorkerBlocks`) rests on who may write to an attempt: it has one supervisor at most, and none once a failed cleanup
is reported (`SurvivorInv`), so nobody overwrites the evidence or starts the child again.  `AgentInv` ties the supervisor's place in
the code to its row and child; in particular, an agent that saves `cleanup_incomplete` beside a living child has
the row in that state already, whether `finish` or its fallback wrote it.

`CircuitBreakerProofs` proves, for every number of processes and every threshold and cooldown,
`BreakerTypes` and `ThresholdOpens` (`ClosedBelowThreshold`), from `BreakerAssumption`.  What has to be said of
the row has to be said of every row a process remembers, because that is what a stale write puts back; the
row `record_failure` computes from such a row is such a row again.

`StockIngestionProofs` proves, for every number of runs, keys, series and providers and any pattern of
failures, from `StockAssumption` (finitely many runs and providers; keys and series are functions; a daily run starts none itself):

* `StockTypes`;
* `NewestFetchWinsAlways`, the refinement: each step is a step of `NewestWins` or a stutter.  The invariant says
  that the current row is the newest of what was offered, and that a run that has offered fetches no
  more, so that a fetch never changes the time of an offered record;
* `SuccessIsAlwaysDurable` and `SkipsRestOnStoredRecords`.  A run that comes to its end reports records it has not stored and linked only
  together with an error (`ReportedIsStored`), hence its status is `success` only if it did both; and a row of a
  key is `success` only after some run of that key stored (`KeyIsStored`), which nothing undoes;
* `ArchiveLeadsToCurrent` (`AdoptedRecordsResolve`).  `ArchiveInv`: an archived record that was replaced has an archived successor of its key, fetched later; the
  current row has none; what is linked is archived.  `Latest` follows successors recursively.  That the recursive function
  exists is shown by giving it in closed form; that it ends at the current row by taking, of the records for which it would not, the one
  fetched last.

`IntelligenceRunProofs` proves all eight safety properties of a collection run, for any set of links, any redirects
and directories, and all limits, from `RunAssumption` (finitely many links, limits are numbers, at least one
call and one link per batch).  `TypeInv` adds to the types that a link is in hand exactly inside the loop's
body and that room for its read was seen.  `WindowInv` (`AdmissionIsInWindow`): the date of the link in hand is settled
before the last check; it needs `PickedOnce`, that no link is admitted and then read again, or its
stored date could change under its records.  `StopInv` (`StopIsReported`, `NothingAdmittedAfterStop`) says what a stop can still meet at each
of the two steps that do not check for it.  `SettledInv` (`CompletedMeansSettled`): a source that awaits its date is pending or being settled.
`CallsInv` (`LinkCeilingHolds`, `CompletedMeansAudited`): the answers in hand are counted against the run and not yet against the link or in the
audit, and an exact sum holds until the work is over.  `ReserveInv` (`LastCallIsForExtraction`): a ranking is asked for with two calls left.

`DemandRuntimeProofs` proves from `DemandAssumption`: `DemandTypes`; `TargetsAlwaysHaveProfiles`, for overlapping commands and any number of
controllers too, since only the holder of the lock replaces the file, with all it had, profiles are never removed,
and what a file names without one is `unknown` (`LockInv`, `HasProfiles`);
and `HandledStopsStayQuiet` under the premise `Orderly`, which is
*commands on one demand do not overlap, and there is one controller*.  Its invariant says that what a command has read is
still there when it writes, that no message announces a version the demand does not have yet, that an
announcement says what the demand's status says, that a controller about to acknowledge a stop has cancelled the demand's work, and
that nothing a tick has still to compile is a demand whose stop has been acknowledged.  Work that an operator puts behind a stop by hand is the
one exception, named in the property (`forced`).

*Only model-checked:* liveness (`TicketsSettle`, `ResultsDelivered`, `OpenCircuitEnds`,
`AbandonedAttemptIsClosed`, `RevocationStopsChild`, `RunsEnd`, `RunEnds`, `StopIsCarriedOut`), which is out
of the prover's reach.  Every invariant and action property of a passing run is a theorem, and so are the three
refinements.  The type invariants are theorems too (`BusTypes`, `WorkersTypes`, `BreakerTypes` and so on), so the runs, except
`MCCollectionRun` for the limits in `RunTypeOK`, leave them out.

## 6. Abstractions, and what is not modelled

*Bus and workers.*  Left out are priority, targeting and order of deliveries (any open message may be leased);
`available_at` (any time); payloads (a message knows its ticket); FAULT, DATA_QUALITY and query tickets;
topics other than collection and its results; a message that an operator publishes for a ticket that does not exist, or with a payload of his own; attempts and cancellation of the MIC child process, event
structures, the several tool calls of one stock task (one call), the projection of task
status.  `CollectionWorkers` takes the MIC child
as one call with any outcome; `CollectionAttempts` and `IntelligenceRun` look inside it.  A process that crashes is indistinguishable from one that gives up its lease.

*Breaker.*  `_set` reads the row again for the columns it keeps; only for `half_open` does anyone
read those, and there the second read is a step.

*Attempts.*  One profile for all tasks; the tree of a child is worker and browser; pids are not
reused by processes of the same attempt; the heartbeat thread has ended when
the call returns (the code waits a second for it).

*Demands.*  Operators are assumed not to overlap on one demand in `MCDemands` (`Overlap` is a constant, and the
theorem about profiles does without it), and one controller runs.  Minutes, cadence and trading days are a
choice in `CompileDemand`.  The announcement of a registration changes nothing and is left out, as are the version
history, pool members, and what an operator does to announcements by hand: the retry of a dead one and a `demand.changed` of his own.
His `demand compile` and his `queue retry` of work are in the model; work he put behind a stop is exempt from the two properties of
stops until the next stop is handled (`forced`), and a target he named in a file is exempt from the one of profiles until a request adds it (`unknown`).
What an operator's files hold is the constant `Files`; a file names its targets as a list (the scope of a dynamic pool is data), and the dates between which a demand is active are left out.  A command that dies between row and announcement announces nothing;
a stop returned by a failing handler and delivered after the demand was resumed cancels work of the resumed demand.
Both are behaviours of the model, and no property speaks of them.

*Collection run.*  The browser route only, in one process; reuse of analyses of earlier runs, the offline
provider, supplier notes, coverage rows and statistics are left out.  The order in which links are read is free.  What a
query returns is any set of links (the coordinator's paging is not followed, and the authenticated retries it makes are not counted); the
per-origin limit of those retries is part of the run's.  The modes of a model call are "another model or done";
what a prompt has no room for is any subset.  `FinalOf` is the identity in the instance and arbitrary in the proofs.

*Stock.*  A run stores one record, so what is modelled is the first record of a session, whose upsert commits alone; the later ones share the
transaction that the first link opened.  A record that exists already leaves the transaction of its failed savepoint open, so the code may join steps that are two here, never the reverse.
The rows of raw payloads, fetch logs and comparisons, which precede the records and commit one by one, are left out.  One row per series and provider; `provider_update_time` is not used by the runner (`ingestion_runner.py:1321`
passes none), so the fetch time alone decides; the Parquet export, record types that are inserted or skipped, requests
without a database or without `save_cleaned` are left out; a process dies with all its runs.

*Not modelled at all:* reports, dashboards, memory, checkpoints (records nothing reads back
to decide); text processing of MIC: parsing, passages, prompts, review of claims and scopes, which are functions
of text; numeric scoring and features; provider adapters beyond what a fetch may come to; the paging of the browser
coordinator; the rate limiter's files; the rows of the task projection, which
the bus lock keeps from being applied out of order; configuration and formatting.  Most of the repository's lines are of these
kinds: the mapped definitions stand for about a seventh of its Python.

## 7. Plan

1. `RateLimiter`: pacing, minute window and day count over shared files, where a slot may be
   taken in one minute and used in the next; `SearchSweep`: pages, queries and hits of the coordinator under their limits.
2. `TaskProjection`, beside the bus; the request files of `mic/browser/worker.py` if a property wants them.
3. Overlapping commands and two ticks at once as instances of `DemandRuntime`, should the
   repository's documents come to say what they ought to do.
