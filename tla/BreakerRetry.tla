---------------------------- MODULE BreakerRetry ----------------------------
(***************************************************************************)
(* One delivery of a collection task against the circuit of its tool, with *)
(* the clock: how queue.nack's retry delay and attempt limit meet the      *)
(* breaker's cooldown.  DeliveryBus leaves the delay out and               *)
(* CircuitBreaker the delivery; here both are counted in the same ticks.   *)
(***************************************************************************)
EXTENDS Naturals

CONSTANTS
    MaxAttempts,  \* max_attempts of the message
    RetryDelay,   \* queue.retry_delay_seconds, in ticks
    Cooldown,     \* circuit_breaker.cooldown_seconds, in ticks
    MaxReopens    \* bound: times another task's failure opens the circuit

VARIABLES
    status,    \* of the message; the ticket follows it
    attempts,  \* messages.attempts
    delay,     \* time until available_at
    cooling,   \* time until cooldown_until; the circuit refuses calls till then
    reopens,   \* how often the circuit has been opened
    called     \* the tool has been called for this task

vars == <<status, attempts, delay, cooling, reopens, called>>

\* lease(): an open message whose available_at has come.
LeaseTask ==
    /\ status = "open" /\ delay = 0
    /\ status' = "in_progress"
    /\ attempts' = attempts + 1
    /\ UNCHANGED <<delay, cooling, reopens, called>>

\* nack() with retryable=True
Nack ==
    /\ status' = IF attempts >= MaxAttempts THEN "dead" ELSE "open"
    /\ delay' = IF attempts >= MaxAttempts THEN 0 ELSE RetryDelay
    /\ UNCHANGED attempts

\* _handle_circuit_open: the tool is not called and the delivery is nacked.
Refused ==
    /\ status = "in_progress"
    /\ cooling > 0
    /\ Nack
    /\ UNCHANGED <<cooling, reopens, called>>

\* The circuit lets the call through: the tool answers or fails retryably.
Call ==
    /\ status = "in_progress"
    /\ cooling = 0
    /\ called' = TRUE
    /\ \/ status' = "done" /\ UNCHANGED <<delay, attempts>>
       \/ Nack
    /\ UNCHANGED <<cooling, reopens>>

\* Other tasks of the tool fail and open the circuit.
CircuitOpens ==
    /\ reopens < MaxReopens
    /\ reopens' = reopens + 1
    /\ cooling' = Cooldown
    /\ UNCHANGED <<status, attempts, delay, called>>

Earlier(t) == IF t > 0 THEN t - 1 ELSE 0

Tick ==
    /\ delay > 0 \/ cooling > 0
    /\ delay' = Earlier(delay)
    /\ cooling' = Earlier(cooling)
    /\ UNCHANGED <<status, attempts, reopens, called>>

Init ==
    /\ status = "open"
    /\ attempts = 0
    /\ delay = 0
    /\ cooling = 0
    /\ reopens = 0
    /\ called = FALSE

Next == LeaseTask \/ Refused \/ Call \/ CircuitOpens \/ Tick

Spec == Init /\ [][Next]_vars

\* "circuit open | nack retry | retry after the cooldown" (agent README, error table;
\* the event text of _handle_circuit_open says the same): a task refused by the open
\* circuit is tried after the cooldown, so it is not given up before its tool was called.
RefusedTaskIsRetriedAfterCooldown == status = "dead" => called

=============================================================================
