--------------------------- MODULE CircuitBreaker ---------------------------
(***************************************************************************)
(* The circuit breaker of one tool: a row of circuit_breakers that several *)
(* agent processes read and write without a transaction (circuit_breaker.py *)
(* and its callers in agent.py).  Every SELECT and every INSERT of the code *)
(* is a step of its own, so a process may act on a row it read before      *)
(* another one changed it.                                                 *)
(*                                                                         *)
(* cooldown_until is kept as the time left, `cooling'; the failure count   *)
(* saturates at Threshold, the only value it is compared with.             *)
(***************************************************************************)
EXTENDS Naturals

CONSTANTS
    Processes,  \* agent processes calling the tool
    Threshold,  \* failure_threshold
    Cooldown    \* cooldown_seconds, in ticks of the clock

ASSUME BreakerAssumption ==
    /\ Threshold \in Nat \ {0}
    /\ Cooldown \in Nat

VARIABLES
    row,    \* the circuit_breakers row; a missing row reads as Closed
    seen,   \* the row a process has read and not yet acted on
    pc      \* where a process stands

vars == <<row, seen, pc>>

\* hasCooldown: cooldown_until IS NOT NULL
Row == [status: {"closed", "open", "half_open"}, failures: 0..Threshold,
        hasCooldown: BOOLEAN, cooling: 0..Cooldown]
Closed == [status |-> "closed", failures |-> 0, hasCooldown |-> FALSE, cooling |-> 0]

Steps == {"idle", "asked", "halving", "calling", "failing", "succeeding"}

\* Every column has its domain, and an open row has a cooldown_until: allow would
\* refuse every call for ever if it had none.
BreakerTypeOK ==
    /\ row \in Row
    /\ row.status = "open" => row.hasCooldown
    /\ seen \in [Processes -> Row]
    /\ pc \in [Processes -> Steps]

\* One SELECT, after which the process is at `step'.
Read(p, step) ==
    /\ seen' = [seen EXCEPT ![p] = row]
    /\ pc' = [pc EXCEPT ![p] = step]
    /\ UNCHANGED row

\* A process forgets the row it has acted on.
Acted(p, step) ==
    /\ seen' = [seen EXCEPT ![p] = Closed]
    /\ pc' = [pc EXCEPT ![p] = step]

-----------------------------------------------------------------------------
(* allow                                                                   *)

\* A closed or half_open circuit lets the call through at once.
AllowCall(p) ==
    /\ pc[p] = "idle"
    /\ row.status \in {"closed", "half_open"}
    /\ pc' = [pc EXCEPT ![p] = "calling"]
    /\ UNCHANGED <<row, seen>>

\* An open one whose cooldown is over is about to become half_open; otherwise the
\* call is refused and nothing changes.
FindCooledDown(p) ==
    /\ pc[p] = "idle"
    /\ row.status = "open"
    /\ row.hasCooldown /\ row.cooling = 0
    /\ pc' = [pc EXCEPT ![p] = "asked"]
    /\ UNCHANGED <<row, seen>>

\* _set(status="half_open") reads the row again and keeps its other columns ...
ReadForHalfOpen(p) ==
    /\ pc[p] = "asked"
    /\ Read(p, "halving")

\* ... then writes it.
WriteHalfOpen(p) ==
    /\ pc[p] = "halving"
    /\ row' = [seen[p] EXCEPT !.status = "half_open"]
    /\ Acted(p, "calling")

-----------------------------------------------------------------------------
(* The tool call, and _record_breaker                                      *)

\* A deferral, a cancellation or a lost lease is not recorded.
CallNotRecorded(p) ==
    /\ pc[p] = "calling"
    /\ pc' = [pc EXCEPT ![p] = "idle"]
    /\ UNCHANGED <<row, seen>>

CallFails(p) ==
    /\ pc[p] = "calling"
    /\ Read(p, "failing")

CallSucceeds(p) ==
    /\ pc[p] = "calling"
    /\ Read(p, "succeeding")

Counted(n) == IF n < Threshold THEN n + 1 ELSE Threshold

\* Regression: the threshold is compared with the count before this failure.
FailureOfOffByOne(r) ==
    LET failures == Counted(r.failures)
    IN IF r.failures >= Threshold \/ r.status = "half_open"
       THEN [status |-> "open", failures |-> failures, hasCooldown |-> TRUE, cooling |-> Cooldown]
       ELSE [r EXCEPT !.status = "closed", !.failures = failures]

\* Regression: the circuit opens without a cooldown_until.
FailureOfWithoutCooldown(r) ==
    LET failures == Counted(r.failures)
    IN IF failures >= Threshold \/ r.status = "half_open"
       THEN [r EXCEPT !.status = "open", !.failures = failures, !.hasCooldown = FALSE]
       ELSE [r EXCEPT !.status = "closed", !.failures = failures]

\* record_failure, computed from the row it read.  _set reads the row once more for
\* the columns it keeps; those of a closed row are read by nobody, so the first
\* read stands for both.
FailureOf(r) ==
    LET failures == Counted(r.failures)
    IN IF failures >= Threshold \/ r.status = "half_open"
       THEN [status |-> "open", failures |-> failures, hasCooldown |-> TRUE, cooling |-> Cooldown]
       ELSE [r EXCEPT !.status = "closed", !.failures = failures]

WriteFailure(p) ==
    /\ pc[p] = "failing"
    /\ row' = FailureOf(seen[p])
    /\ Acted(p, "idle")

\* record_success writes only when the row it read has something to reset.
WriteSuccess(p) ==
    /\ pc[p] = "succeeding"
    /\ row' = IF seen[p].status # "closed" \/ seen[p].failures # 0 THEN Closed ELSE row
    /\ Acted(p, "idle")

\* Time passes.
Tick ==
    /\ row.cooling > 0
    /\ row' = [row EXCEPT !.cooling = @ - 1]
    /\ UNCHANGED <<seen, pc>>

-----------------------------------------------------------------------------
Init ==
    /\ row = Closed
    /\ seen = [p \in Processes |-> Closed]
    /\ pc = [p \in Processes |-> "idle"]

Ask(p) == AllowCall(p) \/ FindCooledDown(p)
Proceed(p) ==
    \/ ReadForHalfOpen(p) \/ WriteHalfOpen(p)
    \/ CallNotRecorded(p) \/ CallFails(p) \/ CallSucceeds(p)
    \/ WriteFailure(p) \/ WriteSuccess(p)

Next == Tick \/ \E p \in Processes : Ask(p) \/ Proceed(p)

Spec == Init /\ [][Next]_vars

\* The clock runs, started calls end, and tasks for the tool keep arriving.
Fairness ==
    /\ WF_vars(Tick)
    /\ \A p \in Processes : WF_vars(Ask(p)) /\ WF_vars(Proceed(p))

FairSpec == Spec /\ Fairness

-----------------------------------------------------------------------------
\* A circuit that counts Threshold failures is not closed, whatever stale rows the
\* processes write back over each other.
ClosedBelowThreshold == row.status = "closed" => row.failures < Threshold

\* An open circuit lets a call through again in the end: calls that were under way
\* when it opened may restart the cooldown, but not forever.
OpenCircuitEnds == row.status = "open" ~> row.status # "open"

=============================================================================
