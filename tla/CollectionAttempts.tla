------------------------- MODULE CollectionAttempts -------------------------
(***************************************************************************)
(* Supervised MIC collections: the collection_attempt rows, the agents     *)
(* that run _execute_mic_task, the child process each of them supervises,  *)
(* and the browser profile the children share.  A delivery of the bus is   *)
(* reduced to whether its agent still holds it.  An agent may die at any   *)
(* step; its child goes on without it.                                     *)
(***************************************************************************)
EXTENDS Naturals

CONSTANTS
    Agents,
    Tasks,        \* task keys; all tasks share one browser profile
    Attempts,     \* attempt ids; a finite set bounds the collections started
    NoAttempt,
    MaxCrashes,   \* bound on the agents that die
    Operator      \* whether an operator cancels attempts

ASSUME AttemptsAssumption ==
    /\ Tasks # {}
    /\ NoAttempt \notin Attempts
    /\ MaxCrashes \in Nat
    /\ Operator \in BOOLEAN

VARIABLES
    row,       \* the table collection_attempt
    child,     \* the child process of an attempt and, once it has ended, its result
    browser,   \* whether a browser the attempt started is running
    job,       \* local state of each agent inside _execute_mic_task
    lease,     \* whether the delivery is still the agent's
    saved,     \* status of the collection run saved for an attempt
    settled,   \* tasks that are not delivered again
    reported,  \* attempts whose agent recorded a failed cleanup
    crashes

vars == <<row, child, browser, job, lease, saved, settled, reported, crashes>>
childVars == <<child, browser>>
taskVars == <<saved, settled, reported>>

Active == {"starting", "running", "cancelling"}
Ended == {"completed", "failed", "cancelled", "interrupted", "cleanup_incomplete"}
Statuses == {"none", "completed", "failed", "cancelled", "timed_out", "cleanup_incomplete"}
\* What read_result_file and the exit code come to: a completed result counts only with
\* exit code 0, and a missing or invalid one is a crash.
Results == {"completed", "failed", "cancelled"}

Steps == {"idle", "blocker", "insert", "examine", "close", "beat", "launch",
          "supervise", "verify", "recheck", "finish", "fallback", "persist"}

Row == [state: {"absent"} \cup Active \cup Ended, task: Tasks, late: BOOLEAN, pid: BOOLEAN]

\* attempt is the attempt under supervision, or the stale one about to be closed;
\* revoked joins _lease_lost and the cancel event; stop is the reason for a kill.
Job == [pc: Steps, task: Tasks, attempt: Attempts \cup {NoAttempt}, retried: BOOLEAN,
        revoked: BOOLEAN, stop: {"none", "cancelled", "timed_out"}, status: Statuses]

\* An agent between two deliveries holds nothing.
AttemptsTypeOK ==
    /\ row \in [Attempts -> Row]
    /\ child \in [Attempts -> {"none", "up"} \cup Results]
    /\ browser \in [Attempts -> BOOLEAN]
    /\ job \in [Agents -> Job]
    /\ lease \in [Agents -> BOOLEAN]
    /\ saved \in [Attempts -> {"none", "success", "failed"}]
    /\ settled \subseteq Tasks
    /\ reported \subseteq Attempts
    /\ crashes \in 0..MaxCrashes
    /\ \A a \in Agents : job[a].pc = "idle" => ~lease[a] /\ job[a].attempt = NoAttempt

At(a, step) == job[a].pc = step
Mine(a) == job[a].attempt
SomeTask == CHOOSE t \in Tasks : TRUE
Idle == [pc |-> "idle", task |-> SomeTask, attempt |-> NoAttempt, retried |-> FALSE,
         revoked |-> FALSE, stop |-> "none", status |-> "none"]

GoTo(a, step) == job' = [job EXCEPT ![a].pc = step]

\* _execute_mic_task ends, however the delivery is disposed of.
Return(a) ==
    /\ job' = [job EXCEPT ![a] = Idle]
    /\ lease' = [lease EXCEPT ![a] = FALSE]

-----------------------------------------------------------------------------
(* CollectionAttemptRepository: one statement each.                        *)

\* Regression: the heartbeat of a parent revives an attempt that was closed.
BeatAny(x) == [row EXCEPT ![x].state = "running", ![x].late = FALSE]

\* heartbeat, mark_running: refresh an attempt that nobody revoked.
Beat(x) ==
    IF row[x].state \in {"starting", "running"}
    THEN [row EXCEPT ![x].state = "running", ![x].late = FALSE]
    ELSE row

\* finish: a compare-and-set; a worker pid once known is kept, and nobody asks for the
\* age of an attempt that has ended.
Finished(x, state, pid, expected) ==
    IF row[x].state \in expected
    THEN [row EXCEPT ![x].state = state, ![x].late = FALSE, ![x].pid = @ \/ pid]
    ELSE row

Uncleaned == {x \in Attempts : row[x].state = "cleanup_incomplete"}

\* pid_owns_attempt: the worker whose pid the row names is alive.
Survives(x) == row[x].pid /\ child[x] = "up"

\* blocking_cleanup_incomplete closes rows that have no such worker any more.
Closed(gone) == [x \in Attempts |-> IF x \in gone THEN [row[x] EXCEPT !.state = "interrupted"]
                                                  ELSE row[x]]

ActiveOf(t) == {x \in Attempts : row[x].state \in Active /\ row[x].task = t}

-----------------------------------------------------------------------------
(* _execute_mic_task until the child is started                            *)

\* The bus leases the delivery of a task to an agent, and to one at a time.
Begin(a, t) ==
    /\ At(a, "idle")
    /\ t \notin settled
    /\ \A b \in Agents : ~(lease[b] /\ job[b].task = t)
    /\ job' = [job EXCEPT ![a].pc = "blocker", ![a].task = t]
    /\ lease' = [lease EXCEPT ![a] = TRUE]
    /\ UNCHANGED <<row, crashes>>
    /\ UNCHANGED childVars
    /\ UNCHANGED taskVars

\* blocking_cleanup_incomplete finds a worker alive: the task fails for good.  Rows it
\* met before the survivor are closed.
Blocked(a) ==
    /\ At(a, "blocker")
    /\ \E x \in Uncleaned : Survives(x)
    /\ \E gone \in SUBSET {x \in Uncleaned : ~Survives(x)} : row' = Closed(gone)
    /\ settled' = IF lease[a] THEN settled \cup {job[a].task} ELSE settled
    /\ Return(a)
    /\ UNCHANGED <<saved, reported, crashes>>
    /\ UNCHANGED childVars

\* No survivor: every cleanup_incomplete row is closed and stops blocking.
NotBlocked(a) ==
    /\ At(a, "blocker")
    /\ \A x \in Uncleaned : ~Survives(x)
    /\ row' = Closed(Uncleaned)
    /\ GoTo(a, "insert")
    /\ UNCHANGED <<lease, crashes>>
    /\ UNCHANGED childVars
    /\ UNCHANGED taskVars

\* start: the unique index refuses a second active row of a task.
Insert(a) ==
    /\ At(a, "insert")
    /\ ActiveOf(job[a].task) = {}
    /\ \E x \in Attempts :
           /\ row[x].state = "absent"
           /\ row' = [row EXCEPT ![x] = [state |-> "starting", task |-> job[a].task,
                                         late |-> FALSE, pid |-> FALSE]]
           /\ job' = [job EXCEPT ![a].pc = "beat", ![a].attempt = x, ![a].retried = FALSE]
    /\ UNCHANGED <<lease, crashes>>
    /\ UNCHANGED childVars
    /\ UNCHANGED taskVars

InsertRefused(a) ==
    /\ At(a, "insert")
    /\ ActiveOf(job[a].task) # {}
    /\ GoTo(a, "examine")
    /\ UNCHANGED <<row, lease, crashes>>
    /\ UNCHANGED childVars
    /\ UNCHANGED taskVars

\* Regression: an attempt under cancellation is never taken for stale.
IsStaleUncancelled(x) == row[x].late /\ row[x].state # "cancelling"

\* _is_stale, of the row active_for has read.
IsStale(x) == row[x].late

\* No row any more (try again), a stale one, or MIC_ATTEMPT_ACTIVE,
\* which is also the answer after two tries.
Examine(a) ==
    /\ At(a, "examine")
    /\ \/ /\ ActiveOf(job[a].task) = {} /\ ~job[a].retried
          /\ job' = [job EXCEPT ![a].pc = "insert", ![a].retried = TRUE]
          /\ UNCHANGED lease
       \/ \E x \in ActiveOf(job[a].task) :
             /\ IsStale(x)
             /\ job' = [job EXCEPT ![a].pc = "close", ![a].attempt = x]
             /\ UNCHANGED lease
       \/ /\ \A x \in ActiveOf(job[a].task) : ~IsStale(x)
          /\ ActiveOf(job[a].task) # {} \/ job[a].retried
          /\ Return(a)
    /\ UNCHANGED <<row, crashes>>
    /\ UNCHANGED childVars
    /\ UNCHANGED taskVars

\* The attempt judged stale is closed, also when its parent has sent a heartbeat since.
CloseStale(a) ==
    /\ At(a, "close")
    /\ row' = Finished(Mine(a), "interrupted", FALSE, Active)
    /\ IF job[a].retried
       THEN Return(a)
       ELSE /\ job' = [job EXCEPT ![a].pc = "insert", ![a].attempt = NoAttempt, ![a].retried = TRUE]
            /\ UNCHANGED lease
    /\ UNCHANGED crashes
    /\ UNCHANGED childVars
    /\ UNCHANGED taskVars

\* _attempt_keepalive: a lost delivery or a revoked attempt sets the cancel event.
KeepAliveWrites(a) ==
    /\ row' = Beat(Mine(a))
    /\ UNCHANGED <<lease, crashes>>
    /\ UNCHANGED childVars
    /\ UNCHANGED taskVars

\* Regression: the answer of the attempt's heartbeat is dropped.
NoticedDelivery(a) == job[a].revoked \/ ~lease[a]

\* Whether the agent learns, now or earlier, that it must stop.
Noticed(a) ==
    job[a].revoked \/ ~lease[a] \/ row[Mine(a)].state \notin {"starting", "running"}

FirstBeat(a) ==
    /\ At(a, "beat")
    /\ job' = [job EXCEPT ![a].pc = "launch", ![a].revoked = Noticed(a)]
    /\ KeepAliveWrites(a)

KeepAlive(a) ==
    /\ job[a].pc \in {"launch", "supervise", "verify"}
    /\ job' = [job EXCEPT ![a].revoked = Noticed(a)]
    /\ KeepAliveWrites(a)

\* WorkRevoked before the child exists: the attempt's row stays active.
RevokedBeforeLaunch(a) ==
    /\ At(a, "launch")
    /\ ~lease[a]
    /\ Return(a)
    /\ UNCHANGED <<row, crashes>>
    /\ UNCHANGED childVars
    /\ UNCHANGED taskVars

\* _assert_current_work, mark_running, and the child; or the child cannot be started.
Launch(a) ==
    /\ At(a, "launch")
    /\ lease[a]
    /\ row' = Beat(Mine(a))
    /\ \/ /\ child' = [child EXCEPT ![Mine(a)] = "up"]
          /\ GoTo(a, "supervise")
       \/ /\ job' = [job EXCEPT ![a].pc = "recheck", ![a].status = "failed"]
          /\ UNCHANGED child
    /\ UNCHANGED <<browser, lease, crashes>>
    /\ UNCHANGED taskVars

-----------------------------------------------------------------------------
(* The child process (worker.py, session.py)                               *)

\* The browser is launched under the profile's flock, which a live child holds.
OpenBrowser(x) ==
    /\ child[x] = "up"
    /\ \A y \in Attempts : ~(child[y] = "up" /\ browser[y])
    /\ browser' = [browser EXCEPT ![x] = TRUE]
    /\ UNCHANGED <<row, child, job, lease, crashes>>
    /\ UNCHANGED taskVars

\* The process writes its result and exits, or dies before, between or after.  Closing the
\* session may leave the browser behind; ProfileBusy is a failed result; a child that sees
\* its cancel flag (cancel file, lost parent, deadline) ends "cancelled".
ChildEnds(x) ==
    /\ child[x] = "up"
    /\ \E r \in Results : child' = [child EXCEPT ![x] = r]
    /\ browser' \in {browser, [browser EXCEPT ![x] = FALSE]}
    /\ UNCHANGED <<row, job, lease, crashes>>
    /\ UNCHANGED taskVars

\* A browser left behind ends by itself.
BrowserEnds(x) ==
    /\ browser[x] /\ child[x] # "up"
    /\ browser' = [browser EXCEPT ![x] = FALSE]
    /\ UNCHANGED <<row, child, job, lease, crashes>>
    /\ UNCHANGED taskVars

-----------------------------------------------------------------------------
(* RunSupervisor.run                                                       *)

\* TERM, then KILL: any part of the owned tree may survive it.
Signalled(x) ==
    /\ child' \in {child, [child EXCEPT ![x] = IF @ = "up" THEN "failed" ELSE @]}
    /\ browser' \in {browser, [browser EXCEPT ![x] = FALSE]}

ChildExited(a) ==
    /\ At(a, "supervise")
    /\ child[Mine(a)] # "up"
    /\ GoTo(a, "verify")
    /\ UNCHANGED <<row, lease, crashes>>
    /\ UNCHANGED childVars
    /\ UNCHANGED taskVars

StopChild(a, reason) ==
    /\ At(a, "supervise")
    /\ child[Mine(a)] = "up"
    /\ job' = [job EXCEPT ![a].pc = "verify", ![a].stop = reason]
    /\ Signalled(Mine(a))
    /\ UNCHANGED <<row, lease, crashes>>
    /\ UNCHANGED taskVars

\* The poll loop sees the cancel event, or else the hard deadline.
CancelChild(a) == job[a].revoked /\ StopChild(a, "cancelled")
TimeOut(a) == ~job[a].revoked /\ StopChild(a, "timed_out")

\* Writing cancel.json fails: the exception leaves run before the child is signalled, and
\* the adapter reports a failed tool without an outcome.
StopFails(a) ==
    /\ At(a, "supervise")
    /\ child[Mine(a)] = "up"
    /\ GoTo(a, "recheck")
    /\ UNCHANGED <<row, lease, crashes>>
    /\ UNCHANGED childVars
    /\ UNCHANGED taskVars

\* The outcome of a run whose tree is verified gone: the reason for the kill comes first.
OutcomeOf(a, result) == IF job[a].stop = "none" THEN result ELSE job[a].stop

\* _reap_tree and _verify_cleanup: only a scan of /child that finds nothing of the tree
\* makes the cleanup complete; a scan that fails proves nothing.
VerifyCleanup(a) ==
    /\ At(a, "verify")
    /\ Signalled(Mine(a))
    /\ LET result == child'[Mine(a)]
           gone == result \in Results /\ ~browser'[Mine(a)]
           outcomes == {"cleanup_incomplete"} \cup (IF gone THEN {OutcomeOf(a, result)} ELSE {})
       IN \E s \in outcomes : job' = [job EXCEPT ![a].pc = "recheck", ![a].status = s,
                                                     ![a].stop = "none"]
    /\ UNCHANGED <<row, lease, crashes>>
    /\ UNCHANGED taskVars

-----------------------------------------------------------------------------
(* _execute_mic_task after the child                                       *)

\* _attempt_state
AttemptState(status, revoked) ==
    IF status = "cleanup_incomplete" THEN status
    ELSE IF revoked \/ status = "cancelled" THEN "cancelled"
    ELSE IF status = "timed_out" THEN "interrupted"
    ELSE IF status = "completed" THEN "completed"
    ELSE "failed"

\* Reads of the delivery and of the attempt; the first write may find either changed.
Recheck(a) ==
    /\ At(a, "recheck")
    /\ job' = [job EXCEPT ![a].pc = "finish", ![a].revoked = Noticed(a)]
    /\ UNCHANGED <<row, lease, crashes>>
    /\ UNCHANGED childVars
    /\ UNCHANGED taskVars

\* SupervisedOutcome.worker_pid: there was a child, and run returned.
KnowsPid(a) == job[a].status # "none" /\ child[Mine(a)] # "none"

Report(a) == reported' = IF job[a].status = "cleanup_incomplete"
                         THEN reported \cup {Mine(a)} ELSE reported

FinishStates(a) == {"starting", "running"} \cup (IF job[a].revoked THEN {"cancelling"} ELSE {})

\* Regression: the answer of the compare-and-set is not looked at.
FinishUnchecked(a) ==
    /\ At(a, "finish")
    /\ row' = Finished(Mine(a), AttemptState(job[a].status, job[a].revoked), KnowsPid(a),
                       FinishStates(a))
    /\ IF job[a].revoked
       THEN Return(a) /\ Report(a)
       ELSE GoTo(a, "persist") /\ UNCHANGED <<lease, reported>>
    /\ UNCHANGED <<saved, settled, crashes>>
    /\ UNCHANGED childVars

Finish(a) ==
    /\ At(a, "finish")
    /\ row' = Finished(Mine(a), AttemptState(job[a].status, job[a].revoked), KnowsPid(a),
                       FinishStates(a))
    /\ IF row[Mine(a)].state \notin FinishStates(a)
       THEN GoTo(a, "fallback") /\ UNCHANGED <<lease, reported>>
       ELSE IF job[a].revoked
       THEN Return(a) /\ Report(a)
       ELSE GoTo(a, "persist") /\ UNCHANGED <<lease, reported>>
    /\ UNCHANGED <<saved, settled, crashes>>
    /\ UNCHANGED childVars

\* Regression: a revoked attempt takes no late evidence.
FallbackStatesCancelling(a) == {"cancelling"}

\* Evidence of a surviving worker overrides a revocation; nothing else does.
FallbackStates(a) ==
    IF job[a].status = "cleanup_incomplete" THEN {"cancelling", "cancelled", "interrupted"}
    ELSE {"cancelling"}

Fallback(a) ==
    /\ At(a, "fallback")
    /\ row' = Finished(Mine(a), AttemptState(job[a].status, TRUE), KnowsPid(a), FallbackStates(a))
    /\ Return(a)
    /\ Report(a)
    /\ UNCHANGED <<saved, settled, crashes>>
    /\ UNCHANGED childVars

\* _finish_mic_task, all of whose writes need the delivery: the run is saved and the task
\* settled or, after a retryable error, left to another delivery.
Persist(a) ==
    /\ At(a, "persist")
    /\ IF lease[a]
       THEN /\ saved' = [saved EXCEPT ![Mine(a)] =
                             IF job[a].status = "completed" THEN "success" ELSE "failed"]
            /\ \E again \in BOOLEAN :
                  /\ again => job[a].status \notin {"completed", "cleanup_incomplete"}
                  /\ settled' = IF again THEN settled ELSE settled \cup {job[a].task}
       ELSE UNCHANGED <<saved, settled>>
    /\ Return(a)
    /\ Report(a)
    /\ UNCHANGED <<row, crashes>>
    /\ UNCHANGED childVars

-----------------------------------------------------------------------------
(* The rest of the world                                                   *)

\* The delivery lapses, is taken by another worker, or its ticket ends.
LoseDelivery(a) ==
    /\ lease[a]
    /\ lease' = [lease EXCEPT ![a] = FALSE]
    /\ UNCHANGED <<row, job, crashes>>
    /\ UNCHANGED childVars
    /\ UNCHANGED taskVars

\* The agent process dies; its child is not told.
AgentDies(a) ==
    /\ ~At(a, "idle")
    /\ crashes < MaxCrashes
    /\ crashes' = crashes + 1
    /\ Return(a)
    /\ UNCHANGED row
    /\ UNCHANGED childVars
    /\ UNCHANGED taskVars

\* The heartbeat is so old that _is_stale holds: past the deadline, or twice the window.
HeartbeatAges(x) ==
    /\ row[x].state \in Active /\ ~row[x].late
    /\ row' = [row EXCEPT ![x].late = TRUE]
    /\ UNCHANGED <<job, lease, crashes>>
    /\ UNCHANGED childVars
    /\ UNCHANGED taskVars

\* An operator asks for the cancellation of an attempt, or ends it.
OperatorCancels(x) ==
    /\ Operator
    /\ row' = IF row[x].state \in {"starting", "running"}
              THEN [row EXCEPT ![x].state = "cancelling", ![x].late = FALSE] ELSE row
    /\ UNCHANGED <<job, lease, crashes>>
    /\ UNCHANGED childVars
    /\ UNCHANGED taskVars

OperatorEnds(x) ==
    /\ Operator
    /\ row' = Finished(x, "cancelled", FALSE, Active)
    /\ UNCHANGED <<job, lease, crashes>>
    /\ UNCHANGED childVars
    /\ UNCHANGED taskVars

-----------------------------------------------------------------------------
Init ==
    /\ row = [x \in Attempts |-> [state |-> "absent", task |-> SomeTask, late |-> FALSE, pid |-> FALSE]]
    /\ child = [x \in Attempts |-> "none"]
    /\ browser = [x \in Attempts |-> FALSE]
    /\ job = [a \in Agents |-> Idle]
    /\ lease = [a \in Agents |-> FALSE]
    /\ saved = [x \in Attempts |-> "none"]
    /\ settled = {}
    /\ reported = {}
    /\ crashes = 0

\* The calls of _execute_mic_task, in its own time.
Execute(a) ==
    \/ Blocked(a) \/ NotBlocked(a) \/ Insert(a) \/ InsertRefused(a) \/ Examine(a) \/ CloseStale(a)
    \/ FirstBeat(a) \/ RevokedBeforeLaunch(a) \/ Launch(a)
    \/ ChildExited(a) \/ CancelChild(a) \/ VerifyCleanup(a)
    \/ Recheck(a) \/ Finish(a) \/ Fallback(a) \/ Persist(a)

Child(x) == OpenBrowser(x) \/ ChildEnds(x) \/ BrowserEnds(x)

Next ==
    \/ \E a \in Agents :
          \/ \E t \in Tasks : Begin(a, t)
          \/ Execute(a) \/ KeepAlive(a) \/ TimeOut(a) \/ StopFails(a)
          \/ LoseDelivery(a) \/ AgentDies(a)
    \/ \E x \in Attempts :
          Child(x) \/ HeartbeatAges(x) \/ OperatorCancels(x) \/ OperatorEnds(x)

Spec == Init /\ [][Next]_vars

Supervised(x) == \E a \in Agents : Mine(a) = x /\ ~At(a, "close")
Abandoned(x) == row[x].state \in Active /\ ~Supervised(x)

\* An agent that is alive goes on; the clock advances over an abandoned attempt; a task
\* that is not settled is delivered again.  Nothing is asked of the children, and no
\* deadline is waited for.
Fairness ==
    /\ \A a \in Agents : WF_vars(Execute(a)) /\ WF_vars(KeepAlive(a))
    /\ \A x \in Attempts : WF_vars(Abandoned(x) /\ HeartbeatAges(x))
    /\ \A t \in Tasks : SF_vars(\E a \in Agents : Begin(a, t))

FairSpec == Spec /\ Fairness

-----------------------------------------------------------------------------
(* Properties                                                              *)

\* A collection counts as evidence only while its attempt is the one that completed:
\* what a revoked or superseded attempt found is not saved, although its child ran to
\* the end, whenever the revocation came in.
SuccessIsFromCompletedAttempt ==
    \A x \in Attempts : saved[x] = "success" => row[x].state = "completed"

\* An attempt that ended stays as it ended: no late heartbeat or finish revives it.  Only
\* evidence of a surviving worker replaces a revocation, and is itself only ever closed.
EndedAttemptStaysEnded ==
    [][\A x \in Attempts :
         /\ row[x].state \in {"completed", "failed"} => row'[x].state = row[x].state
         /\ row[x].state \in {"cancelled", "interrupted"} =>
                row'[x].state \in {row[x].state, "cleanup_incomplete"}
         /\ row[x].state = "cleanup_incomplete" => row'[x].state \in {"cleanup_incomplete", "interrupted"}
      ]_vars

\* A worker that its agent could not kill keeps blocking the profile for as long as it
\* lives, also when its attempt was revoked, closed as stale or cancelled meanwhile.
SurvivingWorkerBlocks ==
    \A x \in reported : child[x] = "up" => row[x].state = "cleanup_incomplete" /\ row[x].pid

\* docs/design/local_browser_search.md, row "resource cleanup incomplete": no new start on
\* the profile.  An agent goes past the check only when nothing is left of a failed cleanup.
NoStartBesideLeftover ==
    [][\A a \in Agents : NotBlocked(a) =>
         \A x \in reported : child[x] # "up" /\ ~browser[x]]_vars

\* A crashed or revoked parent does not block its task forever.
AbandonedAttemptIsClosed ==
    \A x \in Attempts : Abandoned(x) ~> row[x].state \notin Active \/ row[x].task \in settled

\* Revoking an attempt stops its child, without waiting for its deadline, or its agent says
\* that it could not, as long as an agent supervises it at all.
RevocationStopsChild ==
    \A x \in Attempts :
        child[x] = "up" /\ Supervised(x) /\ row[x].state \notin {"starting", "running"}
            ~> child[x] # "up" \/ x \in reported \/ ~Supervised(x)

=============================================================================
