---------------------- MODULE CollectionAttemptsProofs ----------------------
(***************************************************************************)
(* Theorems about CollectionAttempts, for any number of agents, tasks and  *)
(* attempts, any crashes and any operator.                                 *)
(***************************************************************************)
EXTENDS CollectionAttempts, TLAPS

\* Past the insertion an agent has an attempt in hand.
HasAttempt ==
    \A a \in Agents : job[a].pc \in {"close", "beat", "launch", "supervise", "verify",
                                     "recheck", "finish", "fallback", "persist"}
                         => Mine(a) \in Attempts

TypeInv == AttemptsTypeOK /\ HasAttempt

LEMMA SomeTaskIsATask == SomeTask \in Tasks
  BY AttemptsAssumption DEF SomeTask

LEMMA IdleIsAJob == Idle \in Job
  BY SomeTaskIsATask DEF Idle, Job, Steps, Statuses

LEMMA BeatTypes ==
    ASSUME row \in [Attempts -> Row], NEW x
    PROVE  Beat(x) \in [Attempts -> Row]
  BY DEF Beat, Row, Active, Ended

LEMMA UpdatedTypes ==
    ASSUME row \in [Attempts -> Row], NEW x \in Attempts, NEW s \in Ended, NEW p \in BOOLEAN
    PROVE  [row EXCEPT ![x].state = s, ![x].late = FALSE, ![x].pid = p] \in [Attempts -> Row]
  BY DEF Row, Active, Ended

LEMMA FinishedTypes ==
    ASSUME row \in [Attempts -> Row], NEW x \in Attempts, NEW s \in Ended,
           NEW pid \in BOOLEAN, NEW expected
    PROVE  Finished(x, s, pid, expected) \in [Attempts -> Row]
  <1>1. (row[x].pid \/ pid) \in BOOLEAN
    OBVIOUS
  <1>2. [row EXCEPT ![x].state = s, ![x].late = FALSE, ![x].pid = (row[x].pid \/ pid)]
            \in [Attempts -> Row]
    BY <1>1, UpdatedTypes, Zenon
  <1>3. CASE row[x].state \in expected
    BY <1>2, <1>3, Zenon DEF Finished
  <1>4. CASE row[x].state \notin expected
    BY <1>4, Zenon DEF Finished
  <1> QED BY <1>3, <1>4

LEMMA ClosedTypes ==
    ASSUME row \in [Attempts -> Row], NEW S
    PROVE  Closed(S) \in [Attempts -> Row]
  BY DEF Closed, Row, Active, Ended

LEMMA InitTypes == Init => TypeInv
  BY SomeTaskIsATask, IdleIsAJob, AttemptsAssumption
     DEF Init, TypeInv, AttemptsTypeOK, HasAttempt, Row, Active, Ended, Idle, Mine

LEMMA ReturnTypes ==
    ASSUME TypeInv, NEW a \in Agents, Return(a)
    PROVE  /\ job' \in [Agents -> Job]
           /\ lease' \in [Agents -> BOOLEAN]
           /\ \A b \in Agents : job'[b].pc = "idle" => ~lease'[b] /\ job'[b].attempt = NoAttempt
           /\ HasAttempt'
  <1>1. job' = [job EXCEPT ![a] = Idle] /\ lease' = [lease EXCEPT ![a] = FALSE]
    BY DEF Return
  <1>2. job' \in [Agents -> Job] /\ lease' \in [Agents -> BOOLEAN]
    BY <1>1, IdleIsAJob DEF TypeInv, AttemptsTypeOK
  <1>3. ASSUME NEW b \in Agents
        PROVE  job'[b] = IF b = a THEN Idle ELSE job[b]
    BY <1>1 DEF TypeInv, AttemptsTypeOK
  <1>4. ASSUME NEW b \in Agents, job'[b].pc = "idle"
        PROVE  ~lease'[b] /\ job'[b].attempt = NoAttempt
    <2>1. CASE b = a
      BY <1>1, <2>1 DEF TypeInv, AttemptsTypeOK, Idle
    <2>2. CASE b # a
      BY <1>1, <1>4, <2>2 DEF TypeInv, AttemptsTypeOK
    <2> QED BY <2>1, <2>2
  <1>5. HasAttempt'
    BY <1>3 DEF TypeInv, HasAttempt, Mine, Idle
  <1> QED
    BY <1>2, <1>4, <1>5

\* A step of an agent inside _execute_mic_task changes its own local state only.
LEMMA JobTypes ==
    ASSUME TypeInv, NEW a \in Agents, NEW j \in Job, job' = [job EXCEPT ![a] = j],
           j.pc # "idle",
           j.pc \in {"blocker", "insert", "examine"} \/ j.attempt \in Attempts,
           lease' = lease
    PROVE  /\ job' \in [Agents -> Job]
           /\ lease' \in [Agents -> BOOLEAN]
           /\ \A b \in Agents : job'[b].pc = "idle" => ~lease'[b] /\ job'[b].attempt = NoAttempt
           /\ HasAttempt'
  <1>1. job' \in [Agents -> Job] /\ lease' \in [Agents -> BOOLEAN]
    BY DEF TypeInv, AttemptsTypeOK
  <1>2. ASSUME NEW b \in Agents
        PROVE  job'[b] = IF b = a THEN j ELSE job[b]
    BY DEF TypeInv, AttemptsTypeOK
  <1>3. ASSUME NEW b \in Agents, job'[b].pc = "idle"
        PROVE  ~lease'[b] /\ job'[b].attempt = NoAttempt
    <2>1. b # a
      BY <1>2, <1>3
    <2> QED BY <1>2, <1>3, <2>1 DEF TypeInv, AttemptsTypeOK
  <1>4. HasAttempt'
    BY <1>2 DEF TypeInv, HasAttempt, Mine
  <1> QED BY <1>1, <1>3, <1>4

LEMMA SignalledTypes ==
    ASSUME TypeInv, NEW x, Signalled(x)
    PROVE  child' \in [Attempts -> {"none", "up"} \cup Results] /\ browser' \in [Attempts -> BOOLEAN]
  BY DEF Signalled, Results, TypeInv, AttemptsTypeOK

LEMMA StepTypes == TypeInv /\ [Next]_vars => TypeInv'
  <1> SUFFICES ASSUME TypeInv, [Next]_vars PROVE TypeInv'
    OBVIOUS
  <1> USE DEF At, GoTo, childVars, taskVars
  <1>a. /\ row \in [Attempts -> Row] /\ job \in [Agents -> Job]
        /\ \A a \in Agents : job[a].pc \in {"close", "beat", "launch", "supervise", "verify",
                                           "recheck", "finish", "fallback", "persist"}
                                  => Mine(a) \in Attempts
    BY DEF TypeInv, AttemptsTypeOK, HasAttempt
  <1>1. ASSUME NEW a \in Agents, NEW t \in Tasks, Begin(a, t) PROVE TypeInv'
    <2>1. job' = [job EXCEPT ![a].pc = "blocker", ![a].task = t] /\ lease' = [lease EXCEPT ![a] = TRUE]
      BY <1>1 DEF Begin
    <2>2. job' \in [Agents -> Job] /\ lease' \in [Agents -> BOOLEAN]
      <3> DEFINE j == [job[a] EXCEPT !.pc = "blocker", !.task = t]
      <3>1. job' = [job EXCEPT ![a] = j]
        BY <2>1, <1>a
      <3>2. job[a] \in Job
        BY <1>a
      <3>3. j \in Job
        BY <3>2 DEF Job, Steps
      <3> HIDE DEF j
      <3> QED BY <2>1, <3>1, <3>3, <1>a DEF TypeInv, AttemptsTypeOK
    <2>3. job'[a].pc = "blocker" /\ \A b \in Agents \ {a} : job'[b] = job[b] /\ lease'[b] = lease[b]
      BY <2>1, <1>a DEF TypeInv, AttemptsTypeOK, Job
    <2>4. \A b \in Agents : job'[b].pc = "idle" => ~lease'[b] /\ job'[b].attempt = NoAttempt
      BY <2>3 DEF TypeInv, AttemptsTypeOK
    <2>5. HasAttempt'
      BY <2>3 DEF TypeInv, HasAttempt, Mine
    <2> QED
      BY <1>1, <2>2, <2>4, <2>5 DEF Begin, TypeInv, AttemptsTypeOK
  <1>2. ASSUME NEW a \in Agents, Blocked(a) PROVE TypeInv'
    <2>1. Return(a)
      BY <1>2 DEF Blocked
    <2>2. row' \in [Attempts -> Row]
      BY <1>2, <1>a, ClosedTypes DEF Blocked, Mine
    <2> QED
      BY <1>2, <2>1, <2>2, ReturnTypes DEF Blocked, TypeInv, AttemptsTypeOK, Job
  <1>3. ASSUME NEW a \in Agents, NotBlocked(a) PROVE TypeInv'
    <2> DEFINE j == [job[a] EXCEPT !.pc = "insert"]
    <2>1. job' = [job EXCEPT ![a] = j] /\ lease' = lease
      BY <1>3, <1>a DEF NotBlocked
    <2>2. j \in Job /\ j.pc # "idle" /\ (j.pc \in {"blocker", "insert", "examine"} \/ j.attempt \in Attempts)
      BY <1>3, <1>a DEF NotBlocked, Job, Steps, Statuses, Mine
    <2>3. row' \in [Attempts -> Row]
      BY <1>3, <1>a, ClosedTypes DEF NotBlocked, Mine
    <2> HIDE DEF j
    <2> QED
      BY <1>3, <2>1, <2>2, <2>3, JobTypes DEF NotBlocked, TypeInv, AttemptsTypeOK
  <1>4. ASSUME NEW a \in Agents, Insert(a) PROVE TypeInv'
    <2> PICK x \in Attempts :
              /\ row' = [row EXCEPT ![x] = [state |-> "starting", task |-> job[a].task,
                                            late |-> FALSE, pid |-> FALSE]]
              /\ job' = [job EXCEPT ![a].pc = "beat", ![a].attempt = x, ![a].retried = FALSE]
      BY <1>4 DEF Insert
    <2> DEFINE j == [job[a] EXCEPT !.pc = "beat", !.attempt = x, !.retried = FALSE]
    <2>1. job' = [job EXCEPT ![a] = j] /\ lease' = lease
      BY <1>4, <1>a DEF Insert, Row, Active, Job
    <2>2. j \in Job /\ j.pc # "idle" /\ (j.pc \in {"blocker", "insert", "examine"} \/ j.attempt \in Attempts)
      <3>1. job[a] \in Job
        BY <1>a
      <3>2. j \in Job
        BY <3>1 DEF Job, Steps
      <3>3. j.pc = "beat" /\ j.attempt = x
        BY <3>1 DEF Job
      <3> QED BY <3>2, <3>3
    <2>3. row' \in [Attempts -> Row]
      BY <1>4, <1>a DEF Insert, Mine, Row, Active, Job
    <2>4. UNCHANGED <<child, browser, saved, settled, reported, crashes>>
      BY <1>4 DEF Insert
    <2> HIDE DEF j
    <2> QED
      BY <2>1, <2>2, <2>3, <2>4, JobTypes DEF TypeInv, AttemptsTypeOK
  <1>5. ASSUME NEW a \in Agents, InsertRefused(a) PROVE TypeInv'
    <2> DEFINE j == [job[a] EXCEPT !.pc = "examine"]
    <2>1. job' = [job EXCEPT ![a] = j] /\ lease' = lease
      BY <1>5, <1>a DEF InsertRefused
    <2>2. j \in Job /\ j.pc # "idle" /\ (j.pc \in {"blocker", "insert", "examine"} \/ j.attempt \in Attempts)
      BY <1>5, <1>a DEF InsertRefused, Job, Steps, Statuses, Mine
    <2>3. row' \in [Attempts -> Row]
      BY <1>5, <1>a DEF InsertRefused, Mine
    <2> HIDE DEF j
    <2> QED
      BY <1>5, <2>1, <2>2, <2>3, JobTypes DEF InsertRefused, TypeInv, AttemptsTypeOK
  <1>6. ASSUME NEW a \in Agents, Examine(a) PROVE TypeInv'
    <2>1. CASE job' = [job EXCEPT ![a].pc = "insert", ![a].retried = TRUE] /\ lease' = lease
      <3> DEFINE j == [job[a] EXCEPT !.pc = "insert", !.retried = TRUE]
      <3>1. job' = [job EXCEPT ![a] = j] /\ lease' = lease
        BY <1>6, <2>1, <1>a DEF Examine
      <3>2. j \in Job /\ j.pc # "idle" /\ (j.pc \in {"blocker", "insert", "examine"} \/ j.attempt \in Attempts)
        BY <1>6, <2>1, <1>a DEF Examine, Job, Steps, Statuses, Mine
      <3>3. row' \in [Attempts -> Row]
        BY <1>6, <2>1, <1>a DEF Examine, Mine
      <3> HIDE DEF j
      <3> QED
        BY <1>6, <2>1, <3>1, <3>2, <3>3, JobTypes DEF Examine, TypeInv, AttemptsTypeOK
    <2>2. ASSUME NEW x \in Attempts, job' = [job EXCEPT ![a].pc = "close", ![a].attempt = x], lease' = lease
          PROVE  TypeInv'
      <3> DEFINE j == [job[a] EXCEPT !.pc = "close", !.attempt = x]
      <3>1. job' = [job EXCEPT ![a] = j] /\ lease' = lease
        BY <1>6, <2>2, <1>a DEF Examine
      <3>2. j \in Job /\ j.pc # "idle" /\ (j.pc \in {"blocker", "insert", "examine"} \/ j.attempt \in Attempts)
        <4>1. job[a] \in Job
          BY <1>a
        <4>2. j \in Job
          BY <4>1 DEF Job, Steps
        <4>3. j.pc = "close" /\ j.attempt = x
          BY <4>1 DEF Job
        <4> QED BY <4>2, <4>3
      <3>3. row' \in [Attempts -> Row]
        BY <1>6, <2>2, <1>a DEF Examine, Mine
      <3>4. UNCHANGED <<child, browser, saved, settled, reported, crashes>>
        BY <1>6 DEF Examine
      <3> HIDE DEF j
      <3> QED
        BY <3>1, <3>2, <3>3, <3>4, JobTypes DEF TypeInv, AttemptsTypeOK
    <2>3. CASE Return(a)
      <3>1. Return(a)
        BY <1>6, <2>3 DEF Examine
      <3>2. row' \in [Attempts -> Row]
        BY <1>6, <2>3, <1>a DEF Examine, Mine
      <3> QED
        BY <1>6, <2>3, <3>1, <3>2, ReturnTypes DEF Examine, TypeInv, AttemptsTypeOK
    <2> QED BY <1>6, <2>1, <2>2, <2>3 DEF Examine, ActiveOf
  <1>7. ASSUME NEW a \in Agents, CloseStale(a) PROVE TypeInv'
    <2>1. CASE Return(a)
      <3>1. Return(a)
        BY <1>7, <2>1 DEF CloseStale
      <3>2. row' \in [Attempts -> Row]
        BY <1>7, <2>1, <1>a, FinishedTypes DEF CloseStale, Mine, Ended
      <3> QED
        BY <1>7, <2>1, <3>1, <3>2, ReturnTypes DEF CloseStale, TypeInv, AttemptsTypeOK, Ended
    <2>2. CASE job' = [job EXCEPT ![a].pc = "insert", ![a].attempt = NoAttempt, ![a].retried = TRUE]
                 /\ lease' = lease
      <3> DEFINE j == [job[a] EXCEPT !.pc = "insert", !.attempt = NoAttempt, !.retried = TRUE]
      <3>1. job' = [job EXCEPT ![a] = j] /\ lease' = lease
        BY <1>7, <2>2, <1>a DEF CloseStale, Ended
      <3>2. j \in Job /\ j.pc # "idle" /\ (j.pc \in {"blocker", "insert", "examine"} \/ j.attempt \in Attempts)
        BY <1>7, <2>2, <1>a DEF CloseStale, Job, Steps, Statuses, Mine
      <3>3. row' \in [Attempts -> Row]
        BY <1>7, <2>2, <1>a, FinishedTypes DEF CloseStale, Mine, Ended
      <3> HIDE DEF j
      <3> QED
        BY <1>7, <2>2, <3>1, <3>2, <3>3, JobTypes DEF CloseStale, TypeInv, AttemptsTypeOK, Ended
    <2> QED BY <1>7, <2>1, <2>2 DEF CloseStale
  <1>b. \A a \in Agents : Noticed(a) \in BOOLEAN
    BY DEF Noticed
  <1>8. ASSUME NEW a \in Agents, FirstBeat(a) PROVE TypeInv'
    <2> DEFINE r == Noticed(a)
               j == [job[a] EXCEPT !.pc = "launch", !.revoked = r]
    <2>1. job' = [job EXCEPT ![a] = j] /\ lease' = lease
      BY <1>8, <1>a DEF FirstBeat, KeepAliveWrites
    <2>2. r \in BOOLEAN
      BY <1>b
    <2> HIDE DEF r
    <2>3. j \in Job /\ j.pc \in {"launch"} /\ j.attempt \in Attempts
      BY <1>8, <2>2, <1>a DEF FirstBeat, Job, Steps, Mine
    <2>4. row' \in [Attempts -> Row]
      BY <1>8, <1>a, BeatTypes DEF FirstBeat, KeepAliveWrites
    <2> HIDE DEF j
    <2> QED
      BY <1>8, <2>1, <2>3, <2>4, JobTypes DEF FirstBeat, KeepAliveWrites, TypeInv, AttemptsTypeOK
  <1>9. ASSUME NEW a \in Agents, KeepAlive(a) PROVE TypeInv'
    <2> DEFINE r == Noticed(a)
               j == [job[a] EXCEPT !.revoked = r]
    <2>1. job' = [job EXCEPT ![a] = j] /\ lease' = lease
      BY <1>9, <1>a DEF KeepAlive, KeepAliveWrites
    <2>2. r \in BOOLEAN
      BY <1>b
    <2> HIDE DEF r
    <2>3. j \in Job /\ j.pc \in {"launch", "supervise", "verify"} /\ j.attempt \in Attempts
      BY <1>9, <2>2, <1>a DEF KeepAlive, Job, Steps, Mine
    <2>4. row' \in [Attempts -> Row]
      BY <1>9, <1>a, BeatTypes DEF KeepAlive, KeepAliveWrites
    <2> HIDE DEF j
    <2> QED
      BY <1>9, <2>1, <2>3, <2>4, JobTypes DEF KeepAlive, KeepAliveWrites, TypeInv, AttemptsTypeOK
  <1>10. ASSUME NEW a \in Agents, Recheck(a) PROVE TypeInv'
    <2> DEFINE r == Noticed(a)
               j == [job[a] EXCEPT !.pc = "finish", !.revoked = r]
    <2>1. job' = [job EXCEPT ![a] = j] /\ lease' = lease
      BY <1>10, <1>a DEF Recheck, KeepAliveWrites
    <2>2. r \in BOOLEAN
      BY <1>b
    <2> HIDE DEF r
    <2>3. j \in Job /\ j.pc \in {"finish"} /\ j.attempt \in Attempts
      BY <1>10, <2>2, <1>a DEF Recheck, Job, Steps, Mine
    <2>4. row' \in [Attempts -> Row]
      BY <1>10, <1>a, BeatTypes DEF Recheck, KeepAliveWrites
    <2> HIDE DEF j
    <2> QED
      BY <1>10, <2>1, <2>3, <2>4, JobTypes DEF Recheck, KeepAliveWrites, TypeInv, AttemptsTypeOK
  <1>11. ASSUME NEW a \in Agents, RevokedBeforeLaunch(a) PROVE TypeInv'
    <2>1. Return(a)
      BY <1>11 DEF RevokedBeforeLaunch
    <2>2. row' \in [Attempts -> Row]
      BY <1>11, <1>a DEF RevokedBeforeLaunch, Mine
    <2> QED
      BY <1>11, <2>1, <2>2, ReturnTypes DEF RevokedBeforeLaunch, TypeInv, AttemptsTypeOK
  <1>12. ASSUME NEW a \in Agents, Launch(a) PROVE TypeInv'
    <2>1. CASE job' = [job EXCEPT ![a].pc = "supervise"]
      <3> DEFINE j == [job[a] EXCEPT !.pc = "supervise"]
      <3>1. job' = [job EXCEPT ![a] = j] /\ lease' = lease
        BY <1>12, <2>1, <1>a DEF Launch
      <3>2. j \in Job /\ j.pc # "idle" /\ (j.pc \in {"blocker", "insert", "examine"} \/ j.attempt \in Attempts)
        BY <1>12, <2>1, <1>a DEF Launch, Job, Steps, Statuses, Mine
      <3>3. row' \in [Attempts -> Row]
        BY <1>12, <2>1, <1>a, BeatTypes DEF Launch, Mine
      <3> HIDE DEF j
      <3> QED
        BY <1>12, <2>1, <3>1, <3>2, <3>3, JobTypes DEF Launch, TypeInv, AttemptsTypeOK
    <2>2. CASE job' = [job EXCEPT ![a].pc = "recheck", ![a].status = "failed"]
      <3> DEFINE j == [job[a] EXCEPT !.pc = "recheck", !.status = "failed"]
      <3>1. job' = [job EXCEPT ![a] = j] /\ lease' = lease
        BY <1>12, <2>2, <1>a DEF Launch
      <3>2. j \in Job /\ j.pc # "idle" /\ (j.pc \in {"blocker", "insert", "examine"} \/ j.attempt \in Attempts)
        BY <1>12, <2>2, <1>a DEF Launch, Job, Steps, Statuses, Mine
      <3>3. row' \in [Attempts -> Row]
        BY <1>12, <2>2, <1>a, BeatTypes DEF Launch, Mine
      <3> HIDE DEF j
      <3> QED
        BY <1>12, <2>2, <3>1, <3>2, <3>3, JobTypes DEF Launch, TypeInv, AttemptsTypeOK
    <2> QED BY <1>12, <2>1, <2>2 DEF Launch
  <1>13. ASSUME NEW a \in Agents, ChildExited(a) PROVE TypeInv'
    <2> DEFINE j == [job[a] EXCEPT !.pc = "verify"]
    <2>1. job' = [job EXCEPT ![a] = j] /\ lease' = lease
      BY <1>13, <1>a DEF ChildExited
    <2>2. j \in Job /\ j.pc # "idle" /\ (j.pc \in {"blocker", "insert", "examine"} \/ j.attempt \in Attempts)
      BY <1>13, <1>a DEF ChildExited, Job, Steps, Statuses, Mine
    <2>3. row' \in [Attempts -> Row]
      BY <1>13, <1>a DEF ChildExited, Mine
    <2> HIDE DEF j
    <2> QED
      BY <1>13, <2>1, <2>2, <2>3, JobTypes DEF ChildExited, TypeInv, AttemptsTypeOK
  <1>14. ASSUME NEW a \in Agents, CancelChild(a) PROVE TypeInv'
    <2> DEFINE j == [job[a] EXCEPT !.pc = "verify", !.stop = "cancelled"]
    <2>1. job' = [job EXCEPT ![a] = j] /\ lease' = lease
      BY <1>14, <1>a DEF CancelChild, StopChild
    <2>2. j \in Job /\ j.pc # "idle" /\ (j.pc \in {"blocker", "insert", "examine"} \/ j.attempt \in Attempts)
      BY <1>14, <1>a DEF CancelChild, Job, Steps, Statuses, Mine, StopChild
    <2>3. row' \in [Attempts -> Row]
      BY <1>14, <1>a DEF CancelChild, Mine, StopChild
    <2>4. child' \in [Attempts -> {"none", "up"} \cup Results] /\ browser' \in [Attempts -> BOOLEAN]
      BY <1>14, SignalledTypes DEF CancelChild, StopChild
    <2>5. UNCHANGED <<saved, settled, reported, crashes>>
      BY <1>14 DEF CancelChild, StopChild
    <2> HIDE DEF j
    <2> QED
      BY <2>1, <2>2, <2>3, <2>4, <2>5, JobTypes DEF TypeInv, AttemptsTypeOK
  <1>15. ASSUME NEW a \in Agents, TimeOut(a) PROVE TypeInv'
    <2> DEFINE j == [job[a] EXCEPT !.pc = "verify", !.stop = "timed_out"]
    <2>1. job' = [job EXCEPT ![a] = j] /\ lease' = lease
      BY <1>15, <1>a DEF TimeOut, StopChild
    <2>2. j \in Job /\ j.pc # "idle" /\ (j.pc \in {"blocker", "insert", "examine"} \/ j.attempt \in Attempts)
      BY <1>15, <1>a DEF TimeOut, Job, Steps, Statuses, Mine, StopChild
    <2>3. row' \in [Attempts -> Row]
      BY <1>15, <1>a DEF TimeOut, Mine, StopChild
    <2>4. child' \in [Attempts -> {"none", "up"} \cup Results] /\ browser' \in [Attempts -> BOOLEAN]
      BY <1>15, SignalledTypes DEF TimeOut, StopChild
    <2>5. UNCHANGED <<saved, settled, reported, crashes>>
      BY <1>15 DEF TimeOut, StopChild
    <2> HIDE DEF j
    <2> QED
      BY <2>1, <2>2, <2>3, <2>4, <2>5, JobTypes DEF TypeInv, AttemptsTypeOK
  <1>16. ASSUME NEW a \in Agents, StopFails(a) PROVE TypeInv'
    <2> DEFINE j == [job[a] EXCEPT !.pc = "recheck"]
    <2>1. job' = [job EXCEPT ![a] = j] /\ lease' = lease
      BY <1>16, <1>a DEF StopFails
    <2>2. j \in Job /\ j.pc # "idle" /\ (j.pc \in {"blocker", "insert", "examine"} \/ j.attempt \in Attempts)
      BY <1>16, <1>a DEF StopFails, Job, Steps, Statuses, Mine
    <2>3. row' \in [Attempts -> Row]
      BY <1>16, <1>a DEF StopFails, Mine
    <2> HIDE DEF j
    <2> QED
      BY <1>16, <2>1, <2>2, <2>3, JobTypes DEF StopFails, TypeInv, AttemptsTypeOK
  <1>17. ASSUME NEW a \in Agents, VerifyCleanup(a) PROVE TypeInv'
    <2>1. PICK s \in Statuses : job' = [job EXCEPT ![a].pc = "recheck", ![a].status = s, ![a].stop = "none"]
      <3> DEFINE x == Mine(a)
                 gone == child'[x] \in Results /\ ~browser'[x]
      <3>1. PICK s \in {"cleanup_incomplete"} \cup (IF gone THEN {OutcomeOf(a, child'[x])} ELSE {}) :
                job' = [job EXCEPT ![a].pc = "recheck", ![a].status = s, ![a].stop = "none"]
        BY <1>17 DEF VerifyCleanup
      <3>2. gone => OutcomeOf(a, child'[x]) \in Statuses
        BY <1>a DEF OutcomeOf, Results, Statuses, Job
      <3>3. s \in Statuses
        BY <3>1, <3>2 DEF Statuses
      <3> QED BY <3>1, <3>3
    <2> DEFINE j == [job[a] EXCEPT !.pc = "recheck", !.status = s, !.stop = "none"]
    <2>2. job' = [job EXCEPT ![a] = j] /\ lease' = lease
      BY <1>17, <2>1, <1>a DEF VerifyCleanup
    <2>3. j \in Job /\ j.pc # "idle" /\ (j.pc \in {"blocker", "insert", "examine"} \/ j.attempt \in Attempts)
      <3>1. job[a] \in Job /\ Mine(a) \in Attempts
        BY <1>17, <1>a DEF VerifyCleanup
      <3>2. j \in Job
        BY <3>1 DEF Job, Steps
      <3>3. j.pc = "recheck" /\ j.attempt = Mine(a)
        BY <3>1 DEF Job, Mine
      <3> QED BY <3>1, <3>2, <3>3
    <2>4. row' \in [Attempts -> Row]
      BY <1>17, <2>1, <1>a DEF VerifyCleanup, Mine
    <2>5. child' \in [Attempts -> {"none", "up"} \cup Results] /\ browser' \in [Attempts -> BOOLEAN]
      BY <1>17, SignalledTypes DEF VerifyCleanup
    <2>6. UNCHANGED <<saved, settled, reported, crashes>>
      BY <1>17 DEF VerifyCleanup
    <2> HIDE DEF j
    <2> QED
      BY <2>2, <2>3, <2>4, <2>5, <2>6, JobTypes DEF TypeInv, AttemptsTypeOK
  <1>c. \A a \in Agents : /\ \A r : AttemptState(job[a].status, r) \in Ended
                           /\ KnowsPid(a) \in BOOLEAN
    BY DEF AttemptState, KnowsPid, Ended
  <1>18. ASSUME NEW a \in Agents, Finish(a) PROVE TypeInv'
    <2>1. row' \in [Attempts -> Row]
      BY <1>18, <1>a, <1>c, FinishedTypes DEF Finish
    <2>2. ASSUME NEW pc \in {"fallback", "persist"}, GoTo(a, pc), UNCHANGED <<lease, reported>>
          PROVE  TypeInv'
      <3> DEFINE j == [job[a] EXCEPT !.pc = pc]
      <3>1. job' = [job EXCEPT ![a] = j] /\ lease' = lease
        BY <2>2, <1>a
      <3>2. j \in Job /\ j.pc \in {"fallback", "persist"} /\ j.attempt \in Attempts
        BY <1>18, <1>a DEF Finish, Job, Steps, Mine
      <3> HIDE DEF j
      <3> QED
        BY <1>18, <2>1, <2>2, <3>1, <3>2, JobTypes DEF Finish, TypeInv, AttemptsTypeOK
    <2>3. CASE Return(a) /\ Report(a)
      BY <1>18, <2>1, <2>3, <1>a, ReturnTypes DEF Finish, Report, TypeInv, AttemptsTypeOK
    <2> QED BY <1>18, <2>2, <2>3 DEF Finish
  <1>19. ASSUME NEW a \in Agents, Fallback(a) PROVE TypeInv'
    <2>1. row' \in [Attempts -> Row]
      BY <1>19, <1>a, <1>c, FinishedTypes DEF Fallback
    <2> QED
      BY <1>19, <2>1, <1>a, ReturnTypes DEF Fallback, Report, TypeInv, AttemptsTypeOK
  <1>20. ASSUME NEW a \in Agents, Persist(a) PROVE TypeInv'
    <2>1. Return(a) /\ Report(a) /\ UNCHANGED <<row, crashes, child, browser>>
      BY <1>20 DEF Persist
    <2>2. saved' \in [Attempts -> {"none", "success", "failed"}] /\ settled' \subseteq Tasks
      BY <1>20, <1>a DEF Persist, Job, TypeInv, AttemptsTypeOK
    <2> QED
      BY <1>20, <2>1, <2>2, <1>a, ReturnTypes DEF Persist, Report, TypeInv, AttemptsTypeOK
  <1>21. ASSUME NEW a \in Agents, AgentDies(a) PROVE TypeInv'
    <2>1. Return(a)
      BY <1>21 DEF AgentDies
    <2>2. row' \in [Attempts -> Row]
      BY <1>21, <1>a DEF AgentDies, Mine
    <2> QED
      BY <1>21, <2>1, <2>2, ReturnTypes, AttemptsAssumption DEF AgentDies, TypeInv, AttemptsTypeOK
  <1>22. ASSUME NEW a \in Agents, LoseDelivery(a) PROVE TypeInv'
    BY <1>22 DEF LoseDelivery, TypeInv, AttemptsTypeOK, HasAttempt, Mine
  <1>23. ASSUME NEW x \in Attempts, Child(x) PROVE TypeInv'
    BY <1>23 DEF Child, OpenBrowser, ChildEnds, BrowserEnds, Results, TypeInv, AttemptsTypeOK, HasAttempt, Mine
  <1>24. ASSUME NEW x \in Attempts, HeartbeatAges(x) PROVE TypeInv'
    <2>1. row' \in [Attempts -> Row]
      BY <1>24, <1>a DEF HeartbeatAges, Row, Active
    <2> QED
      BY <1>24, <2>1 DEF HeartbeatAges, TypeInv, AttemptsTypeOK, HasAttempt, Mine
  <1>25. ASSUME NEW x \in Attempts, OperatorCancels(x) PROVE TypeInv'
    <2>1. row' \in [Attempts -> Row]
      BY <1>25, <1>a DEF OperatorCancels, Row, Active
    <2> QED
      BY <1>25, <2>1 DEF OperatorCancels, TypeInv, AttemptsTypeOK, HasAttempt, Mine
  <1>26. ASSUME NEW x \in Attempts, OperatorEnds(x) PROVE TypeInv'
    <2>1. row' \in [Attempts -> Row]
      BY <1>26, <1>a, FinishedTypes DEF OperatorEnds, Ended
    <2> QED
      BY <1>26, <2>1 DEF OperatorEnds, TypeInv, AttemptsTypeOK, HasAttempt, Mine
  <1>27. CASE UNCHANGED vars
    BY <1>27 DEF vars, TypeInv, AttemptsTypeOK, HasAttempt, Mine
  <1> QED
    BY <1>1, <1>2, <1>3, <1>4, <1>5, <1>6, <1>7, <1>8, <1>9, <1>10, <1>11, <1>12, <1>13, <1>14, <1>15, <1>16, <1>17, <1>18, <1>19, <1>20, <1>21, <1>22, <1>23, <1>24, <1>25, <1>26, <1>27 DEF Next, Execute

\* Every row, child, lease and verdict keeps its kind, an agent between two deliveries holds
\* nothing, and one past the insertion has an attempt.
THEOREM AttemptsTypes == Spec => []AttemptsTypeOK
  <1>1. Spec => []TypeInv
    BY InitTypes, StepTypes, PTL DEF Spec
  <1>2. TypeInv => AttemptsTypeOK
    BY DEF TypeInv
  <1> QED BY <1>1, <1>2, PTL

-----------------------------------------------------------------------------
(* What a step may do to the row of an attempt that has ended.             *)

EndedKept ==
    \A x \in Attempts :
         /\ row[x].state \in {"completed", "failed"} => row'[x].state = row[x].state
         /\ row[x].state \in {"cancelled", "interrupted"} =>
                row'[x].state \in {row[x].state, "cleanup_incomplete"}
         /\ row[x].state = "cleanup_incomplete" => row'[x].state \in {"cleanup_incomplete", "interrupted"}

\* The repository's updates touch the state of the row they name and of no other, and only
\* from the states they expect.
LEMMA FinishedState ==
    ASSUME row \in [Attempts -> Row], NEW x \in Attempts, NEW s, NEW pid, NEW expected,
           NEW y \in Attempts
    PROVE  Finished(x, s, pid, expected)[y].state =
               IF y = x /\ row[x].state \in expected THEN s ELSE row[y].state
  <1>1. CASE row[x].state \notin expected
    BY <1>1, Zenon DEF Finished
  <1>2. CASE row[x].state \in expected
    <2> DEFINE p == row[x].pid \/ pid
               r == [row[x] EXCEPT !.state = s, !.late = FALSE, !.pid = p]
    <2>1. Finished(x, s, pid, expected) = [row EXCEPT ![x] = r]
      BY <1>2, Zenon DEF Finished
    <2>2. r.state = s
      <3> HIDE DEF p
      <3> QED BY DEF Row
    <2> HIDE DEF r
    <2> QED BY <1>2, <2>1, <2>2
  <1> QED BY <1>1, <1>2

LEMMA BeatState ==
    ASSUME row \in [Attempts -> Row], NEW x \in Attempts, NEW y \in Attempts,
           row[y].state \in Ended
    PROVE  Beat(x)[y].state = row[y].state
  BY DEF Beat, Row, Ended

LEMMA ClosedState ==
    ASSUME row \in [Attempts -> Row], NEW S, NEW y \in Attempts
    PROVE  Closed(S)[y].state = IF y \in S THEN "interrupted" ELSE row[y].state
  BY DEF Closed, Row

LEMMA EndedStep == TypeInv /\ [Next]_vars => EndedKept
  <1> SUFFICES ASSUME TypeInv, [Next]_vars PROVE EndedKept
    OBVIOUS
  <1>a. /\ row \in [Attempts -> Row]
        /\ \A a \in Agents : job[a].pc \in {"close", "beat", "launch", "supervise", "verify",
                                           "recheck", "finish", "fallback", "persist"}
                                  => Mine(a) \in Attempts
    BY DEF TypeInv, AttemptsTypeOK, HasAttempt
  <1>b. ASSUME row' = row PROVE EndedKept
    BY <1>b DEF EndedKept
  <1>c. ASSUME NEW x \in Attempts, row' = Beat(x) PROVE EndedKept
    BY <1>a, <1>c, BeatState DEF EndedKept, Ended
  <1>d. ASSUME NEW x \in Attempts, NEW s, NEW pid, row' = Finished(x, s, pid, Active)
        PROVE  EndedKept
    BY <1>a, <1>d, FinishedState DEF EndedKept, Active
  <1>e. ASSUME NEW S \in SUBSET Uncleaned, row' = Closed(S) PROVE EndedKept
    BY <1>a, <1>e, ClosedState DEF EndedKept, Uncleaned
  <1>1. ASSUME NEW a \in Agents, Blocked(a) \/ NotBlocked(a) PROVE EndedKept
    <2>1. PICK S \in SUBSET Uncleaned : row' = Closed(S)
      BY <1>1 DEF Blocked, NotBlocked
    <2> QED BY <2>1, <1>e
  <1>2. ASSUME NEW a \in Agents, Insert(a) PROVE EndedKept
    <2>1. PICK x \in Attempts :
              /\ row[x].state = "absent"
              /\ row' = [row EXCEPT ![x] = [state |-> "starting", task |-> job[a].task,
                                            late |-> FALSE, pid |-> FALSE]]
      BY <1>2 DEF Insert
    <2> QED BY <2>1, <1>a DEF EndedKept
  <1>3. ASSUME NEW a \in Agents, CloseStale(a) PROVE EndedKept
    <2>1. Mine(a) \in Attempts /\ row' = Finished(Mine(a), "interrupted", FALSE, Active)
      BY <1>3, <1>a DEF CloseStale, At
    <2> QED BY <2>1, <1>d
  <1>4. ASSUME NEW a \in Agents, FirstBeat(a) \/ KeepAlive(a) \/ Launch(a) PROVE EndedKept
    <2>1. Mine(a) \in Attempts /\ row' = Beat(Mine(a))
      BY <1>4, <1>a DEF FirstBeat, KeepAlive, Launch, KeepAliveWrites, At
    <2> QED BY <2>1, <1>c
  <1>5. ASSUME NEW a \in Agents, Finish(a) PROVE EndedKept
    <2>1. PICK s, pid : row' = Finished(Mine(a), s, pid, FinishStates(a))
      BY <1>5 DEF Finish
    <2>2. Mine(a) \in Attempts
      BY <1>5, <1>a DEF Finish, At
    <2> QED BY <2>1, <2>2, <1>a, FinishedState DEF EndedKept, FinishStates
  <1>6. ASSUME NEW a \in Agents, Fallback(a) PROVE EndedKept
    <2> DEFINE s == AttemptState(job[a].status, TRUE)
    <2>1. row' = Finished(Mine(a), s, KnowsPid(a), FallbackStates(a)) /\ Mine(a) \in Attempts
      BY <1>6, <1>a DEF Fallback, At
    <2>2. FallbackStates(a) \subseteq {"cancelling"} \/ s = "cleanup_incomplete"
      BY DEF FallbackStates, AttemptState
    <2>3. FallbackStates(a) \subseteq {"cancelling", "cancelled", "interrupted"}
      BY DEF FallbackStates
    <2> HIDE DEF s
    <2>4. ASSUME NEW y \in Attempts
          PROVE  row'[y].state = IF y = Mine(a) /\ row[Mine(a)].state \in FallbackStates(a)
                                 THEN s ELSE row[y].state
      BY <2>1, <1>a, FinishedState
    <2> QED BY <2>2, <2>3, <2>4 DEF EndedKept
  <1>7. ASSUME NEW x \in Attempts, HeartbeatAges(x) PROVE EndedKept
    <2>1. row' = [row EXCEPT ![x].late = TRUE]
      BY <1>7 DEF HeartbeatAges
    <2> QED BY <2>1, <1>a DEF EndedKept, Row
  <1>8. ASSUME NEW x \in Attempts, OperatorCancels(x) PROVE EndedKept
    BY <1>8, <1>a DEF OperatorCancels, EndedKept, Row
  <1>9. ASSUME NEW x \in Attempts, OperatorEnds(x) PROVE EndedKept
    BY <1>9, <1>d DEF OperatorEnds
  <1>10. ASSUME NEW a \in Agents,
                \/ \E t \in Tasks : Begin(a, t)
                \/ InsertRefused(a) \/ Examine(a) \/ RevokedBeforeLaunch(a) \/ ChildExited(a)
                \/ CancelChild(a) \/ TimeOut(a) \/ StopFails(a) \/ VerifyCleanup(a)
                \/ Recheck(a) \/ Persist(a) \/ LoseDelivery(a) \/ AgentDies(a)
         PROVE  EndedKept
    <2>1. row' = row
      BY <1>10 DEF Begin, InsertRefused, Examine, RevokedBeforeLaunch, ChildExited, CancelChild,
                   TimeOut, StopChild, StopFails, VerifyCleanup, Recheck, Persist, LoseDelivery,
                   AgentDies
    <2> QED BY <2>1, <1>b
  <1>11. ASSUME NEW x \in Attempts, Child(x) PROVE EndedKept
    BY <1>11, <1>b DEF Child, OpenBrowser, ChildEnds, BrowserEnds
  <1>12. CASE UNCHANGED vars
    BY <1>12, <1>b DEF vars
  <1> QED
    BY <1>1, <1>2, <1>3, <1>4, <1>5, <1>6, <1>7, <1>8, <1>9, <1>10, <1>11, <1>12
       DEF Next, Execute

\* No late heartbeat or finish revives or overwrites an attempt that ended, whoever sends
\* it: completed and failed are final, a revocation gives way only to the evidence of a
\* failed cleanup, and that is only ever closed.
THEOREM EndedStaysEnded == Spec => EndedAttemptStaysEnded
  <1>1. Spec => []TypeInv
    BY InitTypes, StepTypes, PTL DEF Spec
  <1>2. TypeInv /\ [Next]_vars => [EndedKept]_vars
    BY EndedStep
  <1>3. []TypeInv /\ [][Next]_vars => [][EndedKept]_vars
    BY <1>2, PTL
  <1> QED BY <1>1, <1>3 DEF Spec, EndedAttemptStaysEnded, EndedKept

-----------------------------------------------------------------------------
(* A saved success has its completed attempt.                              *)

\* Between Finish and Persist the success is in the agent's hand; the row already says so.
SuccessInHand ==
    \A a \in Agents : job[a].pc = "persist" /\ job[a].status = "completed"
                          => row[Mine(a)].state = "completed"

SuccessInv == TypeInv /\ SuccessInHand /\ SuccessIsFromCompletedAttempt

\* An agent that is not finishing an attempt comes by no success.
LEMMA HandKept ==
    ASSUME SuccessInv, EndedKept, NEW a \in Agents,
           \A b \in Agents : job'[b].pc = "persist" => job'[b] = job[b]
    PROVE  SuccessInHand'
  BY DEF SuccessInv, TypeInv, HasAttempt, SuccessInHand, EndedKept, Mine

\* Only Finish leads to Persist.
LEMMA OnlyFinishPersists ==
    ASSUME TypeInv, NEW a \in Agents, NEW b \in Agents, job'[b].pc = "persist",
           \/ \E t \in Tasks : Begin(a, t)
           \/ Execute(a) /\ ~Finish(a)
           \/ KeepAlive(a) \/ TimeOut(a) \/ StopFails(a) \/ LoseDelivery(a) \/ AgentDies(a)
    PROVE  job'[b] = job[b]
  <1>j. job \in [Agents -> Job]
    BY DEF TypeInv, AttemptsTypeOK
  <1>1. CASE \E t \in Tasks : Begin(a, t)
    BY <1>1, <1>j DEF Begin, Job
  <1>2. CASE Blocked(a) \/ RevokedBeforeLaunch(a) \/ Fallback(a) \/ Persist(a) \/ AgentDies(a)
    <2>1. Return(a)
      BY <1>2 DEF Blocked, RevokedBeforeLaunch, Fallback, Persist, AgentDies
    <2> QED BY <2>1, <1>j DEF Return, Idle
  <1>3. CASE NotBlocked(a) \/ InsertRefused(a) \/ ChildExited(a) \/ StopFails(a)
    BY <1>3, <1>j DEF NotBlocked, InsertRefused, ChildExited, StopFails, GoTo, Job
  <1>4. CASE Insert(a)
    BY <1>4, <1>j DEF Insert, Job
  <1>5. CASE Examine(a)
    BY <1>5, <1>j DEF Examine, Return, Idle, Job
  <1>6. CASE CloseStale(a)
    BY <1>6, <1>j DEF CloseStale, Return, Idle, Job
  <1>7. CASE FirstBeat(a)
    BY <1>7, <1>j DEF FirstBeat, Job
  <1>8. CASE KeepAlive(a)
    <2> DEFINE r == Noticed(a)
    <2>1. job' = [job EXCEPT ![a].revoked = r] /\ job[a].pc # "persist"
      BY <1>8 DEF KeepAlive
    <2> HIDE DEF r
    <2> QED BY <2>1, <1>j DEF Job
  <1>9. CASE Launch(a)
    BY <1>9, <1>j DEF Launch, GoTo, Job
  <1>10. CASE CancelChild(a) \/ TimeOut(a)
    BY <1>10, <1>j DEF CancelChild, TimeOut, StopChild, Job
  <1>11. CASE VerifyCleanup(a)
    BY <1>11, <1>j DEF VerifyCleanup, Job
  <1>12. CASE Recheck(a)
    BY <1>12, <1>j DEF Recheck, Job
  <1>13. CASE LoseDelivery(a)
    BY <1>13, <1>j DEF LoseDelivery
  <1> QED
    BY <1>1, <1>2, <1>3, <1>4, <1>5, <1>6, <1>7, <1>8, <1>9, <1>10, <1>11, <1>12, <1>13 DEF Execute

LEMMA SuccessStep == SuccessInv /\ [Next]_vars => SuccessInv'
  <1> SUFFICES ASSUME SuccessInv, [Next]_vars PROVE SuccessInv'
    OBVIOUS
  <1>t. TypeInv /\ TypeInv'
    BY StepTypes DEF SuccessInv
  <1>e. EndedKept
    BY EndedStep DEF SuccessInv
  <1>j. job \in [Agents -> Job]
    BY DEF SuccessInv, TypeInv, AttemptsTypeOK
  <1>1. ASSUME NEW a \in Agents, Finish(a) PROVE SuccessInHand'
    <2>1. PICK s, pid : /\ row' = Finished(Mine(a), s, pid, FinishStates(a))
                        /\ s = AttemptState(job[a].status, job[a].revoked)
      BY <1>1 DEF Finish
    <2>2. Mine(a) \in Attempts
      BY <1>1, <1>t DEF Finish, At, TypeInv, HasAttempt
    <2>3. ASSUME NEW b \in Agents, b # a PROVE job'[b] = job[b]
      BY <1>1, <1>j, <2>3 DEF Finish, GoTo, Return
    <2>4. ASSUME job'[a].pc = "persist" /\ job'[a].status = "completed"
          PROVE  row'[Mine(a)].state = "completed" /\ Mine(a)' = Mine(a)
      <3>1. GoTo(a, "persist") /\ ~job[a].revoked /\ row[Mine(a)].state \in FinishStates(a)
        <4>1. CASE GoTo(a, "fallback")
          BY <4>1, <1>j, <2>4 DEF GoTo, Job
        <4>2. CASE Return(a)
          BY <4>2, <1>j, <2>4 DEF Return, Idle
        <4> QED BY <1>1, <4>1, <4>2 DEF Finish
      <3>2. job[a].status = "completed" /\ Mine(a)' = Mine(a)
        BY <3>1, <2>4, <1>j DEF GoTo, Job, Mine
      <3>3. s = "completed"
        BY <2>1, <3>1, <3>2 DEF AttemptState
      <3> QED
        BY <2>1, <2>2, <3>1, <3>2, <3>3, <1>t, FinishedState DEF TypeInv, AttemptsTypeOK
    <2> QED
      BY <2>3, <2>4, <1>e, <1>t DEF SuccessInHand, SuccessInv, EndedKept, Mine, TypeInv, HasAttempt
  <1>2. ASSUME NEW a \in Agents,
               \/ \E t \in Tasks : Begin(a, t)
               \/ Execute(a) /\ ~Finish(a)
               \/ KeepAlive(a) \/ TimeOut(a) \/ StopFails(a) \/ LoseDelivery(a) \/ AgentDies(a)
        PROVE  SuccessInHand'
    <2>1. ASSUME NEW b \in Agents, job'[b].pc = "persist" PROVE job'[b] = job[b]
      BY <1>2, <2>1, <1>t, OnlyFinishPersists
    <2> QED BY <2>1, <1>e, HandKept
  <1>4. ASSUME job' = job PROVE SuccessInHand'
    BY <1>4, <1>e DEF SuccessInv, TypeInv, HasAttempt, SuccessInHand, EndedKept, Mine
  <1>5. ASSUME NEW x \in Attempts,
               Child(x) \/ HeartbeatAges(x) \/ OperatorCancels(x) \/ OperatorEnds(x)
        PROVE  SuccessInHand'
    BY <1>4, <1>5 DEF Child, OpenBrowser, ChildEnds, BrowserEnds, HeartbeatAges, OperatorCancels,
                      OperatorEnds
  <1>6. ASSUME UNCHANGED vars PROVE SuccessInHand'
    BY <1>4, <1>6 DEF vars
  <1>7. SuccessInHand'
    BY <1>1, <1>2, <1>5, <1>6 DEF Next
  <1>8. SuccessIsFromCompletedAttempt'
    <2>1. ASSUME NEW a \in Agents, Persist(a) PROVE SuccessIsFromCompletedAttempt'
      <3>1. Mine(a) \in Attempts /\ row' = row
        BY <2>1, <1>t DEF Persist, At, TypeInv, HasAttempt
      <3>2. ASSUME NEW x \in Attempts, saved'[x] = "success"
            PROVE  saved[x] = "success" \/ (x = Mine(a) /\ job[a].status = "completed")
        BY <2>1, <3>1, <3>2, <1>t DEF Persist, TypeInv, AttemptsTypeOK
      <3> QED
        BY <2>1, <3>1, <3>2 DEF SuccessInv, SuccessInHand, SuccessIsFromCompletedAttempt, Persist, At
    <2>2. ASSUME saved' = saved PROVE SuccessIsFromCompletedAttempt'
      BY <2>2, <1>e DEF SuccessInv, SuccessIsFromCompletedAttempt, EndedKept
    <2>3. saved' = saved \/ \E a \in Agents : Persist(a)
      BY DEF Next, Execute, vars, taskVars, Child, OpenBrowser, ChildEnds, BrowserEnds,
             HeartbeatAges, OperatorCancels, OperatorEnds, Begin, Blocked, NotBlocked, Insert,
             InsertRefused, Examine, CloseStale, FirstBeat, KeepAlive, KeepAliveWrites,
             RevokedBeforeLaunch, Launch, ChildExited, CancelChild, TimeOut, StopChild, StopFails,
             VerifyCleanup, Recheck, Finish, Fallback, LoseDelivery, AgentDies
    <2> QED BY <2>1, <2>2, <2>3
  <1> QED BY <1>t, <1>7, <1>8 DEF SuccessInv

\* Whatever a revoked or superseded attempt found is not saved as a success, whichever of
\* crashes, heartbeats, revocations and retries came between its writes.
THEOREM SuccessFromCompleted == Spec => []SuccessIsFromCompletedAttempt
  <1>1. Init => SuccessInv
    BY InitTypes DEF Init, SuccessInv, SuccessInHand, SuccessIsFromCompletedAttempt, Idle
  <1>2. SuccessInv => SuccessIsFromCompletedAttempt
    BY DEF SuccessInv
  <1> QED BY <1>1, <1>2, SuccessStep, PTL DEF Spec

-----------------------------------------------------------------------------
(* A worker that survived its cleanup keeps blocking.                      *)

\* The states an attempt can be in while its agent has not written how it ended.
Unfinished == {"starting", "running", "cancelling", "cancelled", "interrupted"}
Revocations == Unfinished \ {"starting", "running"}

\* The steps of an agent between the insertion of its attempt and the first write of
\* its end.
Working == {"beat", "launch", "supervise", "verify", "recheck", "finish"}

Supervises(a, x) == Mine(a) = x /\ job[a].pc # "close"

\* What the row and the child of an attempt are while agent a supervises it.
AgentInv(a) ==
    /\ job[a].pc \in Working => row[Mine(a)].state \in Unfinished
    /\ job[a].pc = "fallback" => row[Mine(a)].state \in Revocations
    /\ job[a].pc = "persist" => row[Mine(a)].state # "absent"
    /\ job[a].pc \in {"beat", "launch"} => child[Mine(a)] = "none"
    /\ job[a].pc = "persist" /\ job[a].status = "cleanup_incomplete" /\ child[Mine(a)] = "up" =>
           row[Mine(a)].state = "cleanup_incomplete" /\ row[Mine(a)].pid

\* An attempt has one supervisor at most, and none once its failed cleanup is reported,
\* so that nobody else starts its child again or writes how it ended.
SurvivorInv ==
    /\ TypeInv
    /\ \A a \in Agents : job[a].pc \in {"idle", "blocker", "insert", "examine"} =>
                              Mine(a) = NoAttempt
    /\ \A a, b \in Agents : \A x \in Attempts : Supervises(a, x) /\ Supervises(b, x) => a = b
    /\ \A a \in Agents : AgentInv(a)
    /\ \A x \in Attempts : row[x].state = "absent" => child[x] = "none" /\ x \notin reported
    /\ \A x \in reported : \A a \in Agents : ~Supervises(a, x)
    /\ SurvivingWorkerBlocks

\* Who supervises an attempt is past its insertion, so the attempt has a row.
LEMMA SupervisedHasRow ==
    ASSUME SurvivorInv, NEW a \in Agents, NEW x \in Attempts, Supervises(a, x)
    PROVE  /\ job[a].pc \in Working \cup {"fallback", "persist"}
           /\ row[x].state # "absent"
  <1>1. job[a].pc \notin {"idle", "blocker", "insert", "examine", "close"} /\ job[a].pc \in Steps
    BY AttemptsAssumption DEF SurvivorInv, Supervises, TypeInv, AttemptsTypeOK, Job
  <1>2. job[a].pc \in Working \cup {"fallback", "persist"}
    BY <1>1 DEF Steps, Working
  <1>3. AgentInv(a) /\ Mine(a) = x
    BY DEF SurvivorInv, Supervises
  <1> QED BY <1>2, <1>3 DEF AgentInv, Unfinished, Revocations

\* The pid of a row that is finished is kept, or learnt.
LEMMA FinishedPid ==
    ASSUME row \in [Attempts -> Row], NEW x \in Attempts, NEW s, NEW pid, NEW expected,
           NEW y \in Attempts
    PROVE  /\ y # x => Finished(x, s, pid, expected)[y] = row[y]
           /\ row[x].state \notin expected => Finished(x, s, pid, expected) = row
           /\ row[x].state \in expected =>
                  Finished(x, s, pid, expected)[x].pid = (row[x].pid \/ pid)
  <1>1. CASE row[x].state \notin expected
    BY <1>1, Zenon DEF Finished
  <1>2. CASE row[x].state \in expected
    <2> DEFINE p == row[x].pid \/ pid
               r == [row[x] EXCEPT !.state = s, !.late = FALSE, !.pid = p]
    <2>1. Finished(x, s, pid, expected) = [row EXCEPT ![x] = r]
      BY <1>2, Zenon DEF Finished
    <2>2. r.pid = p
      <3> HIDE DEF p
      <3> QED BY DEF Row
    <2> HIDE DEF r
    <2>3. y # x => Finished(x, s, pid, expected)[y] = row[y]
      BY <2>1
    <2>4. Finished(x, s, pid, expected)[x].pid = (row[x].pid \/ pid)
      BY <2>1, <2>2
    <2> QED BY <1>2, <2>3, <2>4
  <1> QED BY <1>1, <1>2

LEMMA ClosedPid ==
    ASSUME row \in [Attempts -> Row], NEW S, NEW y \in Attempts
    PROVE  Closed(S)[y].pid = row[y].pid
  BY DEF Closed, Row

LEMMA BeatRow ==
    ASSUME row \in [Attempts -> Row], NEW x \in Attempts, NEW y \in Attempts
    PROVE  /\ Beat(x)[y].pid = row[y].pid
           /\ \/ Beat(x)[y].state = row[y].state
              \/ y = x /\ row[y].state \in {"starting", "running"} /\ Beat(x)[y].state = "running"
  BY DEF Beat, Row

\* All that a step may do to the row of an attempt: leave it, close it because no worker
\* of it is alive, revoke it, insert it, refresh it for its supervisor, or write how it ended.
RowMoves(y) ==
    \/ row'[y].state = row[y].state /\ row'[y].pid = row[y].pid
    \/ /\ row[y].state = "cleanup_incomplete" /\ ~Survives(y)
       /\ row'[y].state = "interrupted"
    \/ row[y].state \in Active /\ row'[y].state \in Revocations
    \/ row[y].state = "absent" /\ row'[y].state = "starting"
    \/ /\ \E a \in Agents : Mine(a) = y /\ job[a].pc \in {"beat", "launch", "supervise", "verify"}
       /\ row[y].state \in {"starting", "running"} /\ row'[y].state = "running"
    \/ /\ \E a \in Agents : Mine(a) = y /\ (Finish(a) \/ Fallback(a))
       /\ row'[y].state # "absent"

LEMMA RowStep ==
    ASSUME TypeInv, [Next]_vars, NEW y \in Attempts
    PROVE  RowMoves(y)
  <1>a. /\ row \in [Attempts -> Row]
        /\ \A a \in Agents : job[a].pc \in {"close", "beat", "launch", "supervise", "verify",
                                           "recheck", "finish", "fallback", "persist"}
                                  => Mine(a) \in Attempts
    BY DEF TypeInv, AttemptsTypeOK, HasAttempt
  <1>b. ASSUME row' = row PROVE RowMoves(y)
    BY <1>b DEF RowMoves
  <1>c. ASSUME NEW x \in Attempts, NEW s \in {"cancelled", "interrupted"}, NEW pid,
               row' = Finished(x, s, pid, Active)
        PROVE  RowMoves(y)
    <2>1. row'[y].state = IF y = x /\ row[x].state \in Active THEN s ELSE row[y].state
      BY <1>a, <1>c, FinishedState
    <2>2. row'[y].state = row[y].state => row'[y].pid = row[y].pid
      <3>1. CASE y = x /\ row[x].state \in Active
        BY <2>1, <3>1 DEF Active
      <3>2. CASE ~(y = x /\ row[x].state \in Active)
        BY <1>a, <1>c, <3>2, FinishedPid
      <3> QED BY <3>1, <3>2
    <2> QED BY <2>1, <2>2 DEF RowMoves, Revocations, Unfinished, Active
  <1>d. ASSUME NEW S \in SUBSET {x \in Uncleaned : ~Survives(x)}, row' = Closed(S)
        PROVE  RowMoves(y)
    BY <1>a, <1>d, ClosedState, ClosedPid DEF RowMoves, Uncleaned
  <1>1. ASSUME NEW a \in Agents, Blocked(a) \/ NotBlocked(a) PROVE RowMoves(y)
    <2>1. PICK S \in SUBSET {x \in Uncleaned : ~Survives(x)} : row' = Closed(S)
      BY <1>1 DEF Blocked, NotBlocked
    <2> QED BY <2>1, <1>d
  <1>2. ASSUME NEW a \in Agents, Insert(a) PROVE RowMoves(y)
    <2>1. PICK x \in Attempts :
              /\ row[x].state = "absent"
              /\ row' = [row EXCEPT ![x] = [state |-> "starting", task |-> job[a].task,
                                            late |-> FALSE, pid |-> FALSE]]
      BY <1>2 DEF Insert
    <2> QED BY <2>1, <1>a DEF RowMoves
  <1>3. ASSUME NEW a \in Agents, CloseStale(a) PROVE RowMoves(y)
    <2>1. Mine(a) \in Attempts /\ row' = Finished(Mine(a), "interrupted", FALSE, Active)
      BY <1>3, <1>a DEF CloseStale, At
    <2> QED BY <2>1, <1>c
  <1>4. ASSUME NEW a \in Agents, FirstBeat(a) \/ KeepAlive(a) \/ Launch(a) PROVE RowMoves(y)
    <2>1. /\ Mine(a) \in Attempts /\ row' = Beat(Mine(a))
          /\ job[a].pc \in {"beat", "launch", "supervise", "verify"}
      BY <1>4, <1>a DEF FirstBeat, KeepAlive, Launch, KeepAliveWrites, At
    <2> QED BY <2>1, <1>a, BeatRow DEF RowMoves
  <1>5. ASSUME NEW a \in Agents, Finish(a) \/ Fallback(a) PROVE RowMoves(y)
    <2>1. PICK s, pid, expected : s \in Ended /\ row' = Finished(Mine(a), s, pid, expected)
      BY <1>5 DEF Finish, Fallback, AttemptState, Ended
    <2>2. Mine(a) \in Attempts
      BY <1>5, <1>a DEF Finish, Fallback, At
    <2>3. CASE y = Mine(a) /\ row[y].state \in expected
      BY <1>5, <2>1, <2>2, <2>3, <1>a, FinishedState DEF RowMoves, Ended
    <2>4. CASE ~(y = Mine(a) /\ row[y].state \in expected)
      BY <2>1, <2>2, <2>4, <1>a, FinishedPid DEF RowMoves
    <2> QED BY <2>3, <2>4
  <1>6. ASSUME NEW x \in Attempts, HeartbeatAges(x) PROVE RowMoves(y)
    <2>1. row' = [row EXCEPT ![x].late = TRUE]
      BY <1>6 DEF HeartbeatAges
    <2> QED BY <2>1, <1>a DEF RowMoves, Row
  <1>7. ASSUME NEW x \in Attempts, OperatorCancels(x) PROVE RowMoves(y)
    BY <1>7, <1>a DEF OperatorCancels, RowMoves, Row, Active, Revocations, Unfinished
  <1>8. ASSUME NEW x \in Attempts, OperatorEnds(x) PROVE RowMoves(y)
    BY <1>8, <1>c DEF OperatorEnds
  <1>9. ASSUME NEW a \in Agents,
               \/ \E t \in Tasks : Begin(a, t)
               \/ InsertRefused(a) \/ Examine(a) \/ RevokedBeforeLaunch(a) \/ ChildExited(a)
               \/ CancelChild(a) \/ TimeOut(a) \/ StopFails(a) \/ VerifyCleanup(a)
               \/ Recheck(a) \/ Persist(a) \/ LoseDelivery(a) \/ AgentDies(a)
        PROVE  RowMoves(y)
    <2>1. row' = row
      BY <1>9 DEF Begin, InsertRefused, Examine, RevokedBeforeLaunch, ChildExited, CancelChild,
                  TimeOut, StopChild, StopFails, VerifyCleanup, Recheck, Persist, LoseDelivery,
                  AgentDies
    <2> QED BY <2>1, <1>b
  <1>10. ASSUME NEW x \in Attempts, Child(x) PROVE RowMoves(y)
    BY <1>10, <1>b DEF Child, OpenBrowser, ChildEnds, BrowserEnds
  <1>11. CASE UNCHANGED vars
    BY <1>11, <1>b DEF vars
  <1> QED
    BY <1>1, <1>2, <1>3, <1>4, <1>5, <1>6, <1>7, <1>8, <1>9, <1>10, <1>11 DEF Next, Execute

\* The steps of agent a.
Moves(a) ==
    \/ \E t \in Tasks : Begin(a, t)
    \/ Execute(a) \/ KeepAlive(a) \/ TimeOut(a) \/ StopFails(a) \/ LoseDelivery(a) \/ AgentDies(a)

\* They change no other agent's local state.
LEMMA OthersStand ==
    ASSUME TypeInv, [Next]_vars, NEW a \in Agents, ~Moves(a)
    PROVE  job'[a] = job[a]
  <1>j. job \in [Agents -> Job]
    BY DEF TypeInv, AttemptsTypeOK
  <1>1. ASSUME NEW b \in Agents, b # a, Return(b) PROVE job'[a] = job[a]
    BY <1>1, <1>j DEF Return
  <1>2. ASSUME NEW b \in Agents, b # a, Moves(b) PROVE job'[a] = job[a]
    <2>1. CASE \E t \in Tasks : Begin(b, t)
      BY <1>2, <2>1, <1>j DEF Begin
    <2>2. CASE Blocked(b) \/ RevokedBeforeLaunch(b) \/ Fallback(b) \/ Persist(b) \/ AgentDies(b)
      BY <1>1, <1>2, <2>2 DEF Blocked, RevokedBeforeLaunch, Fallback, Persist, AgentDies
    <2>3. CASE \/ NotBlocked(b) \/ InsertRefused(b) \/ ChildExited(b) \/ StopFails(b)
               \/ Insert(b) \/ Launch(b) \/ CancelChild(b) \/ TimeOut(b)
      BY <1>2, <2>3, <1>j DEF NotBlocked, InsertRefused, ChildExited, StopFails, Insert, Launch,
                              CancelChild, TimeOut, StopChild, GoTo
    <2>4. CASE Examine(b) \/ CloseStale(b) \/ Finish(b)
      BY <1>1, <1>2, <2>4, <1>j DEF Examine, CloseStale, Finish, GoTo
    <2>5. CASE FirstBeat(b) \/ KeepAlive(b) \/ VerifyCleanup(b) \/ Recheck(b) \/ LoseDelivery(b)
      BY <1>2, <2>5, <1>j DEF FirstBeat, KeepAlive, VerifyCleanup, Recheck, LoseDelivery
    <2> QED
      BY <1>2, <2>1, <2>2, <2>3, <2>4, <2>5 DEF Moves, Execute
  <1>3. ASSUME NEW x \in Attempts,
               Child(x) \/ HeartbeatAges(x) \/ OperatorCancels(x) \/ OperatorEnds(x)
        PROVE  job'[a] = job[a]
    BY <1>3 DEF Child, OpenBrowser, ChildEnds, BrowserEnds, HeartbeatAges, OperatorCancels,
                OperatorEnds
  <1>4. CASE UNCHANGED vars
    BY <1>4 DEF vars
  <1> QED BY <1>2, <1>3, <1>4 DEF Next, Moves

\* A child process is started by its supervisor and by nobody else.
LEMMA ChildStep ==
    ASSUME TypeInv, [Next]_vars, NEW y \in Attempts,
           ~\E a \in Agents : Launch(a) /\ Mine(a) = y
    PROVE  /\ child'[y] = "up" => child[y] = "up"
           /\ child[y] = "none" => child'[y] = "none"
  <1>c. child \in [Attempts -> {"none", "up"} \cup Results]
    BY DEF TypeInv, AttemptsTypeOK
  <1>1. ASSUME child' = child
        PROVE  (child'[y] = "up" => child[y] = "up") /\ (child[y] = "none" => child'[y] = "none")
    BY <1>1
  <1>2. ASSUME NEW x, Signalled(x)
        PROVE  (child'[y] = "up" => child[y] = "up") /\ (child[y] = "none" => child'[y] = "none")
    BY <1>2, <1>c DEF Signalled
  <1>3. ASSUME NEW x \in Attempts, ChildEnds(x)
        PROVE  (child'[y] = "up" => child[y] = "up") /\ (child[y] = "none" => child'[y] = "none")
    BY <1>3, <1>c DEF ChildEnds, Results
  <1>4. ASSUME NEW a \in Agents, Launch(a)
        PROVE  (child'[y] = "up" => child[y] = "up") /\ (child[y] = "none" => child'[y] = "none")
    BY <1>4, <1>c DEF Launch
  <1>5. ASSUME NEW a \in Agents, CancelChild(a) \/ TimeOut(a) \/ VerifyCleanup(a)
        PROVE  (child'[y] = "up" => child[y] = "up") /\ (child[y] = "none" => child'[y] = "none")
    BY <1>2, <1>5 DEF CancelChild, TimeOut, StopChild, VerifyCleanup
  <1>6. ASSUME NEW a \in Agents,
               \/ \E t \in Tasks : Begin(a, t)
               \/ Blocked(a) \/ NotBlocked(a) \/ Insert(a) \/ InsertRefused(a) \/ Examine(a)
               \/ CloseStale(a) \/ FirstBeat(a) \/ RevokedBeforeLaunch(a) \/ ChildExited(a)
               \/ Recheck(a) \/ Finish(a) \/ Fallback(a) \/ Persist(a)
               \/ KeepAlive(a) \/ StopFails(a) \/ LoseDelivery(a) \/ AgentDies(a)
        PROVE  child' = child
    BY <1>6 DEF Begin, Blocked, NotBlocked, Insert, InsertRefused, Examine, CloseStale, FirstBeat,
                RevokedBeforeLaunch, ChildExited, Recheck, Finish, Fallback, Persist, KeepAlive,
                KeepAliveWrites, StopFails, LoseDelivery, AgentDies, childVars
  <1>7. ASSUME NEW x \in Attempts,
               \/ OpenBrowser(x) \/ BrowserEnds(x) \/ HeartbeatAges(x) \/ OperatorCancels(x)
               \/ OperatorEnds(x)
        PROVE  child' = child
    BY <1>7 DEF OpenBrowser, BrowserEnds, HeartbeatAges, OperatorCancels, OperatorEnds, childVars
  <1>8. CASE UNCHANGED vars
    BY <1>1, <1>8 DEF vars
  <1> QED
    BY <1>1, <1>3, <1>4, <1>5, <1>6, <1>7, <1>8 DEF Next, Execute, Child

\* A failed cleanup is reported by the supervisor, with its last step.
Reports(a) ==
    /\ job[a].status = "cleanup_incomplete"
    /\ Return(a) /\ child' = child
    /\ \/ Finish(a) /\ row[Mine(a)].state \in FinishStates(a)
       \/ Fallback(a)
       \/ Persist(a)

LEMMA ReportStep ==
    ASSUME [Next]_vars, NEW x \in reported', x \notin reported
    PROVE  \E a \in Agents : Mine(a) = x /\ Reports(a)
  <1>1. ASSUME NEW a \in Agents, Finish(a) \/ Fallback(a) \/ Persist(a)
        PROVE  Mine(a) = x /\ Reports(a)
    BY <1>1 DEF Finish, Fallback, Persist, Report, Reports, childVars
  <1>2. ASSUME NEW a \in Agents,
               \/ \E t \in Tasks : Begin(a, t)
               \/ Blocked(a) \/ NotBlocked(a) \/ Insert(a) \/ InsertRefused(a) \/ Examine(a)
               \/ CloseStale(a) \/ FirstBeat(a) \/ RevokedBeforeLaunch(a) \/ Launch(a)
               \/ ChildExited(a) \/ CancelChild(a) \/ TimeOut(a) \/ VerifyCleanup(a)
               \/ Recheck(a) \/ KeepAlive(a) \/ StopFails(a) \/ LoseDelivery(a) \/ AgentDies(a)
        PROVE  reported' = reported
    BY <1>2 DEF Begin, Blocked, NotBlocked, Insert, InsertRefused, Examine, CloseStale, FirstBeat,
                RevokedBeforeLaunch, Launch, ChildExited, CancelChild, TimeOut, StopChild,
                VerifyCleanup, Recheck, KeepAlive, KeepAliveWrites, StopFails, LoseDelivery,
                AgentDies, taskVars
  <1>3. ASSUME NEW y \in Attempts,
               Child(y) \/ HeartbeatAges(y) \/ OperatorCancels(y) \/ OperatorEnds(y)
        PROVE  reported' = reported
    BY <1>3 DEF Child, OpenBrowser, ChildEnds, BrowserEnds, HeartbeatAges, OperatorCancels,
                OperatorEnds, taskVars
  <1>4. CASE UNCHANGED vars
    BY <1>4 DEF vars
  <1> QED BY <1>1, <1>2, <1>3, <1>4 DEF Next, Execute

\* An agent comes to supervise an attempt only by inserting its row.
LEMMA SuperviseStep ==
    ASSUME SurvivorInv, [Next]_vars, NEW a \in Agents, NEW x \in Attempts, Supervises(a, x)'
    PROVE  Supervises(a, x) \/ (Insert(a) /\ row[x].state = "absent")
  <1>j. job \in [Agents -> Job] /\ NoAttempt \notin Attempts
    BY AttemptsAssumption DEF SurvivorInv, TypeInv, AttemptsTypeOK
  <1>i. job[a].pc \in {"idle", "blocker", "insert", "examine"} => Mine(a) = NoAttempt
    BY DEF SurvivorInv
  <1> USE DEF Supervises, Mine
  <1>1. CASE ~Moves(a)
    BY <1>1, OthersStand DEF SurvivorInv
  <1>2. ASSUME Return(a) PROVE FALSE
    BY <1>2, <1>j DEF Return, Idle
  <1>3. CASE \E t \in Tasks : Begin(a, t)
    BY <1>3, <1>j, <1>i DEF Begin, At, Job
  <1>4. CASE Blocked(a) \/ RevokedBeforeLaunch(a) \/ Fallback(a) \/ Persist(a) \/ AgentDies(a)
    BY <1>2, <1>4 DEF Blocked, RevokedBeforeLaunch, Fallback, Persist, AgentDies
  <1>5. CASE NotBlocked(a) \/ InsertRefused(a) \/ ChildExited(a) \/ StopFails(a)
    BY <1>5, <1>j, <1>i DEF NotBlocked, InsertRefused, ChildExited, StopFails, GoTo, At, Job
  <1>6. CASE Insert(a)
    <2>1. PICK y \in Attempts :
              /\ row[y].state = "absent"
              /\ job' = [job EXCEPT ![a].pc = "beat", ![a].attempt = y, ![a].retried = FALSE]
      BY <1>6 DEF Insert
    <2>2. x = y
      BY <2>1, <1>j DEF Job
    <2> QED BY <1>6, <2>1, <2>2
  <1>7. CASE Examine(a)
    BY <1>2, <1>7, <1>j, <1>i DEF Examine, At, Job
  <1>8. CASE CloseStale(a)
    BY <1>2, <1>8, <1>j DEF CloseStale, Job
  <1>9. CASE Launch(a) \/ CancelChild(a) \/ TimeOut(a)
    BY <1>9, <1>j DEF Launch, CancelChild, TimeOut, StopChild, GoTo, At, Job
  <1>10. CASE FirstBeat(a) \/ KeepAlive(a) \/ Recheck(a)
    <2>1. PICK r : \/ job' = [job EXCEPT ![a].pc = "launch", ![a].revoked = r]
                   \/ job' = [job EXCEPT ![a].revoked = r]
                   \/ job' = [job EXCEPT ![a].pc = "finish", ![a].revoked = r]
      BY <1>10 DEF FirstBeat, KeepAlive, Recheck
    <2>2. job[a].pc # "close"
      BY <1>10 DEF FirstBeat, KeepAlive, Recheck, At
    <2> QED BY <2>1, <2>2, <1>j DEF Job
  <1>11. CASE VerifyCleanup(a)
    BY <1>11, <1>j DEF VerifyCleanup, At, Job
  <1>12. CASE Finish(a)
    BY <1>2, <1>12, <1>j DEF Finish, GoTo, At, Job
  <1>13. CASE LoseDelivery(a)
    BY <1>13 DEF LoseDelivery
  <1> QED
    BY <1>1, <1>3, <1>4, <1>5, <1>6, <1>7, <1>8, <1>9, <1>10, <1>11, <1>12, <1>13
       DEF Moves, Execute

\* What the others do does not disturb an agent: only a supervisor writes how its
\* attempt ended, starts its child, or refreshes its row.
LEMMA BystanderKeeps ==
    ASSUME SurvivorInv, [Next]_vars, NEW a \in Agents, job'[a] = job[a],
           job[a].pc \in Working \cup {"fallback", "persist"}
    PROVE  AgentInv(a)'
  <1>t. TypeInv /\ AgentInv(a)
    BY DEF SurvivorInv
  <1>1. PICK x \in Attempts : Mine(a) = x /\ Mine(a)' = x
    BY <1>t DEF TypeInv, HasAttempt, Working, Mine
  <1>2. Supervises(a, x) /\ row[x].state # "absent"
    <2>1. Supervises(a, x)
      BY <1>1 DEF Supervises, Working
    <2> QED BY <2>1, SupervisedHasRow
  <1>j. job \in [Agents -> Job]
    BY <1>t DEF TypeInv, AttemptsTypeOK
  <1>3. ASSUME NEW b \in Agents, Mine(b) = x, job[b].pc # "close"
        PROVE  b = a
    BY <1>2, <1>3 DEF SurvivorInv, Supervises
  <1>4. ~\E b \in Agents : Mine(b) = x /\ (Launch(b) \/ Finish(b) \/ Fallback(b))
    <2> SUFFICES ASSUME NEW b \in Agents, Mine(b) = x, Launch(b) \/ Finish(b) \/ Fallback(b)
                 PROVE  FALSE
      OBVIOUS
    <2>1. job[b].pc \in {"launch", "finish", "fallback"}
      BY DEF Launch, Finish, Fallback, At
    <2>2. b = a
      BY <1>3, <2>1
    <2>3. ASSUME Return(b) PROVE job'[b].pc = "idle"
      BY <2>3, <1>j DEF Return, Idle
    <2>4. ASSUME NEW step, GoTo(b, step) PROVE job'[b].pc = step
      BY <2>4, <1>j DEF GoTo, Job
    <2>5. CASE Launch(b)
      <3>1. \/ GoTo(b, "supervise")
            \/ job' = [job EXCEPT ![b].pc = "recheck", ![b].status = "failed"]
        BY <2>5 DEF Launch
      <3>2. job[b].pc = "launch"
        BY <2>5 DEF Launch, At
      <3>3. job'[b].pc \in {"supervise", "recheck"}
        BY <3>1, <2>4, <1>j DEF Job
      <3> QED BY <2>2, <3>2, <3>3
    <2>6. CASE Finish(b)
      <3>1. job[b].pc = "finish" /\ (Return(b) \/ GoTo(b, "fallback") \/ GoTo(b, "persist"))
        BY <2>6 DEF Finish, At
      <3>2. job'[b].pc \in {"idle", "fallback", "persist"}
        BY <3>1, <2>3, <2>4
      <3> QED BY <2>2, <3>1, <3>2
    <2>7. CASE Fallback(b)
      <3>1. job[b].pc = "fallback" /\ Return(b)
        BY <2>7 DEF Fallback, At
      <3> QED BY <2>2, <2>3, <3>1
    <2> QED BY <2>5, <2>6, <2>7
  <1>5. /\ child'[x] = "up" => child[x] = "up"
        /\ child[x] = "none" => child'[x] = "none"
    BY <1>t, <1>4, ChildStep
  <1>6. \/ row'[x].state = row[x].state /\ row'[x].pid = row[x].pid
        \/ row[x].state = "cleanup_incomplete" /\ ~Survives(x) /\ row'[x].state = "interrupted"
        \/ row[x].state \in Active /\ row'[x].state \in Revocations
        \/ row[x].state \in {"starting", "running"} /\ row'[x].state = "running"
    BY <1>t, <1>2, <1>4, RowStep DEF RowMoves
  <1>7. job[a].pc \in Working => row'[x].state \in Unfinished
    BY <1>t, <1>1, <1>6 DEF AgentInv, Unfinished, Revocations
  <1>8. job[a].pc = "fallback" => row'[x].state \in Revocations
    BY <1>t, <1>1, <1>6 DEF AgentInv, Unfinished, Revocations
  <1>9. job[a].pc = "persist" /\ job[a].status = "cleanup_incomplete" /\ child'[x] = "up" =>
            row'[x].state = "cleanup_incomplete" /\ row'[x].pid
    BY <1>t, <1>1, <1>5, <1>6 DEF AgentInv, Survives, Active
  <1>10. row'[x].state # "absent"
    BY <1>2, <1>6 DEF Revocations, Unfinished
  <1> QED
    BY <1>t, <1>1, <1>5, <1>7, <1>8, <1>9, <1>10 DEF AgentInv

\* An agent that goes on with an unfinished attempt leaves it unfinished.
LEMMA OwnRowStaysUnfinished ==
    ASSUME SurvivorInv, NEW a \in Agents, job[a].pc \in Working,
           row' = row \/ row' = Beat(Mine(a)), Mine(a)' = Mine(a),
           job'[a].pc \in Working \ {"beat"},
           job'[a].pc = "launch" => child'[Mine(a)] = "none"
    PROVE  AgentInv(a)'
  <1>1. Mine(a) \in Attempts /\ row \in [Attempts -> Row] /\ row[Mine(a)].state \in Unfinished
    BY DEF SurvivorInv, AgentInv, TypeInv, HasAttempt, AttemptsTypeOK, Working
  <1>2. row'[Mine(a)].state \in Unfinished
    BY <1>1, BeatRow DEF Unfinished
  <1>3. job'[a].pc \notin {"beat", "fallback", "persist"}
    BY DEF Working
  <1> QED BY <1>2, <1>3 DEF AgentInv

LEMMA OwnStepKeeps ==
    ASSUME SurvivorInv, [Next]_vars, NEW a \in Agents, Moves(a)
    PROVE  AgentInv(a)'
  <1>j. job \in [Agents -> Job] /\ row \in [Attempts -> Row]
    BY DEF SurvivorInv, TypeInv, AttemptsTypeOK
  <1>1. ASSUME job'[a].pc \notin Working \cup {"fallback", "persist"} PROVE AgentInv(a)'
    BY <1>1 DEF AgentInv, Working
  <1>2. ASSUME Return(a) PROVE AgentInv(a)'
    BY <1>1, <1>2, <1>j DEF Return, Idle, Working
  <1>3. CASE (\E t \in Tasks : Begin(a, t)) \/ NotBlocked(a) \/ InsertRefused(a)
    BY <1>1, <1>3, <1>j DEF Begin, NotBlocked, InsertRefused, GoTo, Working, Job
  <1>4. CASE Blocked(a) \/ RevokedBeforeLaunch(a) \/ Fallback(a) \/ Persist(a) \/ AgentDies(a)
    BY <1>2, <1>4 DEF Blocked, RevokedBeforeLaunch, Fallback, Persist, AgentDies
  <1>5. CASE Examine(a) \/ CloseStale(a)
    <2>1. CASE ~Return(a)
      <3>1. PICK x : \/ job' = [job EXCEPT ![a].pc = "insert", ![a].retried = TRUE]
                     \/ job' = [job EXCEPT ![a].pc = "close", ![a].attempt = x]
                     \/ job' = [job EXCEPT ![a].pc = "insert", ![a].attempt = NoAttempt,
                                           ![a].retried = TRUE]
        BY <1>5, <2>1 DEF Examine, CloseStale
      <3>2. job'[a].pc \in {"insert", "close"}
        BY <3>1, <1>j DEF Job
      <3> QED BY <1>1, <3>2 DEF Working
    <2> QED BY <1>2, <2>1
  <1>6. CASE Insert(a)
    <2>1. PICK x \in Attempts :
              /\ row[x].state = "absent"
              /\ row' = [row EXCEPT ![x] = [state |-> "starting", task |-> job[a].task,
                                            late |-> FALSE, pid |-> FALSE]]
              /\ job' = [job EXCEPT ![a].pc = "beat", ![a].attempt = x, ![a].retried = FALSE]
      BY <1>6 DEF Insert
    <2>2. row'[x].state = "starting" /\ job'[a].pc = "beat" /\ Mine(a)' = x
      BY <2>1, <1>j DEF Mine, Job
    <2>3. child'[x] = "none"
      BY <1>6, <2>1 DEF Insert, childVars, SurvivorInv
    <2> QED BY <2>2, <2>3 DEF AgentInv, Unfinished
  <1>7. CASE FirstBeat(a) \/ KeepAlive(a)
    <2>1. PICK r : \/ FirstBeat(a) /\ job' = [job EXCEPT ![a].pc = "launch", ![a].revoked = r]
                   \/ KeepAlive(a) /\ job' = [job EXCEPT ![a].revoked = r]
      BY <1>7 DEF FirstBeat, KeepAlive
    <2>2. /\ job[a].pc \in {"beat", "launch", "supervise", "verify"}
          /\ job'[a].pc \in {"launch", "supervise", "verify"} /\ Mine(a)' = Mine(a)
          /\ job'[a].pc = "launch" => job[a].pc \in {"beat", "launch"}
      BY <2>1, <1>j DEF FirstBeat, KeepAlive, At, Mine, Job
    <2>3. row' = Beat(Mine(a)) /\ child' = child
      BY <1>7 DEF FirstBeat, KeepAlive, KeepAliveWrites, childVars
    <2>4. job[a].pc \in {"beat", "launch"} => child[Mine(a)] = "none"
      BY DEF SurvivorInv, AgentInv
    <2> QED BY <2>2, <2>3, <2>4, OwnRowStaysUnfinished DEF Working
  <1>8. CASE Launch(a)
    <2>1. /\ job[a].pc = "launch" /\ job'[a].pc \in {"supervise", "recheck"} /\ Mine(a)' = Mine(a)
          /\ row' = Beat(Mine(a))
      BY <1>8, <1>j DEF Launch, GoTo, At, Mine, Job
    <2> QED BY <2>1, OwnRowStaysUnfinished DEF Working
  <1>9. CASE ChildExited(a) \/ CancelChild(a) \/ TimeOut(a) \/ StopFails(a)
    <2>1. /\ job[a].pc = "supervise" /\ job'[a].pc \in {"verify", "recheck"} /\ Mine(a)' = Mine(a)
          /\ row' = row
      BY <1>9, <1>j DEF ChildExited, CancelChild, TimeOut, StopChild, StopFails, GoTo, At, Mine, Job
    <2> QED BY <2>1, OwnRowStaysUnfinished DEF Working
  <1>10. CASE VerifyCleanup(a) \/ Recheck(a)
    <2>1. /\ job[a].pc \in {"verify", "recheck"} /\ row' = row
          /\ \/ \E s : job' = [job EXCEPT ![a].pc = "recheck", ![a].status = s, ![a].stop = "none"]
             \/ \E r : job' = [job EXCEPT ![a].pc = "finish", ![a].revoked = r]
      <3>1. CASE VerifyCleanup(a)
        <4>1. \E s : job' = [job EXCEPT ![a].pc = "recheck", ![a].status = s, ![a].stop = "none"]
          BY <3>1 DEF VerifyCleanup
        <4> QED BY <3>1, <4>1 DEF VerifyCleanup, At
      <3>2. CASE Recheck(a)
        <4>1. \E r : job' = [job EXCEPT ![a].pc = "finish", ![a].revoked = r]
          BY <3>2, Zenon DEF Recheck
        <4> QED BY <3>2, <4>1 DEF Recheck, At
      <3> QED BY <1>10, <3>1, <3>2
    <2>2. job'[a].pc \in {"recheck", "finish"} /\ Mine(a)' = Mine(a)
      <3>1. ASSUME NEW s, job' = [job EXCEPT ![a].pc = "recheck", ![a].status = s, ![a].stop = "none"]
            PROVE  job'[a].pc = "recheck" /\ Mine(a)' = Mine(a)
        BY <3>1, <1>j DEF Mine, Job
      <3>2. ASSUME NEW r, job' = [job EXCEPT ![a].pc = "finish", ![a].revoked = r]
            PROVE  job'[a].pc = "finish" /\ Mine(a)' = Mine(a)
        BY <3>2, <1>j DEF Mine, Job
      <3> QED BY <2>1, <3>1, <3>2
    <2> QED BY <2>1, <2>2, OwnRowStaysUnfinished DEF Working
  <1>11. CASE Finish(a)
    <2>1. /\ job[a].pc = "finish" /\ Mine(a) \in Attempts
          /\ row[Mine(a)].state \in Unfinished
      BY <1>11 DEF Finish, At, SurvivorInv, AgentInv, TypeInv, HasAttempt, Working
    <2> DEFINE s == AttemptState(job[a].status, job[a].revoked)
    <2>2. row' = Finished(Mine(a), s, KnowsPid(a), FinishStates(a))
      BY <1>11 DEF Finish
    <2>s. s \in Ended /\ (job[a].status = "cleanup_incomplete" => s = "cleanup_incomplete")
      BY DEF AttemptState, Ended
    <2> HIDE DEF s
    <2>3. CASE row[Mine(a)].state \notin FinishStates(a)
      <3>1. row' = row /\ job'[a].pc = "fallback" /\ Mine(a)' = Mine(a)
        <4>1. GoTo(a, "fallback")
          BY <1>11, <2>3 DEF Finish
        <4>2. row' = row
          <5>1. Finished(Mine(a), s, KnowsPid(a), FinishStates(a)) = row
            BY <2>3, Zenon DEF Finished
          <5> QED BY <2>2, <5>1
        <4> QED BY <4>1, <4>2, <1>j DEF GoTo, Mine, Job
      <3>2. row[Mine(a)].state \in Revocations
        BY <2>1, <2>3 DEF FinishStates, Revocations
      <3> QED BY <3>1, <3>2 DEF AgentInv, Working, Revocations, Unfinished
    <2>4. CASE row[Mine(a)].state \in FinishStates(a) /\ ~job[a].revoked
      <3>1. /\ job'[a].pc = "persist" /\ Mine(a)' = Mine(a) /\ job'[a].status = job[a].status
            /\ child' = child
        BY <1>11, <2>4, <1>j DEF Finish, GoTo, Mine, Job, childVars
      <3>2. row'[Mine(a)].state = s /\ s \in Ended
        BY <2>1, <2>2, <2>4, <2>s, <1>j, FinishedState
      <3>3. job[a].status = "cleanup_incomplete" /\ child[Mine(a)] = "up" =>
                s = "cleanup_incomplete" /\ row'[Mine(a)].pid
        <4>1. row'[Mine(a)].pid = (row[Mine(a)].pid \/ KnowsPid(a))
          BY <2>1, <2>2, <2>4, <1>j, FinishedPid
        <4>2. job[a].status = "cleanup_incomplete" /\ child[Mine(a)] = "up" => KnowsPid(a)
          BY DEF KnowsPid
        <4> QED BY <4>1, <4>2, <2>s
      <3> QED BY <3>1, <3>2, <3>3 DEF AgentInv, Working, Ended
    <2>5. CASE row[Mine(a)].state \in FinishStates(a) /\ job[a].revoked
      BY <1>2, <1>11, <2>5 DEF Finish
    <2> QED BY <2>3, <2>4, <2>5
  <1>12. CASE LoseDelivery(a)
    <2>1. job' = job
      BY <1>12 DEF LoseDelivery
    <2>2. CASE job[a].pc \in Working \cup {"fallback", "persist"}
      BY <2>1, <2>2, BystanderKeeps
    <2> QED BY <1>1, <2>1, <2>2
  <1> QED
    BY <1>3, <1>4, <1>5, <1>6, <1>7, <1>8, <1>9, <1>10, <1>11, <1>12 DEF Moves, Execute

\* Who holds nothing before its insertion goes on holding nothing.
LEMMA NothingInHandStep ==
    ASSUME SurvivorInv, [Next]_vars, NEW a \in Agents,
           job'[a].pc \in {"idle", "blocker", "insert", "examine"}
    PROVE  Mine(a)' = NoAttempt
  <1>j. job \in [Agents -> Job]
    BY DEF SurvivorInv, TypeInv, AttemptsTypeOK
  <1>i. job[a].pc \in {"idle", "blocker", "insert", "examine"} => Mine(a) = NoAttempt
    BY DEF SurvivorInv
  <1> USE DEF Mine
  <1>1. CASE ~Moves(a)
    BY <1>1, <1>i, OthersStand DEF SurvivorInv
  <1>2. ASSUME Return(a) PROVE Mine(a)' = NoAttempt
    BY <1>2, <1>j DEF Return, Idle
  <1>3. CASE \E t \in Tasks : Begin(a, t)
    BY <1>3, <1>j, <1>i DEF Begin, At, Job
  <1>4. CASE Blocked(a) \/ RevokedBeforeLaunch(a) \/ Fallback(a) \/ Persist(a) \/ AgentDies(a)
    BY <1>2, <1>4 DEF Blocked, RevokedBeforeLaunch, Fallback, Persist, AgentDies
  <1>5. ASSUME NEW step, GoTo(a, step) PROVE job'[a].pc = step /\ Mine(a)' = Mine(a)
    BY <1>5, <1>j DEF GoTo, Job
  <1>6. CASE NotBlocked(a) \/ InsertRefused(a) \/ ChildExited(a) \/ StopFails(a)
    BY <1>5, <1>6, <1>i DEF NotBlocked, InsertRefused, ChildExited, StopFails, At
  <1>7. CASE Insert(a)
    BY <1>7, <1>j DEF Insert, Job
  <1>8. CASE Examine(a)
    BY <1>2, <1>8, <1>j, <1>i DEF Examine, At, Job
  <1>9. CASE CloseStale(a)
    <2>1. CASE job' = [job EXCEPT ![a].pc = "insert", ![a].attempt = NoAttempt, ![a].retried = TRUE]
      BY <2>1, <1>j DEF Job
    <2> QED BY <1>2, <1>9, <2>1 DEF CloseStale
  <1>10. CASE Launch(a)
    BY <1>5, <1>10, <1>j DEF Launch, Job
  <1>11. CASE CancelChild(a) \/ TimeOut(a)
    BY <1>11, <1>j DEF CancelChild, TimeOut, StopChild, Job
  <1>12. CASE FirstBeat(a) \/ KeepAlive(a) \/ Recheck(a)
    <2>1. PICK r : \/ job' = [job EXCEPT ![a].pc = "launch", ![a].revoked = r]
                   \/ job' = [job EXCEPT ![a].revoked = r]
                   \/ job' = [job EXCEPT ![a].pc = "finish", ![a].revoked = r]
      BY <1>12 DEF FirstBeat, KeepAlive, Recheck
    <2>2. job[a].pc \notin {"idle", "blocker", "insert", "examine"}
      BY <1>12 DEF FirstBeat, KeepAlive, Recheck, At
    <2> QED BY <2>1, <2>2, <1>j DEF Job
  <1>13. CASE VerifyCleanup(a)
    BY <1>13, <1>j DEF VerifyCleanup, Job
  <1>14. CASE Finish(a)
    BY <1>2, <1>5, <1>14 DEF Finish
  <1>15. CASE LoseDelivery(a)
    BY <1>15, <1>i DEF LoseDelivery
  <1> QED
    BY <1>1, <1>3, <1>4, <1>6, <1>7, <1>8, <1>9, <1>10, <1>11, <1>12, <1>13, <1>14, <1>15
       DEF Moves, Execute

\* What is reported is in its last supervisor's hand until then, and in nobody's after.
LEMMA ReportedIsReleased ==
    ASSUME SurvivorInv, [Next]_vars, NEW x \in reported', NEW a \in Agents
    PROVE  ~Supervises(a, x)'
  <1> SUFFICES ASSUME Supervises(a, x)' PROVE FALSE
    OBVIOUS
  <1>t. TypeInv /\ reported \subseteq Attempts /\ reported' \subseteq Attempts
        /\ job \in [Agents -> Job]
    BY StepTypes DEF SurvivorInv, TypeInv, AttemptsTypeOK
  <1>1. Supervises(a, x) \/ (Insert(a) /\ row[x].state = "absent")
    BY <1>t, SuperviseStep
  <1>2. CASE x \in reported
    BY <1>1, <1>2, <1>t DEF SurvivorInv
  <1>3. CASE x \notin reported
    <2>1. PICK b \in Agents : Mine(b) = x /\ Reports(b)
      BY <1>3, ReportStep
    <2>2. Supervises(b, x) /\ job'[b].pc = "idle"
      <3>1. job[b].pc \in {"finish", "fallback", "persist"} /\ Return(b)
        BY <2>1 DEF Reports, Finish, Fallback, Persist, At
      <3> QED BY <2>1, <3>1, <1>t DEF Supervises, Return, Idle
    <2>3. row[x].state # "absent"
      BY <2>2, <1>t, SupervisedHasRow
    <2>4. a = b
      BY <1>1, <2>2, <2>3, <1>t DEF SurvivorInv
    <2>5. Mine(a)' = NoAttempt
      BY <2>2, <2>4, NothingInHandStep
    <2> QED BY <2>5, <1>t, AttemptsAssumption DEF Supervises
  <1> QED BY <1>2, <1>3

\* The report of a child that is up comes with the evidence in its row.
LEMMA ReportedSurvivorBlocks ==
    ASSUME SurvivorInv, [Next]_vars, NEW x \in reported', x \notin reported, child'[x] = "up"
    PROVE  row'[x].state = "cleanup_incomplete" /\ row'[x].pid
  <1>1. PICK a \in Agents : Mine(a) = x /\ Reports(a)
    BY ReportStep
  <1>2. /\ job[a].status = "cleanup_incomplete" /\ child[x] = "up" /\ row \in [Attempts -> Row]
        /\ x \in Attempts /\ AgentInv(a)
    BY <1>1, StepTypes DEF Reports, SurvivorInv, TypeInv, AttemptsTypeOK
  <1>3. KnowsPid(a)
    BY <1>1, <1>2 DEF KnowsPid
  <1>4. ASSUME NEW r \in BOOLEAN
        PROVE  AttemptState(job[a].status, r) = "cleanup_incomplete"
    BY <1>2 DEF AttemptState
  <1>5. ASSUME NEW s, NEW S, row' = Finished(x, s, KnowsPid(a), S), row[x].state \in S,
               s = "cleanup_incomplete"
        PROVE  row'[x].state = "cleanup_incomplete" /\ row'[x].pid
    <2>1. row'[x].state = s
      BY <1>2, <1>5, FinishedState
    <2>2. row'[x].pid = (row[x].pid \/ KnowsPid(a))
      BY <1>2, <1>5, FinishedPid
    <2> QED BY <1>3, <1>5, <2>1, <2>2
  <1>6. CASE Finish(a) /\ row[Mine(a)].state \in FinishStates(a)
    <2> DEFINE s == AttemptState(job[a].status, job[a].revoked)
    <2>1. row' = Finished(x, s, KnowsPid(a), FinishStates(a))
      BY <1>1, <1>6 DEF Finish
    <2>2. s = "cleanup_incomplete"
      BY <1>2 DEF AttemptState
    <2> HIDE DEF s
    <2> QED BY <1>1, <1>5, <1>6, <2>1, <2>2
  <1>7. CASE Fallback(a)
    <2> DEFINE s == AttemptState(job[a].status, TRUE)
    <2>1. row' = Finished(x, s, KnowsPid(a), FallbackStates(a))
      BY <1>1, <1>7 DEF Fallback
    <2>2. s = "cleanup_incomplete"
      BY <1>2 DEF AttemptState
    <2> HIDE DEF s
    <2>3. row[x].state \in FallbackStates(a)
      BY <1>1, <1>2, <1>7 DEF AgentInv, Fallback, At, FallbackStates, Revocations, Unfinished
    <2> QED BY <1>5, <2>1, <2>2, <2>3
  <1>8. CASE Persist(a)
    BY <1>1, <1>2, <1>8 DEF Persist, At, AgentInv
  <1> QED BY <1>1, <1>6, <1>7, <1>8 DEF Reports

\* Nobody writes the row of a reported attempt or starts its child while the child is up.
LEMMA ReportedStaysBlocking ==
    ASSUME SurvivorInv, [Next]_vars, NEW x \in reported, child'[x] = "up"
    PROVE  row'[x].state = "cleanup_incomplete" /\ row'[x].pid
  <1>t. TypeInv /\ x \in Attempts
    BY DEF SurvivorInv, TypeInv, AttemptsTypeOK
  <1>1. ASSUME NEW a \in Agents, Mine(a) = x PROVE job[a].pc = "close"
    BY <1>1 DEF SurvivorInv, Supervises
  <1>2. ~\E a \in Agents : Mine(a) = x /\ (Launch(a) \/ Finish(a) \/ Fallback(a))
    BY <1>1 DEF Launch, Finish, Fallback, At
  <1>3. child[x] = "up"
    BY <1>2, <1>t, ChildStep
  <1>4. row[x].state = "cleanup_incomplete" /\ row[x].pid
    BY <1>3 DEF SurvivorInv, SurvivingWorkerBlocks
  <1> QED BY <1>1, <1>2, <1>3, <1>4, <1>t, RowStep DEF RowMoves, Survives, Active

LEMMA SurvivorStep == SurvivorInv /\ [Next]_vars => SurvivorInv'
  <1> SUFFICES ASSUME SurvivorInv, [Next]_vars PROVE SurvivorInv'
    OBVIOUS
  <1>t. TypeInv /\ TypeInv' /\ reported' \subseteq Attempts
    BY StepTypes DEF SurvivorInv, TypeInv, AttemptsTypeOK
  <1>1. \A a \in Agents : job'[a].pc \in {"idle", "blocker", "insert", "examine"} =>
                               Mine(a)' = NoAttempt
    BY NothingInHandStep
  <1>2. ASSUME NEW a \in Agents, NEW b \in Agents, NEW x \in Attempts,
               Supervises(a, x)', Supervises(b, x)'
        PROVE  a = b
    <2>1. CASE Supervises(a, x) /\ Supervises(b, x)
      BY <2>1 DEF SurvivorInv
    <2>2. CASE ~Supervises(a, x) /\ Supervises(b, x)
      BY <1>2, <2>2, SuperviseStep, SupervisedHasRow
    <2>3. CASE Supervises(a, x) /\ ~Supervises(b, x)
      BY <1>2, <2>3, SuperviseStep, SupervisedHasRow
    <2>4. CASE ~Supervises(a, x) /\ ~Supervises(b, x)
      <3>1. Insert(a) /\ Insert(b)
        BY <1>2, <2>4, SuperviseStep
      <3>2. ASSUME a # b PROVE FALSE
        <4>1. job'[b] = job[b]
          BY <3>1, <3>2, <1>t DEF Insert, TypeInv, AttemptsTypeOK
        <4>2. Supervises(b, x)
          BY <1>2, <4>1 DEF Supervises, Mine
        <4> QED BY <2>4, <4>2
      <3> QED BY <3>2
    <2> QED BY <2>1, <2>2, <2>3, <2>4
  <1>3. ASSUME NEW a \in Agents PROVE AgentInv(a)'
    <2>1. CASE Moves(a)
      BY <2>1, OwnStepKeeps
    <2>2. CASE ~Moves(a)
      <3>1. job'[a] = job[a]
        BY <2>2, <1>t, OthersStand
      <3>2. CASE job[a].pc \in Working \cup {"fallback", "persist"}
        BY <3>1, <3>2, BystanderKeeps
      <3>3. CASE job[a].pc \notin Working \cup {"fallback", "persist"}
        BY <3>1, <3>3 DEF AgentInv, Working
      <3> QED BY <3>2, <3>3
    <2> QED BY <2>1, <2>2
  <1>4. ASSUME NEW x \in Attempts, row'[x].state = "absent"
        PROVE  child'[x] = "none" /\ x \notin reported'
    <2>1. row[x].state = "absent"
      BY <1>4, <1>t, RowStep DEF RowMoves, Revocations, Unfinished
    <2>2. \A a \in Agents : ~Supervises(a, x)
      BY <2>1, SupervisedHasRow
    <2>3. ~\E a \in Agents : Mine(a) = x /\ (Launch(a) \/ Reports(a))
      BY <2>2 DEF Supervises, Launch, Reports, Finish, Fallback, Persist, At
    <2>4. child'[x] = "none"
      BY <2>1, <2>3, <1>t, ChildStep DEF SurvivorInv
    <2>5. x \notin reported'
      BY <2>1, <2>3, ReportStep DEF SurvivorInv
    <2> QED BY <2>4, <2>5
  <1>5. \A x \in reported' : \A a \in Agents : ~Supervises(a, x)'
    BY ReportedIsReleased
  <1>6. SurvivingWorkerBlocks'
    BY ReportedSurvivorBlocks, ReportedStaysBlocking DEF SurvivingWorkerBlocks
  <1> QED
    BY <1>t, <1>1, <1>2, <1>3, <1>4, <1>5, <1>6 DEF SurvivorInv

\* A worker that outlived the cleanup of its attempt blocks the profile for as long as it
\* lives, whatever heartbeats, revocations, closings of stale attempts and crashes came
\* before or after its agent said so.
THEOREM SurvivorsBlock == Spec => []SurvivingWorkerBlocks
  <1>1. Init => SurvivorInv
    <2> SUFFICES ASSUME Init PROVE SurvivorInv
      OBVIOUS
    <2>1. \A a \in Agents : job[a].pc = "idle" /\ Mine(a) = NoAttempt
      BY DEF Init, Idle, Mine
    <2>2. reported = {} /\ \A x \in Attempts : child[x] = "none"
      BY DEF Init
    <2>3. \A a \in Agents : AgentInv(a)
      BY <2>1 DEF AgentInv, Working
    <2> QED
      BY <2>1, <2>2, <2>3, InitTypes, AttemptsAssumption
         DEF SurvivorInv, Supervises, SurvivingWorkerBlocks
  <1>2. SurvivorInv => SurvivingWorkerBlocks
    BY DEF SurvivorInv
  <1> QED BY <1>1, <1>2, SurvivorStep, PTL DEF Spec

=============================================================================
