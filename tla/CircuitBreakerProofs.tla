------------------------ MODULE CircuitBreakerProofs ------------------------
(***************************************************************************)
(* Theorems about CircuitBreaker, for every number of processes, every     *)
(* threshold and every cooldown.                                           *)
(***************************************************************************)
EXTENDS CircuitBreaker, TLAPS

\* A row some process may hold or write: what it read stays below the threshold while
\* closed, and has a cooldown while open.
Sound(r) ==
    /\ r \in Row
    /\ r.status = "open" => r.hasCooldown
    /\ r.status = "closed" => r.failures < Threshold

\* Both statements about the row, said of the rows the processes remember as well:
\* those are what they write back.
RowInv ==
    /\ BreakerTypeOK
    /\ Sound(row)
    /\ \A p \in Processes : Sound(seen[p])

LEMMA ClosedIsSound == Sound(Closed)
    BY BreakerAssumption, SMT DEF Sound, Closed, Row

\* What record_failure computes from a sound row is sound.
LEMMA FailureIsSound ==
    ASSUME NEW r, Sound(r)
    PROVE  Sound(FailureOf(r))
<1> DEFINE failures == Counted(r.failures)
<1>1. r.failures \in 0..Threshold /\ r.status \in {"closed", "open", "half_open"}
          /\ r.hasCooldown \in BOOLEAN /\ r.cooling \in 0..Cooldown
    BY DEF Sound, Row
<1>2. failures \in 0..Threshold
    BY <1>1, BreakerAssumption DEF Counted
<1>3. CASE failures >= Threshold \/ r.status = "half_open"
    <2>1. FailureOf(r) = [status |-> "open", failures |-> failures, hasCooldown |-> TRUE,
                          cooling |-> Cooldown]
        BY <1>3 DEF FailureOf
    <2> QED
        BY <2>1, <1>2, BreakerAssumption DEF Sound, Row
<1>4. CASE ~(failures >= Threshold \/ r.status = "half_open")
    <2>1. FailureOf(r) = [r EXCEPT !.status = "closed", !.failures = failures]
        BY <1>4 DEF FailureOf
    <2>2. r = [status |-> r.status, failures |-> r.failures, hasCooldown |-> r.hasCooldown,
               cooling |-> r.cooling]
        BY DEF Sound, Row
    <2>3. FailureOf(r) = [status |-> "closed", failures |-> failures,
                          hasCooldown |-> r.hasCooldown, cooling |-> r.cooling]
        BY <2>1, <2>2
    <2>4. failures < Threshold
        BY <1>4, <1>2, BreakerAssumption
    <2> QED
        BY <2>3, <2>4, <1>1, <1>2 DEF Sound, Row
<1> QED
    BY <1>3, <1>4

LEMMA InitSound == Init => RowInv
<1> SUFFICES ASSUME Init PROVE RowInv
    OBVIOUS
<1>1. Sound(Closed)
    BY ClosedIsSound
<1> QED
    BY <1>1 DEF Init, RowInv, BreakerTypeOK, Sound, Steps

\* A process that reads the row remembers a sound one.
LEMMA ReadIsSound ==
    ASSUME RowInv, NEW p \in Processes, NEW step \in Steps, Read(p, step)
    PROVE  RowInv'
<1>1. row' = row /\ Sound(row)
    BY DEF Read, RowInv
<1>2. seen' \in [Processes -> Row] /\ pc' \in [Processes -> Steps]
    BY DEF Read, RowInv, BreakerTypeOK
<1>3. \A q \in Processes : seen'[q] = seen[q] \/ seen'[q] = row
    BY DEF Read, RowInv, BreakerTypeOK
<1> QED
    BY <1>1, <1>2, <1>3 DEF RowInv, BreakerTypeOK, Sound

\* A process that writes a sound row forgets what it had read.
LEMMA WriteIsSound ==
    ASSUME RowInv, NEW p \in Processes, NEW step \in Steps, Acted(p, step), Sound(row')
    PROVE  RowInv'
<1>1. Sound(Closed)
    BY ClosedIsSound
<1>2. seen' \in [Processes -> Row] /\ pc' \in [Processes -> Steps]
    BY <1>1 DEF Acted, RowInv, BreakerTypeOK, Sound
<1>3. \A q \in Processes : seen'[q] = seen[q] \/ seen'[q] = Closed
    BY DEF Acted, RowInv, BreakerTypeOK
<1> QED
    BY <1>1, <1>2, <1>3 DEF RowInv, BreakerTypeOK, Sound

\* Only the place of the process changes.
LEMMA MoveIsSound ==
    ASSUME RowInv, NEW p \in Processes, NEW step \in Steps,
           pc' = [pc EXCEPT ![p] = step], UNCHANGED <<row, seen>>
    PROVE  RowInv'
    BY DEF RowInv, BreakerTypeOK, Sound

LEMMA NextSound == RowInv /\ [Next]_vars => RowInv'
<1> SUFFICES ASSUME RowInv, [Next]_vars PROVE RowInv'
    OBVIOUS
<1>0. /\ {"idle", "asked", "halving", "calling", "failing", "succeeding"} \subseteq Steps
      /\ \A p \in Processes : Sound(seen[p])
      /\ Sound(row)
    BY DEF Steps, RowInv
<1>1. CASE Tick
    <2>1. row.cooling \in 0..Cooldown /\ row.cooling > 0 /\ row \in Row
        BY <1>1, <1>0 DEF Tick, Sound, Row
    <2>2. row' = [status |-> row.status, failures |-> row.failures,
                  hasCooldown |-> row.hasCooldown, cooling |-> row.cooling - 1]
        BY <1>1, <2>1 DEF Tick, Row
    <2>3. row.cooling - 1 \in 0..Cooldown
        BY <2>1, BreakerAssumption
    <2>4. Sound(row')
        BY <2>1, <2>2, <2>3, <1>0 DEF Sound, Row
    <2> QED
        BY <1>1, <2>4 DEF Tick, RowInv, BreakerTypeOK, Sound
<1>2. ASSUME NEW p \in Processes, AllowCall(p) PROVE RowInv'
    BY <1>2, <1>0, MoveIsSound DEF AllowCall
<1>3. ASSUME NEW p \in Processes, FindCooledDown(p) PROVE RowInv'
    BY <1>3, <1>0, MoveIsSound DEF FindCooledDown
<1>4. ASSUME NEW p \in Processes, ReadForHalfOpen(p) PROVE RowInv'
    BY <1>4, <1>0, ReadIsSound DEF ReadForHalfOpen
<1>5. ASSUME NEW p \in Processes, WriteHalfOpen(p) PROVE RowInv'
    <2>1. Sound(seen[p])
        BY <1>0
    <2>2. row' = [seen[p] EXCEPT !.status = "half_open"] /\ Acted(p, "calling")
        BY <1>5 DEF WriteHalfOpen
    <2>3. Sound(row')
        BY <2>1, <2>2 DEF Sound, Row
    <2> QED
        BY <2>2, <2>3, <1>0, WriteIsSound
<1>6. ASSUME NEW p \in Processes, CallNotRecorded(p) PROVE RowInv'
    BY <1>6, <1>0, MoveIsSound DEF CallNotRecorded
<1>7. ASSUME NEW p \in Processes, CallFails(p) \/ CallSucceeds(p) PROVE RowInv'
    BY <1>7, <1>0, ReadIsSound DEF CallFails, CallSucceeds
<1>8. ASSUME NEW p \in Processes, WriteFailure(p) PROVE RowInv'
    <2>1. Sound(FailureOf(seen[p]))
        BY <1>0, FailureIsSound
    <2> QED
        BY <1>8, <2>1, <1>0, WriteIsSound DEF WriteFailure
<1>9. ASSUME NEW p \in Processes, WriteSuccess(p) PROVE RowInv'
    <2>1. Sound(row')
        BY <1>9, <1>0, ClosedIsSound DEF WriteSuccess
    <2> QED
        BY <1>9, <2>1, <1>0, WriteIsSound DEF WriteSuccess
<1>10. CASE UNCHANGED vars
    BY <1>10 DEF vars, RowInv, BreakerTypeOK, Sound
<1> QED
    BY <1>1, <1>2, <1>3, <1>4, <1>5, <1>6, <1>7, <1>8, <1>9, <1>10
    DEF Next, Ask, Proceed

LEMMA RowInvHolds == Spec => []RowInv
    BY InitSound, NextSound, PTL DEF Spec

\* Whatever rows the processes write back over each other, every column keeps its
\* domain and an open circuit always has a cooldown_until.
THEOREM BreakerTypes == Spec => []BreakerTypeOK
<1>1. RowInv => BreakerTypeOK
    BY DEF RowInv
<1> QED
    BY <1>1, RowInvHolds, PTL

\* For every number of processes and every threshold, a circuit that has counted
\* failure_threshold failures is not closed, stale writes included.
THEOREM ThresholdOpens == Spec => []ClosedBelowThreshold
<1>1. RowInv => ClosedBelowThreshold
    BY DEF RowInv, Sound, ClosedBelowThreshold
<1> QED
    BY <1>1, RowInvHolds, PTL

=============================================================================
