------------------------ MODULE StockIngestionProofs ------------------------
(***************************************************************************)
(* Proofs about StockIngestion for any number of runs, keys, series and    *)
(* providers.                                                              *)
(***************************************************************************)
EXTENDS StockIngestion, FiniteSetTheorems, WellFoundedInduction, TLAPS

-----------------------------------------------------------------------------
(* Types                                                                   *)

LEMMA FetchCountIsNat ==
    ASSUME NEW x \in Records
    PROVE  1 + Cardinality({y \in SameKey(x) : fetched[y] > 0}) \in Nat
<1>1. IsFiniteSet(Records)
  BY FS_Product, StockAssumption DEF Records
<1>2. IsFiniteSet({y \in SameKey(x) : fetched[y] > 0})
  BY <1>1, FS_Subset DEF SameKey
<1> QED
  BY <1>2, FS_CardinalityType

LEMMA KeysOfRecords ==
    ASSUME NEW x \in Records
    PROVE  x[1] \in Runs /\ x[2] \in Providers /\ KeyOfRecord(x) \in BusinessKeys
           /\ KeyOfRecord(x)[1] = SeriesOf[x[1]]
BY StockAssumption DEF Records, BusinessKeys, KeyOfRecord

LEMMA TypesInit == Init => StockTypeOK
BY StockAssumption
DEF Init, StockTypeOK, Steps, Fetches, Statuses, NoRow, RequestRow, NotAsked

LEMMA FaultTypes ==
    ASSUME StockTypeOK, NEW r \in Runs, Fault(r)
    PROVE  faults' \in 0..MaxFaults /\ failing' \in [Runs -> BOOLEAN]
<1>1. failing' \in [Runs -> BOOLEAN]
  BY DEF Fault, StockTypeOK
<1>2. faults' \in 0..MaxFaults
  BY StockAssumption DEF Fault, Failure, StockTypeOK
<1> QED
  BY <1>1, <1>2

LEMMA BeginTypes ==
    ASSUME StockTypeOK, NEW r \in Runs, Begin(r)
    PROVE  StockTypeOK'
<1>1. UNCHANGED <<outcome, fetched, rows, reported, answer, served, runRow, current,
                  successor, blocked, links, offered>>
  BY DEF Begin
<1>2. CASE Goto(r, "asking") /\ Fault(r) /\ UNCHANGED request
  <2>1. pc' \in [Runs -> Steps]
    BY <1>2 DEF Goto, StockTypeOK, Steps
  <2> QED
    BY <1>1, <1>2, <2>1, FaultTypes DEF StockTypeOK
<1>3. CASE /\ Goto(r, "starting")
           /\ request' = IF request[KeyOf[r]] = NoRow
                         THEN [request EXCEPT ![KeyOf[r]] = [owner |-> r, status |-> "running"]]
                         ELSE request
           /\ UNCHANGED <<faults, failing>>
  <2>1. pc' \in [Runs -> Steps]
    BY <1>3 DEF Goto, StockTypeOK, Steps
  <2>2. request' \in [Keys -> RequestRow]
    <3>1. [owner |-> r, status |-> "running"] \in RequestRow
      BY DEF RequestRow, Statuses
    <3> QED
      BY <1>3, <3>1 DEF StockTypeOK
  <2> QED
    BY <1>1, <1>3, <2>1, <2>2 DEF StockTypeOK
<1> QED
  BY <1>2, <1>3 DEF Begin

LEMMA StartRunTypes ==
    ASSUME StockTypeOK, NEW r \in Runs, StartRun(r)
    PROVE  StockTypeOK'
<1>1. /\ pc' \in [Runs -> Steps]
      /\ UNCHANGED <<outcome, fetched, rows, reported, answer, served, request, current,
                     successor, blocked, links, offered>>
  BY DEF StartRun, Goto, StockTypeOK, Steps
<1>2. CASE Fault(r) /\ UNCHANGED runRow
  BY <1>1, <1>2, FaultTypes DEF StockTypeOK
<1>3. CASE runRow' = [runRow EXCEPT ![r] = "running"] /\ UNCHANGED <<faults, failing>>
  <2>1. runRow' \in [Runs -> Statuses \cup {"none"}]
    BY <1>3 DEF StockTypeOK, Statuses
  <2> QED
    BY <1>1, <1>3, <2>1 DEF StockTypeOK
<1> QED
  BY <1>2, <1>3 DEF StartRun

LEMMA SkipTypes ==
    ASSUME StockTypeOK, NEW r \in Runs, SkipDuplicate(r) \/ GoOn(r)
    PROVE  StockTypeOK'
<1>1. CASE SkipDuplicate(r)
  <2>1. pc' \in [Runs -> Steps] /\ answer' \in [Runs -> Statuses \cup {"none"}]
    BY <1>1 DEF SkipDuplicate, Goto, StockTypeOK, Steps, Statuses
  <2> QED
    BY <1>1, <2>1 DEF SkipDuplicate, StockTypeOK, store
<1>2. CASE GoOn(r)
  <2>1. pc' \in [Runs -> Steps]
    BY <1>2 DEF GoOn, Goto, StockTypeOK, Steps
  <2>2. faults' \in 0..MaxFaults /\ failing' \in [Runs -> BOOLEAN]
    <3>1. CASE UNCHANGED <<faults, failing>>
      BY <3>1 DEF StockTypeOK
    <3> QED
      BY <1>2, <3>1, FaultTypes DEF GoOn
  <2> QED
    BY <1>2, <2>1, <2>2 DEF GoOn, StockTypeOK, store
<1> QED
  BY <1>1, <1>2

LEMMA FetchTypes ==
    ASSUME StockTypeOK, NEW r \in Runs, NEW p \in Providers, Fetch(r, p)
    PROVE  StockTypeOK'
<1>1. <<r, p>> \in Records
  BY DEF Records
<1>2. PICK o \in Fetches \ {"none"} :
         /\ outcome' = [outcome EXCEPT ![r][p] = o]
         /\ failing' = [failing EXCEPT ![r] = @ \/ o \in {"failed", "unsaved"}]
         /\ fetched' = IF o # "success" THEN fetched
                       ELSE [fetched EXCEPT ![<<r, p>>] =
                                1 + Cardinality({y \in SameKey(<<r, p>>) : fetched[y] > 0})]
  BY DEF Fetch
<1>3. fetched' \in [Records -> Nat]
  BY <1>1, <1>2, FetchCountIsNat DEF StockTypeOK
<1>4. outcome' \in [Runs -> [Providers -> Fetches]]
  BY <1>2 DEF StockTypeOK
<1>5. failing' \in [Runs -> BOOLEAN]
  BY <1>2 DEF StockTypeOK
<1>6. UNCHANGED <<pc, rows, reported, answer, served, store, faults>>
  BY DEF Fetch
<1> QED
  BY <1>3, <1>4, <1>5, <1>6 DEF StockTypeOK, store

LEMMA NormalizeTypes ==
    ASSUME StockTypeOK, NEW r \in Runs, Normalize(r)
    PROVE  StockTypeOK'
<1>1. PICK good \in SUBSET Providers :
         /\ rows' = [rows EXCEPT ![r] = good]
         /\ failing' = [failing EXCEPT ![r] = @ \/ good # Successes(r)]
  BY DEF Normalize, NormalizedRows, Successes
<1>2. rows' \in [Runs -> SUBSET Providers]
  BY <1>1 DEF StockTypeOK
<1>3. failing' \in [Runs -> BOOLEAN]
  BY <1>1 DEF StockTypeOK
<1>4. pc' \in [Runs -> Steps]
  BY DEF Normalize, Goto, StockTypeOK, Steps
<1>5. UNCHANGED <<outcome, fetched, reported, answer, served, store, faults>>
  BY DEF Normalize
<1> QED
  BY <1>2, <1>3, <1>4, <1>5 DEF StockTypeOK, store

LEMMA ConfirmTypes ==
    ASSUME StockTypeOK, NEW r \in Runs, Confirm(r)
    PROVE  StockTypeOK'
<1>1. PICK kept \in SUBSET rows[r] :
         /\ rows' = [rows EXCEPT ![r] = kept]
         /\ failing' = [failing EXCEPT ![r] = @ \/ kept # rows[r]]
  BY DEF Confirm, Datable
<1>2. rows' \in [Runs -> SUBSET Providers]
  BY <1>1 DEF StockTypeOK
<1>3. failing' \in [Runs -> BOOLEAN]
  BY <1>1 DEF StockTypeOK
<1>4. pc' \in [Runs -> Steps]
  BY DEF Confirm, Goto, StockTypeOK, Steps
<1>5. UNCHANGED <<outcome, fetched, reported, answer, served, store, faults>>
  BY DEF Confirm
<1> QED
  BY <1>2, <1>3, <1>4, <1>5 DEF StockTypeOK, store

LEMMA MergedRecords ==
    ASSUME StockTypeOK, NEW r \in Runs, NEW x \in Merged(r)
    PROVE  x \in Records /\ x[1] = r
BY DEF Merged, StockTypeOK, Records

LEMMA RetainedType ==
    ASSUME StockTypeOK, NEW x \in Records
    PROVE  Retained(x) \in Records
BY KeysOfRecords DEF Retained, StockTypeOK

LEMMA PersistNothingTypes ==
    ASSUME StockTypeOK, NEW r \in Runs, PersistNothing(r)
    PROVE  StockTypeOK'
BY DEF PersistNothing, StockTypeOK, Goto, Steps, store

LEMMA StoreTypes ==
    ASSUME StockTypeOK, NEW r \in Runs, Store(r)
    PROVE  StockTypeOK'
<1>1. PICK x \in Merged(r), bad \in BOOLEAN :
       /\ blocked' = IF bad THEN blocked \cup {x} ELSE blocked
       /\ rows' = [rows EXCEPT ![r] = {x[2]}]
       /\ \/ /\ Goto(r, "linking")
             /\ Upsert(x)
             /\ offered' = offered \cup {x}
             /\ reported' = [reported EXCEPT ![r] = {Retained(x)}]
             /\ UNCHANGED <<failing, faults>>
          \/ /\ Goto(r, "finishing")
             /\ Fault(r)
             /\ reported' = [reported EXCEPT ![r] = {x}]
             /\ UNCHANGED <<current, successor, offered>>
  BY DEF Store
<1>2. x \in Records /\ Retained(x) \in Records /\ KeyOfRecord(x) \in BusinessKeys
  BY <1>1, MergedRecords, RetainedType, KeysOfRecords
<1>3. UNCHANGED <<outcome, fetched, answer, served, request, runRow, links>>
  BY DEF Store
<1>4. blocked' \subseteq Records /\ rows' \in [Runs -> SUBSET Providers]
  BY <1>1, <1>2, KeysOfRecords DEF StockTypeOK
<1>5. pc' \in [Runs -> Steps]
  BY <1>1 DEF Goto, StockTypeOK, Steps
<1>6. CASE /\ Fault(r)
           /\ reported' = [reported EXCEPT ![r] = {x}]
           /\ UNCHANGED <<current, successor, offered>>
  BY <1>2, <1>3, <1>4, <1>5, <1>6, FaultTypes DEF StockTypeOK
<1>7. CASE /\ Upsert(x)
           /\ offered' = offered \cup {x}
           /\ reported' = [reported EXCEPT ![r] = {Retained(x)}]
           /\ UNCHANGED <<failing, faults>>
  <2>1. current' \in [BusinessKeys -> Records \cup {None}]
    BY <1>2, <1>7 DEF Upsert, StockTypeOK
  <2>2. successor' \in [Records -> Records \cup {None}]
    BY <1>2, <1>7 DEF Upsert, StockTypeOK
  <2> QED
    BY <1>2, <1>3, <1>4, <1>5, <1>7, <2>1, <2>2 DEF StockTypeOK
<1> QED
  BY <1>1, <1>6, <1>7

LEMMA LinkTypes ==
    ASSUME StockTypeOK, NEW r \in Runs, Link(r)
    PROVE  StockTypeOK'
<1>1. /\ pc' \in [Runs -> Steps]
      /\ UNCHANGED <<outcome, fetched, rows, answer, served, request, runRow, current,
                     successor, blocked, offered>>
  BY DEF Link, Goto, StockTypeOK, Steps
<1>2. CASE /\ links' = links \cup ({r} \X reported[r])
           /\ UNCHANGED <<reported, failing, faults>>
  <2>1. links' \subseteq Runs \X Records
    BY <1>2 DEF StockTypeOK
  <2> QED
    BY <1>1, <1>2, <2>1 DEF StockTypeOK
<1>3. CASE /\ Fault(r)
           /\ reported' = [reported EXCEPT ![r] = {r} \X rows[r]]
           /\ UNCHANGED links
  <2>1. {r} \X rows[r] \subseteq Records
    BY DEF StockTypeOK, Records
  <2>2. reported' \in [Runs -> SUBSET Records]
    BY <1>3, <2>1 DEF StockTypeOK
  <2> QED
    BY <1>1, <1>3, <2>2, FaultTypes DEF StockTypeOK
<1> QED
  BY <1>2, <1>3 DEF Link

LEMMA StatusType ==
    ASSUME NEW r
    PROVE  ResponseStatus(r) \in Statuses \ {"running"}
BY DEF ResponseStatus, Statuses

LEMMA FinishTypes ==
    ASSUME StockTypeOK, NEW r \in Runs, Finish(r)
    PROVE  StockTypeOK'
<1> DEFINE s == ResponseStatus(r)
<1>1. s \in Statuses
  BY StatusType
<1>2. KeyOf[r] \in Keys
  BY StockAssumption
<1>3. /\ pc' \in [Runs -> Steps]
      /\ rows' \in [Runs -> SUBSET Providers]
      /\ failing' \in [Runs -> BOOLEAN]
      /\ outcome' \in [Runs -> [Providers -> Fetches]]
  BY DEF Finish, Goto, StockTypeOK, Steps, NotAsked, Fetches
<1>4. answer' = [answer EXCEPT ![r] = s]
  BY DEF Finish
<1>5. answer' \in [Runs -> Statuses \cup {"none"}]
  BY <1>1, <1>4 DEF StockTypeOK
<1>6. /\ UNCHANGED <<fetched, reported, served, current, successor, blocked, links, offered>>
      /\ \/ /\ request' = IF request[KeyOf[r]] = NoRow THEN request
                          ELSE [request EXCEPT ![KeyOf[r]].status = s]
            /\ runRow' = IF runRow[r] = "none" THEN runRow ELSE [runRow EXCEPT ![r] = s]
            /\ UNCHANGED faults
         \/ Failure /\ UNCHANGED <<request, runRow>>
  BY DEF Finish
<1> HIDE DEF s
<1>7. request' \in [Keys -> RequestRow]
  <2>1. ASSUME request[KeyOf[r]] # NoRow
        PROVE  [request[KeyOf[r]] EXCEPT !.status = s] \in RequestRow
    <3>1. request[KeyOf[r]] \in [owner : Runs, status : Statuses]
      BY <1>2, <2>1 DEF StockTypeOK, RequestRow
    <3> QED
      BY <1>1, <3>1 DEF RequestRow
  <2>2. CASE UNCHANGED request
    BY <2>2 DEF StockTypeOK
  <2>3. CASE request[KeyOf[r]] # NoRow
             /\ request' = [request EXCEPT ![KeyOf[r]] = [request[KeyOf[r]] EXCEPT !.status = s]]
    BY <1>2, <2>1, <2>3 DEF StockTypeOK
  <2> QED
    BY <1>6, <2>2, <2>3
<1>8. runRow' \in [Runs -> Statuses \cup {"none"}]
  BY <1>1, <1>6 DEF StockTypeOK
<1>9. faults' \in 0..MaxFaults
  BY <1>6, StockAssumption DEF StockTypeOK, Failure
<1> QED
  BY <1>3, <1>5, <1>6, <1>7, <1>8, <1>9 DEF StockTypeOK

LEMMA ReplayTypes ==
    ASSUME StockTypeOK, NEW r \in Runs, Replay(r)
    PROVE  StockTypeOK'
<1>1. pc' \in [Runs -> Steps]
  BY DEF Replay, Goto, StockTypeOK, Steps
<1>2. served' \in [Runs -> SUBSET Records]
  <2> DEFINE R == IF request[KeyOf[r]].status # "success" THEN {}
                  ELSE Stored({Latest[x] : x \in Adopted(request[KeyOf[r]].owner)})
  <2>1. R \subseteq Records
    BY DEF Stored
  <2>2. served' = [served EXCEPT ![r] = R]
    BY DEF Replay
  <2> HIDE DEF R
  <2> QED
    BY <2>1, <2>2 DEF StockTypeOK
<1>3. UNCHANGED <<outcome, fetched, rows, failing, reported, answer, store, faults>>
  BY DEF Replay
<1> QED
  BY <1>1, <1>2, <1>3 DEF StockTypeOK, store

LEMMA DieTypes ==
    ASSUME StockTypeOK, NEW r \in Runs, Die(r)
    PROVE  StockTypeOK'
<1>1. pc' \in [Runs -> Steps]
  BY DEF Die, StockTypeOK, Steps
<1>2. faults' \in 0..MaxFaults
  BY StockAssumption DEF Die, Failure, StockTypeOK
<1> QED
  BY <1>1, <1>2 DEF Die, StockTypeOK, store

LEMMA TypesNext == StockTypeOK /\ [Next]_vars => StockTypeOK'
<1> SUFFICES ASSUME StockTypeOK, [Next]_vars
             PROVE  StockTypeOK'
  OBVIOUS
<1>1. CASE UNCHANGED vars
  BY <1>1 DEF vars, local, store, StockTypeOK
<1>2. CASE Next
  <2>1. PICK r \in Runs : Begin(r) \/ Work(r) \/ Die(r)
    BY <1>2 DEF Next
  <2>2. CASE Work(r)
    BY <2>2, StartRunTypes, SkipTypes, FetchTypes, NormalizeTypes, ConfirmTypes, StoreTypes,
       LinkTypes, PersistNothingTypes, FinishTypes, ReplayTypes DEF Work
  <2> QED
    BY <2>1, <2>2, BeginTypes, DieTypes
<1> QED
  BY <1>1, <1>2

\* The columns keep their types in every behaviour: for any number of runs, keys and
\* providers, and any number of faults.
THEOREM StockTypes == Spec => []StockTypeOK
<1> QED
  BY TypesInit, TypesNext, PTL DEF Spec

-----------------------------------------------------------------------------
(* The newest fetch wins                                                   *)

\* A record is offered by a run that fetches no more; its time stands.
Fetched == {"linking", "finishing", "done", "dead"}

OffererFetchesNoMore == \A x \in offered : pc[x[1]] \in Fetched

NewestIsCurrent == \A k \in BusinessKeys : Table!IsNewest(current[k], k, offered)

TableInv == OffererFetchesNoMore /\ NewestIsCurrent

LEMMA TableInit == Init => TableInv /\ Table!Init
BY DEF Init, TableInv, OffererFetchesNoMore, NewestIsCurrent, Table!IsNewest, Table!Init

\* Steps that leave the table, the offers and the fetches alone.
LEMMA TableUntouched ==
    ASSUME StockTypeOK, TableInv, UNCHANGED <<current, offered, fetched>>,
           \A q \in Runs : pc[q] \in Fetched => pc'[q] \in Fetched
    PROVE  TableInv' /\ [Table!Next]_(Table!vars)
<1>1. OffererFetchesNoMore'
  BY KeysOfRecords DEF TableInv, OffererFetchesNoMore, StockTypeOK
<1>2. NewestIsCurrent'
  BY DEF TableInv, NewestIsCurrent, Table!IsNewest
<1> QED
  BY <1>1, <1>2 DEF TableInv, Table!vars

LEMMA FetchTable ==
    ASSUME StockTypeOK, TableInv, NEW r \in Runs, NEW p \in Providers, Fetch(r, p)
    PROVE  TableInv' /\ [Table!Next]_(Table!vars)
<1>1. \A x \in offered : fetched'[x] = fetched[x]
  <2>1. <<r, p>> \notin offered
    BY DEF Fetch, TableInv, OffererFetchesNoMore, Fetched
  <2> QED
    BY <2>1 DEF Fetch, StockTypeOK
<1>2. fetched' \in [Records -> Nat]
  BY FetchTypes DEF StockTypeOK
<1>3. UNCHANGED <<offered, current, pc>>
  BY DEF Fetch, store
<1>4. Table!Fetch
  BY <1>1, <1>2, <1>3 DEF Table!Fetch
<1>5. OffererFetchesNoMore'
  BY <1>3 DEF TableInv, OffererFetchesNoMore
<1>6. NewestIsCurrent'
  BY <1>1, <1>3 DEF TableInv, NewestIsCurrent, Table!IsNewest
<1> QED
  BY <1>4, <1>5, <1>6 DEF TableInv, Table!Next

\* The comparison of _is_newer keeps the row the newest of its key.
LEMMA UpsertKeepsNewest ==
    ASSUME StockTypeOK, NewestIsCurrent, NEW x \in Records, Upsert(x),
           offered' = offered \cup {x}, UNCHANGED fetched
    PROVE  NewestIsCurrent'
<1> SUFFICES ASSUME NEW k \in BusinessKeys
             PROVE  Table!IsNewest(current[k], k, offered)'
  BY DEF NewestIsCurrent
<1>1. Table!IsNewest(current[k], k, offered)
  BY DEF NewestIsCurrent
<1>2. KeyOfRecord(x) \in BusinessKeys /\ x # None
  BY KeysOfRecords, StockAssumption DEF Records
<1>3. CASE k # KeyOfRecord(x)
  <2>1. current'[k] = current[k]
    BY <1>2, <1>3 DEF Upsert, StockTypeOK
  <2> QED
    BY <1>1, <1>3, <2>1 DEF Table!IsNewest
<1>4. CASE k = KeyOfRecord(x)
  <2>1. current'[k] = Retained(x)
    BY <1>2, <1>4 DEF Upsert, StockTypeOK
  <2>2. CASE current[k] = None
    <3>1. \A y \in offered : KeyOfRecord(y) # k
      BY <1>1, <2>2, StockAssumption DEF Table!IsNewest, StockTypeOK, Records
    <3>2. current'[k] = x
      BY <2>1, <2>2, <1>4 DEF Retained
    <3> QED
      BY <1>4, <3>1, <3>2 DEF Table!IsNewest, StockTypeOK
  <2>3. CASE current[k] # None
    <3>1. /\ current[k] \in offered /\ KeyOfRecord(current[k]) = k
          /\ \A y \in offered : KeyOfRecord(y) = k => fetched[y] <= fetched[current[k]]
      BY <1>1, <2>3 DEF Table!IsNewest
    <3>2. \A y \in offered \cup {x} : fetched[y] \in Nat
      BY DEF StockTypeOK
    <3>3. CASE fetched[x] > fetched[current[k]]
      <4>1. current'[k] = x
        BY <1>4, <2>1, <3>3 DEF Retained, IsNewer
      <4>2. \A y \in offered' : KeyOfRecord(y) = k => fetched[y] <= fetched[x]
        BY <3>1, <3>2, <3>3
      <4> QED
        BY <1>4, <4>1, <4>2 DEF Table!IsNewest
    <3>4. CASE ~(fetched[x] > fetched[current[k]])
      <4>1. current'[k] = current[k]
        BY <1>4, <2>1, <2>3, <3>4 DEF Retained, IsNewer
      <4>2. \A y \in offered' : KeyOfRecord(y) = k => fetched[y] <= fetched[current[k]]
        BY <3>1, <3>2, <3>4
      <4> QED
        BY <3>1, <4>1, <4>2 DEF Table!IsNewest
    <3> QED
      BY <3>3, <3>4
  <2> QED
    BY <2>2, <2>3
<1> QED
  BY <1>3, <1>4

LEMMA StoreTable ==
    ASSUME StockTypeOK, TableInv, NEW r \in Runs, Store(r)
    PROVE  TableInv' /\ [Table!Next]_(Table!vars)
<1>1. PICK x \in Merged(r) :
         \/ Upsert(x) /\ offered' = offered \cup {x}
         \/ UNCHANGED <<current, offered>>
  BY DEF Store
<1>2. PICK s \in {"linking", "finishing"} : pc' = [pc EXCEPT ![r] = s]
  BY DEF Store, Goto
<1>3. UNCHANGED fetched
  BY DEF Store
<1>4. CASE UNCHANGED <<current, offered>>
  <2>1. \A q \in Runs : pc[q] \in Fetched => pc'[q] \in Fetched
    BY <1>2 DEF StockTypeOK, Fetched
  <2> QED
    BY <1>3, <1>4, <2>1, TableUntouched
<1>5. CASE Upsert(x) /\ offered' = offered \cup {x}
  <2>1. x \in Records /\ x[1] = r
    BY <1>1, MergedRecords
  <2>2. NewestIsCurrent'
    BY <1>3, <1>5, <2>1, UpsertKeepsNewest DEF TableInv
  <2>3. OffererFetchesNoMore'
    BY <1>2, <1>5, <2>1, KeysOfRecords DEF TableInv, OffererFetchesNoMore, StockTypeOK, Fetched
  <2>4. current' \in [BusinessKeys -> Records \cup {None}]
    BY StoreTypes DEF StockTypeOK
  <2>5. Table!Offer(x)
    <3>1. \A k \in BusinessKeys : Table!IsNewest(current[k], k, offered)'
      BY <2>2 DEF NewestIsCurrent
    <3> QED
      BY <1>3, <1>5, <2>4, <3>1 DEF Table!Offer, Table!IsNewest
  <2> QED
    BY <2>1, <2>2, <2>3, <2>5 DEF TableInv, Table!Next
<1> QED
  BY <1>1, <1>4, <1>5

LEMMA TableNext ==
    StockTypeOK /\ TableInv /\ [Next]_vars => TableInv' /\ [Table!Next]_(Table!vars)
<1> SUFFICES ASSUME StockTypeOK, TableInv, [Next]_vars
             PROVE  TableInv' /\ [Table!Next]_(Table!vars)
  OBVIOUS
<1> DEFINE Quiet == /\ UNCHANGED <<current, offered, fetched>>
                    /\ \A q \in Runs : pc[q] \in Fetched => pc'[q] \in Fetched
<1>0. ASSUME Quiet PROVE TableInv' /\ [Table!Next]_(Table!vars)
  BY <1>0, TableUntouched
<1>1. CASE UNCHANGED vars
  BY <1>0, <1>1 DEF vars, local, store
<1>2. CASE Next
  <2>1. PICK r \in Runs : Begin(r) \/ Work(r) \/ Die(r)
    BY <1>2 DEF Next
  <2>2. CASE Begin(r) \/ StartRun(r)
    <3>1. PICK s \in {"starting", "asking"} : pc' = [pc EXCEPT ![r] = s]
      BY <2>2 DEF Begin, StartRun, Goto
    <3>2. UNCHANGED <<current, offered, fetched>> /\ pc[r] \in {"idle", "starting"}
      BY <2>2 DEF Begin, StartRun
    <3> QED
      BY <1>0, <3>1, <3>2 DEF StockTypeOK, Fetched
  <2>3. CASE Die(r)
    <3>1. \A q \in Runs : pc'[q] \in {"dead", pc[q]}
      BY <2>3 DEF Die
    <3>2. UNCHANGED <<current, offered, fetched>>
      BY <2>3 DEF Die, store
    <3> QED
      BY <1>0, <3>1, <3>2 DEF Fetched
  <2>4. CASE SkipDuplicate(r) \/ GoOn(r)
    <3>1. UNCHANGED <<current, offered, fetched>> /\ pc[r] = "asking"
          /\ pc' = [pc EXCEPT ![r] = pc'[r]]
      BY <2>4 DEF SkipDuplicate, GoOn, Goto, store, StockTypeOK
    <3> QED
      BY <1>0, <3>1 DEF StockTypeOK, Fetched
  <2>5. CASE \E p \in Providers : Fetch(r, p)
    BY <2>5, FetchTable
  <2>6. CASE Normalize(r)
    <3>1. UNCHANGED <<current, offered, fetched>> /\ pc[r] = "fetching"
          /\ pc' = [pc EXCEPT ![r] = pc'[r]]
      BY <2>6 DEF Normalize, Goto, store, StockTypeOK
    <3> QED
      BY <1>0, <3>1 DEF StockTypeOK, Fetched
  <2>7. CASE Confirm(r)
    <3>1. UNCHANGED <<current, offered, fetched>> /\ pc[r] = "confirming"
          /\ pc' = [pc EXCEPT ![r] = "persisting"]
      BY <2>7 DEF Confirm, Goto, store
    <3> QED
      BY <1>0, <3>1 DEF StockTypeOK, Fetched
  <2>8. CASE Store(r)
    BY <2>8, StoreTable
  <2>9. CASE PersistNothing(r) \/ Link(r)
    <3>1. UNCHANGED <<current, offered, fetched>> /\ pc' = [pc EXCEPT ![r] = "finishing"]
      BY <2>9 DEF PersistNothing, Link, Goto, store
    <3> QED
      BY <1>0, <3>1 DEF StockTypeOK, Fetched
  <2>10. CASE Finish(r)
    <3>1. UNCHANGED <<current, offered, fetched>> /\ pc' = [pc EXCEPT ![r] = "done"]
      BY <2>10 DEF Finish, Goto
    <3> QED
      BY <1>0, <3>1 DEF StockTypeOK, Fetched
  <2>11. CASE Replay(r)
    <3>1. UNCHANGED <<current, offered, fetched>> /\ pc' = [pc EXCEPT ![r] = "done"]
      BY <2>11 DEF Replay, Goto, store
    <3> QED
      BY <1>0, <3>1 DEF StockTypeOK, Fetched
  <2> QED
    BY <2>1, <2>2, <2>3, <2>4, <2>5, <2>6, <2>7, <2>8, <2>9, <2>10, <2>11 DEF Work
<1> QED
  BY <1>1, <1>2

\* The standard table implements NewestWins: whatever the order in which runs fetch,
\* offer, fail and die, a business key shows the newest record ever committed, also one
\* whose request was never linked to it.
THEOREM NewestFetchWinsAlways == Spec => NewestFetchWins
<1>1. Init => StockTypeOK /\ TableInv /\ Table!Init
  BY TypesInit, TableInit
<1>2. StockTypeOK /\ TableInv /\ [Next]_vars
        => (StockTypeOK /\ TableInv)' /\ [Table!Next]_(Table!vars)
  BY TypesNext, TableNext
<1> QED
  BY <1>1, <1>2, PTL DEF Spec, NewestFetchWins, Table!Spec

-----------------------------------------------------------------------------
(* Success is durable                                                      *)

\* r is tied to a committed record of its own series.
HasStored(r) == \E x \in offered : <<r, x>> \in links /\ SeriesOf[x[1]] = SeriesOf[r]

NothingReportedYet == \A r \in Runs : pc[r] \notin Fetched => reported[r] = {}

\* Between the upsert and the link a run holds a record of its series that is stored.
RetainedIsStored ==
    \A r \in Runs : pc[r] = "linking" =>
        /\ reported[r] # {}
        /\ \A x \in reported[r] : x \in offered /\ SeriesOf[x[1]] = SeriesOf[r]

\* What a run reports without an error is what it stored and linked.
ReportedIsStored ==
    \A r \in Runs :
        pc[r] = "finishing" /\ reported[r] # {} /\ ~failing[r] => HasStored(r)

KeyIsStored ==
    \A k \in Keys : request[k].status = "success" =>
        \E q \in Runs : KeyOf[q] = k /\ HasStored(q)

AnswerIsStored ==
    \A r \in Runs : answer[r] = "success" =>
        \E q \in Runs : KeyOf[q] = KeyOf[r] /\ HasStored(q)

RunIsStored == \A r \in Runs : runRow[r] = "success" => HasStored(r)

DurableInv ==
    /\ NothingReportedYet /\ RetainedIsStored /\ ReportedIsStored
    /\ KeyIsStored /\ AnswerIsStored /\ RunIsStored

LEMMA DurableInit == Init => DurableInv
BY DEF Init, DurableInv, NothingReportedYet, RetainedIsStored, ReportedIsStored, KeyIsStored,
       AnswerIsStored, RunIsStored, NoRow, Fetched

LEMMA DurableImplies == DurableInv => SuccessIsDurable /\ SkippedOnlyAfterStoring
BY DEF DurableInv, RunIsStored, AnswerIsStored, HasStored, SuccessIsDurable,
       SkippedOnlyAfterStoring

\* Links and offers only grow, so what was stored stays stored.
LEMMA StoredStays ==
    ASSUME offered \subseteq offered', links \subseteq links', NEW r \in Runs, HasStored(r)
    PROVE  HasStored(r)'
BY DEF HasStored

\* Steps of r that neither report nor record a success.
LEMMA DurableUntouched ==
    ASSUME StockTypeOK, DurableInv, NEW r \in Runs, NEW s \in Steps \ {"linking", "finishing"},
           pc[r] \notin Fetched,
           s \in {"done", "dead"} \/ reported'[r] = reported[r],
           pc' = [pc EXCEPT ![r] = s],
           UNCHANGED <<reported, links, offered>>,
           \A q \in Runs \ {r} : failing'[q] = failing[q],
           \A k \in Keys : request'[k].status = "success" => request[k].status = "success",
           \A q \in Runs : runRow'[q] = "success" => runRow[q] = "success",
           \A q \in Runs : answer'[q] = "success" =>
               answer[q] = "success" \/ request[KeyOf[q]].status = "success"
    PROVE  DurableInv'
<1>0. \A q \in Runs : HasStored(q) => HasStored(q)'
  BY StoredStays
<1>1. NothingReportedYet' /\ RetainedIsStored' /\ ReportedIsStored'
  BY <1>0 DEF DurableInv, NothingReportedYet, RetainedIsStored, ReportedIsStored, StockTypeOK,
              Fetched
<1>2. KeyIsStored'
  BY <1>0 DEF DurableInv, KeyIsStored
<1>3. AnswerIsStored'
  <2> SUFFICES ASSUME NEW q \in Runs, answer'[q] = "success"
               PROVE  \E u \in Runs : KeyOf[u] = KeyOf[q] /\ HasStored(u)'
    BY DEF AnswerIsStored
  <2>1. KeyOf[q] \in Keys
    BY StockAssumption
  <2>2. \E u \in Runs : KeyOf[u] = KeyOf[q] /\ HasStored(u)
    BY <2>1 DEF DurableInv, AnswerIsStored, KeyIsStored
  <2> QED
    BY <1>0, <2>2
<1>4. RunIsStored'
  BY <1>0 DEF DurableInv, RunIsStored
<1> QED
  BY <1>1, <1>2, <1>3, <1>4 DEF DurableInv

LEMMA StoreDurable ==
    ASSUME StockTypeOK, TableInv, DurableInv, NEW r \in Runs, Store(r)
    PROVE  DurableInv'
<1>1. PICK x \in Merged(r) :
         \/ /\ pc' = [pc EXCEPT ![r] = "linking"]
            /\ Upsert(x)
            /\ offered' = offered \cup {x}
            /\ reported' = [reported EXCEPT ![r] = {Retained(x)}]
            /\ UNCHANGED failing
         \/ /\ pc' = [pc EXCEPT ![r] = "finishing"]
            /\ Fault(r)
            /\ reported' = [reported EXCEPT ![r] = {x}]
            /\ UNCHANGED offered
  BY DEF Store, Goto
<1>2. UNCHANGED <<answer, request, runRow, links>>
  BY DEF Store
<1>3. \A q \in Runs : HasStored(q) => HasStored(q)'
  BY <1>1, <1>2, StoredStays
<1>4. \A q \in Runs \ {r} :
         failing'[q] = failing[q] /\ reported'[q] = reported[q] /\ pc'[q] = pc[q]
  BY <1>1 DEF Fault, StockTypeOK
<1>5. pc'[r] \in {"linking", "finishing"} /\ (pc'[r] = "finishing" => failing'[r])
  BY <1>1 DEF Fault, StockTypeOK
<1>6. ASSUME pc'[r] = "linking"
      PROVE  /\ reported'[r] = {Retained(x)} /\ Retained(x) \in offered'
             /\ SeriesOf[Retained(x)[1]] = SeriesOf[r]
  <2>1. x \in Records /\ x[1] = r /\ KeyOfRecord(x) \in BusinessKeys
    BY <1>1, MergedRecords, KeysOfRecords
  <2>2. offered' = offered \cup {x} /\ reported'[r] = {Retained(x)}
    BY <1>1, <1>6 DEF StockTypeOK
  <2>3. Retained(x) \in offered' /\ KeyOfRecord(Retained(x)) = KeyOfRecord(x)
    BY <2>1, <2>2 DEF Retained, TableInv, NewestIsCurrent, Table!IsNewest
  <2> QED
    BY <2>1, <2>2, <2>3, RetainedType, KeysOfRecords
<1>7. NothingReportedYet'
  BY <1>4, <1>5 DEF DurableInv, NothingReportedYet, Fetched
<1>8. RetainedIsStored'
  <2>1. offered \subseteq offered'
    BY <1>1
  <2> QED
    BY <1>4, <1>6, <2>1 DEF DurableInv, RetainedIsStored
<1>9. ReportedIsStored'
  BY <1>3, <1>4, <1>5 DEF DurableInv, ReportedIsStored
<1>10. KeyIsStored' /\ AnswerIsStored' /\ RunIsStored'
  BY <1>2, <1>3 DEF DurableInv, KeyIsStored, AnswerIsStored, RunIsStored
<1> QED
  BY <1>7, <1>8, <1>9, <1>10 DEF DurableInv

LEMMA LinkDurable ==
    ASSUME StockTypeOK, DurableInv, NEW r \in Runs, Link(r)
    PROVE  DurableInv'
<1>1. pc[r] = "linking" /\ pc' = [pc EXCEPT ![r] = "finishing"]
      /\ UNCHANGED <<answer, request, runRow, offered>>
  BY DEF Link, Goto
<1>2. \/ links' = links \cup ({r} \X reported[r]) /\ UNCHANGED <<reported, failing>>
      \/ Fault(r) /\ UNCHANGED links /\ reported' = [reported EXCEPT ![r] = {r} \X rows[r]]
  BY DEF Link
<1>3. \A q \in Runs : HasStored(q) => HasStored(q)'
  BY <1>1, <1>2, StoredStays
<1>4. ~failing'[r] => HasStored(r)'
  <2>1. CASE Fault(r)
    BY <2>1 DEF Fault, StockTypeOK
  <2>2. CASE links' = links \cup ({r} \X reported[r])
    <3>1. PICK x \in reported[r] : x \in offered /\ SeriesOf[x[1]] = SeriesOf[r]
      BY <1>1 DEF DurableInv, RetainedIsStored
    <3> QED
      BY <1>1, <2>2, <3>1 DEF HasStored
  <2> QED
    BY <1>2, <2>1, <2>2
<1>5. \A q \in Runs \ {r} :
         failing'[q] = failing[q] /\ reported'[q] = reported[q] /\ pc'[q] = pc[q]
  BY <1>1, <1>2 DEF Fault, StockTypeOK
<1>6. pc'[r] = "finishing"
  BY <1>1 DEF StockTypeOK
<1>7. NothingReportedYet' /\ RetainedIsStored'
  BY <1>1, <1>5, <1>6 DEF DurableInv, NothingReportedYet, RetainedIsStored, Fetched
<1>8. ReportedIsStored'
  BY <1>3, <1>4, <1>5 DEF DurableInv, ReportedIsStored
<1>9. KeyIsStored' /\ AnswerIsStored' /\ RunIsStored'
  BY <1>1, <1>3 DEF DurableInv, KeyIsStored, AnswerIsStored, RunIsStored
<1> QED
  BY <1>7, <1>8, <1>9 DEF DurableInv

LEMMA PersistNothingDurable ==
    ASSUME StockTypeOK, DurableInv, NEW r \in Runs, PersistNothing(r)
    PROVE  DurableInv'
<1>1. pc' = [pc EXCEPT ![r] = "finishing"] /\ reported[r] = {}
      /\ UNCHANGED <<answer, request, runRow, links, offered, reported, failing>>
  BY DEF PersistNothing, Goto, store, DurableInv, NothingReportedYet, Fetched
<1>2. \A q \in Runs : HasStored(q) => HasStored(q)'
  BY <1>1, StoredStays
<1>3. NothingReportedYet' /\ RetainedIsStored' /\ ReportedIsStored'
  BY <1>1, <1>2 DEF DurableInv, NothingReportedYet, RetainedIsStored, ReportedIsStored,
                    StockTypeOK, Fetched
<1>4. KeyIsStored' /\ AnswerIsStored' /\ RunIsStored'
  BY <1>1, <1>2 DEF DurableInv, KeyIsStored, AnswerIsStored, RunIsStored
<1> QED
  BY <1>3, <1>4 DEF DurableInv

LEMMA FinishDurable ==
    ASSUME StockTypeOK, DurableInv, NEW r \in Runs, Finish(r)
    PROVE  DurableInv'
<1> DEFINE s == ResponseStatus(r)
<1>1. s = "success" => HasStored(r)
  BY DEF ResponseStatus, Finish, DurableInv, ReportedIsStored
<1>2. /\ pc' = [pc EXCEPT ![r] = "done"]
      /\ answer' = [answer EXCEPT ![r] = s]
      /\ failing' = [failing EXCEPT ![r] = FALSE]
      /\ UNCHANGED <<reported, links, offered>>
      /\ \/ /\ request' = IF request[KeyOf[r]] = NoRow THEN request
                          ELSE [request EXCEPT ![KeyOf[r]].status = s]
            /\ runRow' = IF runRow[r] = "none" THEN runRow ELSE [runRow EXCEPT ![r] = s]
         \/ UNCHANGED <<request, runRow>>
  BY DEF Finish, Goto
<1> HIDE DEF s
<1>3. \A q \in Runs : HasStored(q) => HasStored(q)'
  BY <1>2, StoredStays
<1>4. NothingReportedYet' /\ RetainedIsStored' /\ ReportedIsStored'
  <2>1. \A q \in Runs \ {r} : failing'[q] = failing[q] /\ pc'[q] = pc[q]
    BY <1>2 DEF StockTypeOK
  <2>2. pc'[r] = "done"
    BY <1>2 DEF StockTypeOK
  <2> QED
    BY <1>2, <1>3, <2>1, <2>2
    DEF DurableInv, NothingReportedYet, RetainedIsStored, ReportedIsStored, Fetched
<1>5. KeyIsStored'
  <2> SUFFICES ASSUME NEW k \in Keys, request'[k].status = "success"
               PROVE  \E q \in Runs : KeyOf[q] = k /\ HasStored(q)'
    BY DEF KeyIsStored
  <2>1. CASE request[k].status = "success"
    BY <1>3, <2>1 DEF DurableInv, KeyIsStored
  <2>2. CASE request[k].status # "success"
    <3>1. request' = [request EXCEPT ![KeyOf[r]] = [request[KeyOf[r]] EXCEPT !.status = s]]
      BY <1>2, <2>2
    <3>2. k = KeyOf[r]
      BY <2>2, <3>1 DEF StockTypeOK
    <3>3. request[k] \in RequestRow /\ request'[k] = [request[k] EXCEPT !.status = s]
      BY <3>1, <3>2 DEF StockTypeOK
    <3>4. request'[k].status = s
      BY <3>3 DEF RequestRow, NoRow
    <3> QED
      BY <1>1, <1>3, <3>2, <3>4
  <2> QED
    BY <2>1, <2>2
<1>6. AnswerIsStored'
  BY <1>1, <1>2, <1>3 DEF DurableInv, AnswerIsStored, StockTypeOK
<1>7. RunIsStored'
  BY <1>1, <1>2, <1>3 DEF DurableInv, RunIsStored, StockTypeOK
<1> QED
  BY <1>4, <1>5, <1>6, <1>7 DEF DurableInv

LEMMA DieDurable ==
    ASSUME StockTypeOK, DurableInv, NEW r \in Runs, Die(r)
    PROVE  DurableInv'
<1>1. /\ \A q \in Runs : pc'[q] \in {"dead", pc[q]}
      /\ UNCHANGED <<answer, request, runRow, links, offered, reported, failing>>
  BY DEF Die, store
<1>2. \A q \in Runs : HasStored(q) => HasStored(q)'
  BY <1>1, StoredStays
<1>3. NothingReportedYet' /\ RetainedIsStored' /\ ReportedIsStored'
  BY <1>1, <1>2 DEF DurableInv, NothingReportedYet, RetainedIsStored, ReportedIsStored, Fetched
<1>4. KeyIsStored' /\ AnswerIsStored' /\ RunIsStored'
  BY <1>1, <1>2 DEF DurableInv, KeyIsStored, AnswerIsStored, RunIsStored
<1> QED
  BY <1>3, <1>4 DEF DurableInv

\* Before it reports, a run changes nothing a success rests on.
LEMMA QuietDurable ==
    ASSUME StockTypeOK, DurableInv, NEW r \in Runs,
           \/ Begin(r) \/ StartRun(r) \/ SkipDuplicate(r) \/ GoOn(r) \/ Normalize(r) \/ Confirm(r)
           \/ \E p \in Providers : Fetch(r, p)
           \/ Replay(r)
    PROVE  DurableInv'
<1>1. CASE Begin(r)
  <2>1. PICK s \in {"starting", "asking"} : pc' = [pc EXCEPT ![r] = s]
    BY <1>1 DEF Begin, Goto
  <2>2. pc[r] = "idle" /\ UNCHANGED <<reported, links, offered, answer, runRow>>
    BY <1>1 DEF Begin
  <2>3. \A q \in Runs \ {r} : failing'[q] = failing[q]
    BY <1>1 DEF Begin, Fault, StockTypeOK
  <2>4. \A k \in Keys : request'[k].status = "success" => request[k].status = "success"
    <3>1. KeyOf[r] \in Keys
      BY StockAssumption
    <3>2. CASE UNCHANGED request
      BY <3>2
    <3>3. CASE request' = [request EXCEPT ![KeyOf[r]] = [owner |-> r, status |-> "running"]]
      BY <3>1, <3>3 DEF StockTypeOK
    <3> QED
      BY <1>1, <3>2, <3>3 DEF Begin
  <2> QED
    BY <2>1, <2>2, <2>3, <2>4, DurableUntouched DEF Steps, Fetched
<1>0. CASE StartRun(r)
  <2>1. /\ pc[r] = "starting" /\ pc' = [pc EXCEPT ![r] = "asking"]
        /\ UNCHANGED <<reported, links, offered, answer, request>>
    BY <1>0 DEF StartRun, Goto
  <2>2. \A q \in Runs \ {r} : failing'[q] = failing[q]
    BY <1>0 DEF StartRun, Fault, StockTypeOK
  <2>3. \A q \in Runs : runRow'[q] = "success" => runRow[q] = "success"
    BY <1>0 DEF StartRun, StockTypeOK
  <2> QED
    BY <2>1, <2>2, <2>3, DurableUntouched DEF Steps, Fetched
<1>2. CASE SkipDuplicate(r)
  <2>1. PICK s \in {"replaying", "done"} : pc' = [pc EXCEPT ![r] = s]
    BY <1>2 DEF SkipDuplicate, Goto
  <2>2. /\ pc[r] = "asking" /\ request[KeyOf[r]].status = "success"
        /\ answer' = [answer EXCEPT ![r] = "success"]
        /\ UNCHANGED <<failing, reported, links, offered, request, runRow>>
    BY <1>2 DEF SkipDuplicate, store
  <2>3. \A q \in Runs : answer'[q] = "success" =>
               answer[q] = "success" \/ request[KeyOf[q]].status = "success"
    BY <2>2 DEF StockTypeOK
  <2> QED
    BY <2>1, <2>2, <2>3, DurableUntouched DEF Steps, Fetched
<1>3. CASE GoOn(r)
  <2>1. /\ pc[r] = "asking" /\ pc' = [pc EXCEPT ![r] = "fetching"]
        /\ UNCHANGED <<reported, links, offered, answer, request, runRow>>
    BY <1>3 DEF GoOn, Goto, store
  <2>2. \A q \in Runs \ {r} : failing'[q] = failing[q]
    BY <1>3 DEF GoOn, Fault, StockTypeOK
  <2> QED
    BY <2>1, <2>2, DurableUntouched DEF Steps, Fetched
<1>4. CASE Normalize(r) \/ Confirm(r)
  <2>1. PICK s \in {"confirming", "persisting"} : pc' = [pc EXCEPT ![r] = s]
    BY <1>4 DEF Normalize, Confirm, Goto
  <2>2. /\ pc[r] \in {"fetching", "confirming"}
        /\ UNCHANGED <<reported, links, offered, answer, request, runRow>>
    BY <1>4 DEF Normalize, Confirm, store
  <2>3. \A q \in Runs \ {r} : failing'[q] = failing[q]
    BY <1>4 DEF Normalize, Confirm, StockTypeOK
  <2> QED
    BY <2>1, <2>2, <2>3, DurableUntouched DEF Steps, Fetched
<1>5. CASE \E p \in Providers : Fetch(r, p)
  <2>1. /\ pc[r] = "fetching" /\ pc' = [pc EXCEPT ![r] = "fetching"]
        /\ UNCHANGED <<reported, links, offered, answer, request, runRow>>
    BY <1>5 DEF Fetch, store, StockTypeOK
  <2>2. \A q \in Runs \ {r} : failing'[q] = failing[q]
    BY <1>5 DEF Fetch, StockTypeOK
  <2> QED
    BY <2>1, <2>2, DurableUntouched DEF Steps, Fetched
<1>6. CASE Replay(r)
  <2>1. /\ pc[r] = "replaying" /\ pc' = [pc EXCEPT ![r] = "done"]
        /\ UNCHANGED <<reported, failing, links, offered, answer, request, runRow>>
    BY <1>6 DEF Replay, Goto, store
  <2>2. "done" \in Steps \ {"linking", "finishing"}
    BY DEF Steps
  <2>3. /\ \A q \in Runs \ {r} : failing'[q] = failing[q]
        /\ \A k \in Keys : request'[k].status = "success" => request[k].status = "success"
        /\ \A q \in Runs : runRow'[q] = "success" => runRow[q] = "success"
        /\ \A q \in Runs : answer'[q] = "success" => answer[q] = "success"
    BY <2>1
  <2>4. pc[r] \notin Fetched /\ UNCHANGED <<reported, links, offered>>
    BY <2>1 DEF Fetched
  <2> DEFINE s == "done"
  <2>5. /\ s \in Steps \ {"linking", "finishing"} /\ s \in {"done", "dead"}
        /\ pc' = [pc EXCEPT ![r] = s]
    BY <2>1, <2>2
  <2> HIDE DEF s
  <2> QED
    BY <2>3, <2>4, <2>5, DurableUntouched
<1> QED
  BY <1>0, <1>1, <1>2, <1>3, <1>4, <1>5, <1>6

LEMMA DurableNext == StockTypeOK /\ TableInv /\ DurableInv /\ [Next]_vars => DurableInv'
<1> SUFFICES ASSUME StockTypeOK, TableInv, DurableInv, [Next]_vars
             PROVE  DurableInv'
  OBVIOUS
<1>1. CASE UNCHANGED vars
  <2>1. UNCHANGED <<pc, failing, reported, answer, request, runRow, links, offered>>
    BY <1>1 DEF vars, local, store
  <2>2. \A q \in Runs : HasStored(q) => HasStored(q)'
    BY <2>1, StoredStays
  <2>3. NothingReportedYet' /\ RetainedIsStored' /\ ReportedIsStored'
    BY <2>1, <2>2 DEF DurableInv, NothingReportedYet, RetainedIsStored, ReportedIsStored
  <2>4. KeyIsStored' /\ AnswerIsStored' /\ RunIsStored'
    BY <2>1, <2>2 DEF DurableInv, KeyIsStored, AnswerIsStored, RunIsStored
  <2> QED
    BY <2>3, <2>4 DEF DurableInv
<1>2. CASE Next
  <2>1. PICK r \in Runs : Begin(r) \/ Work(r) \/ Die(r)
    BY <1>2 DEF Next
  <2> QED
    BY <2>1, QuietDurable, StoreDurable, LinkDurable, PersistNothingDurable, FinishDurable,
       DieDurable DEF Work
<1> QED
  BY <1>1, <1>2

LEMMA DurableAlways == Spec => [](StockTypeOK /\ TableInv /\ DurableInv)
<1>1. Init => StockTypeOK /\ TableInv /\ DurableInv
  BY TypesInit, TableInit, DurableInit
<1>2. StockTypeOK /\ TableInv /\ DurableInv /\ [Next]_vars
        => (StockTypeOK /\ TableInv /\ DurableInv)'
  BY TypesNext, TableNext, DurableNext
<1> QED
  BY <1>1, <1>2, PTL DEF Spec

\* A run is recorded as successful only with a committed record of its series behind
\* it, however many sessions fail and whichever runs share its key.
THEOREM SuccessIsAlwaysDurable == Spec => []SuccessIsDurable
<1> QED
  BY DurableAlways, DurableImplies, PTL

\* An idempotent skip, and any other answer of success, rests on a run of the key that
\* stored its record.
THEOREM SkipsRestOnStoredRecords == Spec => []SkippedOnlyAfterStoring
<1> QED
  BY DurableAlways, DurableImplies, PTL

-----------------------------------------------------------------------------
(* The archive leads to the current row                                    *)

\* The records a chain of successors may pass: the current ones and the archived ones.
InArchive(x) == x \in offered /\ (current[KeyOfRecord(x)] = x \/ successor[x] # None)

FetchesAreBounded == \E n \in Nat : \A x \in Records : fetched[x] <= n

\* A successor is a newer record of the same key, and no dead end itself.
SuccessorsLeadOn ==
    \A x \in Records : successor[x] # None =>
        /\ x \in offered /\ InArchive(successor[x])
        /\ KeyOfRecord(successor[x]) = KeyOfRecord(x)
        /\ fetched[successor[x]] > fetched[x]

CurrentIsLast == \A k \in BusinessKeys : current[k] # None => successor[current[k]] = None

LinkedIsArchived == \A l \in links : InArchive(l[2])

\* What waits for its link may have been replaced since, but is archived then.
RetainedIsArchived ==
    \A r \in Runs : pc[r] = "linking" => \A x \in reported[r] : InArchive(x)

ChainsInv == FetchesAreBounded /\ SuccessorsLeadOn /\ CurrentIsLast

ArchiveInv == ChainsInv /\ LinkedIsArchived /\ RetainedIsArchived

\* Among some records one was fetched last.
LEMMA LastFetched ==
    ASSUME StockTypeOK, FetchesAreBounded, NEW B \in SUBSET Records, B # {}
    PROVE  \E x \in B : \A y \in B : ~(fetched[y] > fetched[x])
<1>1. PICK n \in Nat : \A x \in Records : fetched[x] <= n
  BY DEF FetchesAreBounded
<1> DEFINE T == {n - fetched[x] : x \in B}
<1>2. T \subseteq Nat /\ T # {}
  BY <1>1 DEF StockTypeOK
<1>3. \E i \in T : \A j \in T : ~(<<j, i>> \in OpToRel(<, Nat))
  <2> HIDE DEF T
  <2> QED
    BY <1>2, NatLessThanWellFounded, WFMin
<1>4. \E i \in T : \A j \in T : ~(j < i)
  BY <1>2, <1>3 DEF OpToRel
<1>5. PICK x \in B : \A j \in T : ~(j < n - fetched[x])
  BY <1>4
<1>6. \A y \in B : n - fetched[y] \in T
  OBVIOUS
<1> HIDE DEF T
<1>7. ASSUME NEW y \in B, fetched[y] > fetched[x] PROVE FALSE
  <2>1. fetched[x] \in Nat /\ fetched[y] \in Nat
    BY DEF StockTypeOK
  <2>2. n - fetched[y] < n - fetched[x]
    BY <1>7, <2>1
  <2> QED
    BY <1>5, <1>6, <2>2
<1> QED
  BY <1>7

\* Chains end, so the recursive definition of Latest has a solution.
LEMMA LatestDef ==
    ASSUME StockTypeOK, ArchiveInv
    PROVE  Latest = [x \in Records |-> IF successor[x] = None THEN x ELSE Latest[successor[x]]]
<1> DEFINE f == [x \in Records |-> IF successor[x] = None THEN x ELSE current[KeyOfRecord(x)]]
<1>1. \A x \in Records : successor[x] # None => f[successor[x]] = current[KeyOfRecord(x)]
  BY DEF StockTypeOK, ArchiveInv, ChainsInv, SuccessorsLeadOn, InArchive
<1>2. f = [x \in Records |-> IF successor[x] = None THEN x ELSE f[successor[x]]]
  BY <1>1
<1> HIDE DEF f
<1> QED
  BY <1>2 DEF Latest

LEMMA ArchiveResolves == StockTypeOK /\ ArchiveInv => AdoptedRecordsResolve
<1> SUFFICES ASSUME StockTypeOK, ArchiveInv PROVE AdoptedRecordsResolve
  OBVIOUS
<1> DEFINE Lost == {x \in Records : InArchive(x) /\ Latest[x] # current[KeyOfRecord(x)]}
<1>1. ASSUME Lost # {} PROVE FALSE
  <2>1. PICK x \in Lost : \A y \in Lost : ~(fetched[y] > fetched[x])
    BY <1>1, LastFetched DEF ArchiveInv, ChainsInv
  <2>2. x \in Records /\ InArchive(x) /\ Latest[x] # current[KeyOfRecord(x)]
    BY <2>1
  <2>3. Latest[x] = IF successor[x] = None THEN x ELSE Latest[successor[x]]
    BY <2>2, LatestDef, Zenon
  <2>4. successor[x] # None
    BY <2>2, <2>3 DEF InArchive
  <2>5. /\ successor[x] \in Records /\ InArchive(successor[x])
        /\ KeyOfRecord(successor[x]) = KeyOfRecord(x)
        /\ fetched[successor[x]] > fetched[x]
    BY <2>2, <2>4 DEF StockTypeOK, ArchiveInv, ChainsInv, SuccessorsLeadOn
  <2>6. Latest[successor[x]] = current[KeyOfRecord(x)]
    BY <2>1, <2>5
  <2> QED
    BY <2>2, <2>3, <2>4, <2>6
<1>2. \A l \in links : l[2] \in Records /\ InArchive(l[2])
  BY DEF StockTypeOK, ArchiveInv, LinkedIsArchived
<1> QED
  BY <1>1, <1>2 DEF AdoptedRecordsResolve

LEMMA ArchiveInit == Init => ArchiveInv
<1> SUFFICES ASSUME Init PROVE ArchiveInv
  OBVIOUS
<1>1. FetchesAreBounded
  <2>1. 0 \in Nat /\ \A x \in Records : fetched[x] <= 0
    BY DEF Init
  <2> QED
    BY <2>1 DEF FetchesAreBounded
<1> QED
  BY <1>1 DEF Init, ArchiveInv, ChainsInv, SuccessorsLeadOn, CurrentIsLast, LinkedIsArchived,
              RetainedIsArchived

\* Steps that leave the table, the archive and the links alone; only the upsert takes a
\* run to its link.
LEMMA ArchiveUntouched ==
    ASSUME ArchiveInv, UNCHANGED <<current, successor, links, offered, fetched>>,
           \A q \in Runs : pc'[q] = "linking" => pc[q] = "linking" /\ reported'[q] = reported[q]
    PROVE  ArchiveInv'
<1>1. ChainsInv' /\ LinkedIsArchived'
  BY DEF ArchiveInv, ChainsInv, FetchesAreBounded, SuccessorsLeadOn, CurrentIsLast,
         LinkedIsArchived, InArchive
<1>2. RetainedIsArchived'
  BY DEF ArchiveInv, RetainedIsArchived, InArchive
<1> QED
  BY <1>1, <1>2 DEF ArchiveInv

LEMMA FetchArchive ==
    ASSUME StockTypeOK, TableInv, ArchiveInv, NEW r \in Runs, NEW p \in Providers, Fetch(r, p)
    PROVE  ArchiveInv'
<1>1. <<r, p>> \in Records /\ <<r, p>> \notin offered
  BY DEF Fetch, TableInv, OffererFetchesNoMore, Fetched, Records
<1>2. \A x \in Records : x # <<r, p>> => fetched'[x] = fetched[x]
  BY DEF Fetch, StockTypeOK
<1>3. UNCHANGED <<pc, reported, current, successor, links, offered>> /\ fetched' \in [Records -> Nat]
  BY FetchTypes DEF Fetch, store, StockTypeOK
<1>4. FetchesAreBounded'
  <2>1. PICK n \in Nat : \A x \in Records : fetched[x] <= n
    BY DEF ArchiveInv, ChainsInv, FetchesAreBounded
  <2> DEFINE m == fetched'[<<r, p>>]
  <2>2. m \in Nat
    BY <1>1, <1>3
  <2>3. ASSUME NEW x \in Records PROVE fetched'[x] = m \/ fetched'[x] = fetched[x]
    BY <1>2
  <2> HIDE DEF m
  <2>4. \A x \in Records : fetched[x] \in Nat /\ fetched'[x] <= n + m
    BY <2>1, <2>2, <2>3 DEF StockTypeOK
  <2>5. n + m \in Nat
    BY <2>2
  <2> QED
    BY <2>4, <2>5 DEF FetchesAreBounded
<1>5. \A x \in offered : x \in Records /\ fetched'[x] = fetched[x]
  BY <1>1, <1>2 DEF StockTypeOK
<1>6. SuccessorsLeadOn'
  BY <1>3, <1>5 DEF ArchiveInv, ChainsInv, SuccessorsLeadOn, InArchive
<1> QED
  BY <1>3, <1>4, <1>6
  DEF ArchiveInv, ChainsInv, CurrentIsLast, LinkedIsArchived, RetainedIsArchived, InArchive

\* A record that is committed for the first time, or rejected, breaks no chain.
LEMMA UpsertArchive ==
    ASSUME StockTypeOK, StockTypeOK', NewestIsCurrent, ChainsInv,
           NEW x \in Records, x \notin offered, Upsert(x),
           offered' = offered \cup {x}, UNCHANGED fetched
    PROVE  /\ ChainsInv'
           /\ \A y \in Records : InArchive(y) => InArchive(y)'
           /\ \E z \in Records : z = Retained(x) /\ InArchive(z)'
<1> DEFINE k == KeyOfRecord(x)
           old == current[k]
<1>1. k \in BusinessKeys /\ x # None
  BY KeysOfRecords, StockAssumption DEF Records
<1>2. old # None => old \in offered /\ old \in Records /\ KeyOfRecord(old) = k /\ successor[old] = None
  BY <1>1 DEF NewestIsCurrent, Table!IsNewest, ChainsInv, CurrentIsLast, StockTypeOK
<1>3. successor[x] = None
  BY DEF ChainsInv, SuccessorsLeadOn
<1>4. FetchesAreBounded'
  BY DEF ChainsInv, FetchesAreBounded
<1>5. \A j \in BusinessKeys : current[j] # None => KeyOfRecord(current[j]) = j
  BY DEF NewestIsCurrent, Table!IsNewest
<1>k. \A y \in Records : KeyOfRecord(y) \in BusinessKeys
  BY KeysOfRecords
<1>r. offered \subseteq Records /\ current \in [BusinessKeys -> Records \cup {None}]
      /\ successor \in [Records -> Records \cup {None}]
  BY DEF StockTypeOK
<1> HIDE DEF k
<1>6. CASE old # None /\ ~IsNewer(x, old)
  <2>1. successor' = successor /\ Retained(x) = old /\ current' = [current EXCEPT ![k] = old]
    BY <1>6 DEF Upsert, Retained, k
  <2>2. current' = current
    BY <1>r, <2>1
  <2>3. \A y \in Records : InArchive(y) => InArchive(y)'
    BY <2>1, <2>2 DEF InArchive
  <2>4. InArchive(old)
    BY <1>2, <1>6 DEF InArchive
  <2>5. old \in Records /\ old = Retained(x) /\ InArchive(old)'
    BY <1>2, <1>6, <2>1, <2>3, <2>4
  <2>6. SuccessorsLeadOn'
    BY <1>r, <2>1, <2>3 DEF ChainsInv, SuccessorsLeadOn
  <2> QED
    BY <1>4, <2>1, <2>2, <2>3, <2>5, <2>6 DEF ChainsInv, CurrentIsLast
<1>7. CASE old = None \/ IsNewer(x, old)
  <2>1. /\ Retained(x) = x /\ current' = [current EXCEPT ![k] = x]
        /\ successor' = IF old = None THEN successor ELSE [successor EXCEPT ![old] = x]
    BY <1>7 DEF Upsert, Retained, k
  <2>2. ASSUME NEW y \in Records, y # old PROVE successor'[y] = successor[y]
    BY <1>2, <1>r, <2>1, <2>2
  <2>3. old # None => successor'[old] = x
    BY <1>2, <1>r, <2>1
  <2>4. current'[k] = x /\ \A j \in BusinessKeys : j # k => current'[j] = current[j]
    BY <1>1, <1>r, <2>1
  <2>5. ASSUME NEW y \in Records, InArchive(y) PROVE InArchive(y)'
    <3>1. CASE y = old
      BY <1>1, <1>r, <2>3, <2>5, <3>1, StockAssumption DEF InArchive, Records
    <3>2. CASE y # old
      BY <1>k, <2>2, <2>4, <2>5, <3>2 DEF InArchive
    <3> QED
      BY <3>1, <3>2
  <2>6. InArchive(x)'
    BY <2>4 DEF InArchive, k
  <2>8. CurrentIsLast'
    <3> SUFFICES ASSUME NEW j \in BusinessKeys, current'[j] # None
                 PROVE  successor'[current'[j]] = None
      BY DEF CurrentIsLast
    <3>1. CASE j = k
      <4>1. x # old
        BY <1>1, <1>2
      <4> QED
        BY <1>3, <2>2, <2>4, <3>1, <4>1
    <3>2. CASE j # k
      <4>1. current'[j] = current[j] /\ current[j] \in Records /\ successor[current[j]] = None
        BY <1>r, <2>4, <3>2 DEF ChainsInv, CurrentIsLast
      <4>2. current[j] # old
        BY <1>2, <1>5, <3>2, <4>1, StockAssumption DEF Records
      <4> QED
        BY <2>2, <4>1, <4>2
    <3> QED
      BY <3>1, <3>2
  <2>9. SuccessorsLeadOn'
    <3> SUFFICES ASSUME NEW y \in Records, successor'[y] # None
                 PROVE  /\ y \in offered' /\ InArchive(successor[y])'
                        /\ KeyOfRecord(successor'[y]) = KeyOfRecord(y)
                        /\ fetched[successor'[y]] > fetched[y]
      BY DEF SuccessorsLeadOn
    <3>1. CASE y = old
      BY <1>2, <1>7, <2>3, <2>6, <3>1, StockAssumption DEF IsNewer, k, Records
    <3>2. CASE y # old
      <4>1. successor'[y] = successor[y] /\ successor[y] \in Records
        BY <1>r, <2>2, <3>2
      <4> QED
        BY <2>5, <4>1 DEF ChainsInv, SuccessorsLeadOn
    <3> QED
      BY <3>1, <3>2
  <2> QED
    BY <1>4, <2>1, <2>5, <2>6, <2>8, <2>9 DEF ChainsInv
<1> QED
  BY <1>6, <1>7

LEMMA StoreArchive ==
    ASSUME StockTypeOK, TableInv, ArchiveInv, NEW r \in Runs, Store(r)
    PROVE  ArchiveInv'
<1>1. PICK x \in Merged(r) :
         \/ /\ Upsert(x) /\ offered' = offered \cup {x}
            /\ reported' = [reported EXCEPT ![r] = {Retained(x)}]
            /\ pc' = [pc EXCEPT ![r] = "linking"]
         \/ /\ UNCHANGED <<current, successor, offered>>
            /\ reported' = [reported EXCEPT ![r] = {x}]
            /\ pc' = [pc EXCEPT ![r] = "finishing"]
  BY DEF Store, Goto
<1>2. x \in Records /\ x[1] = r /\ StockTypeOK'
  BY <1>1, MergedRecords, StoreTypes
<1>3. UNCHANGED <<links, fetched>> /\ x \notin offered
  BY <1>2 DEF Store, TableInv, OffererFetchesNoMore, Fetched
<1>4. CASE /\ UNCHANGED <<current, successor, offered>>
           /\ reported' = [reported EXCEPT ![r] = {x}]
           /\ pc' = [pc EXCEPT ![r] = "finishing"]
  <2>1. \A q \in Runs : pc'[q] = "linking" => pc[q] = "linking" /\ reported'[q] = reported[q]
    BY <1>4 DEF StockTypeOK
  <2> QED
    BY <1>3, <1>4, <2>1, ArchiveUntouched
<1>5. CASE /\ Upsert(x) /\ offered' = offered \cup {x}
           /\ reported' = [reported EXCEPT ![r] = {Retained(x)}]
           /\ pc' = [pc EXCEPT ![r] = "linking"]
  <2>1. ChainsInv' /\ \A y \in Records : InArchive(y) => InArchive(y)'
    BY <1>2, <1>3, <1>5, UpsertArchive DEF TableInv, ArchiveInv
  <2>2. PICK z \in Records : z = Retained(x) /\ InArchive(z)'
    BY <1>2, <1>3, <1>5, UpsertArchive DEF TableInv, ArchiveInv
  <2>3. LinkedIsArchived'
    BY <1>3, <2>1 DEF ArchiveInv, LinkedIsArchived, StockTypeOK
  <2>4. RetainedIsArchived'
    <3> SUFFICES ASSUME NEW q \in Runs, pc'[q] = "linking", NEW y \in reported'[q]
                 PROVE  InArchive(y)'
      BY DEF RetainedIsArchived
    <3>1. CASE q = r
      BY <1>5, <2>2, <3>1 DEF StockTypeOK
    <3>2. CASE q # r
      <4>1. pc[q] = "linking" /\ y \in reported[q] /\ y \in Records
        BY <1>5, <3>2 DEF StockTypeOK
      <4> QED
        BY <2>1, <4>1 DEF ArchiveInv, RetainedIsArchived
    <3> QED
      BY <3>1, <3>2
  <2> QED
    BY <2>1, <2>3, <2>4 DEF ArchiveInv
<1> QED
  BY <1>1, <1>4, <1>5

LEMMA LinkArchive ==
    ASSUME StockTypeOK, ArchiveInv, NEW r \in Runs, Link(r)
    PROVE  ArchiveInv'
<1>1. /\ pc[r] = "linking" /\ pc' = [pc EXCEPT ![r] = "finishing"]
      /\ UNCHANGED <<current, successor, offered, fetched>>
      /\ links' \subseteq links \cup ({r} \X reported[r])
      /\ \A q \in Runs \ {r} : reported'[q] = reported[q]
  BY DEF Link, Goto, StockTypeOK
<1>2. ChainsInv'
  BY <1>1 DEF ArchiveInv, ChainsInv, FetchesAreBounded, SuccessorsLeadOn, CurrentIsLast, InArchive
<1>3. LinkedIsArchived'
  BY <1>1 DEF ArchiveInv, LinkedIsArchived, RetainedIsArchived, InArchive
<1>4. RetainedIsArchived'
  BY <1>1 DEF ArchiveInv, RetainedIsArchived, InArchive, StockTypeOK
<1> QED
  BY <1>2, <1>3, <1>4 DEF ArchiveInv

LEMMA ArchiveNext == StockTypeOK /\ TableInv /\ ArchiveInv /\ [Next]_vars => ArchiveInv'
<1> SUFFICES ASSUME StockTypeOK, TableInv, ArchiveInv, [Next]_vars PROVE ArchiveInv'
  OBVIOUS
<1>1. CASE UNCHANGED vars
  BY <1>1, ArchiveUntouched DEF vars, local, store
<1>2. CASE Next
  <2>1. PICK r \in Runs : Begin(r) \/ Work(r) \/ Die(r)
    BY <1>2 DEF Next
  <2>2. CASE \/ Begin(r) \/ StartRun(r) \/ SkipDuplicate(r) \/ GoOn(r) \/ Normalize(r)
             \/ Confirm(r) \/ PersistNothing(r) \/ Finish(r) \/ Replay(r)
    <3>1. PICK s \in Steps \ {"linking"} : pc' = [pc EXCEPT ![r] = s]
      BY <2>2 DEF Begin, StartRun, SkipDuplicate, GoOn, Normalize, Confirm, PersistNothing,
                  Finish, Replay, Goto, Steps
    <3>2. UNCHANGED <<reported, current, successor, links, offered, fetched>>
      BY <2>2 DEF Begin, StartRun, SkipDuplicate, GoOn, Normalize, Confirm, PersistNothing,
                  Finish, Replay, store
    <3>3. \A q \in Runs : pc'[q] = "linking" => pc[q] = "linking"
      BY <3>1 DEF StockTypeOK
    <3> QED
      BY <3>2, <3>3, ArchiveUntouched
  <2>3. CASE Die(r)
    <3>1. \A q \in Runs : pc'[q] = "linking" => pc[q] = "linking"
      BY <2>3 DEF Die
    <3>2. UNCHANGED <<reported, current, successor, links, offered, fetched>>
      BY <2>3 DEF Die, store
    <3> QED
      BY <3>1, <3>2, ArchiveUntouched
  <2>4. CASE \E p \in Providers : Fetch(r, p)
    BY <2>4, FetchArchive
  <2>5. CASE Store(r) \/ Link(r)
    BY <2>5, StoreArchive, LinkArchive
  <2> QED
    BY <2>1, <2>2, <2>3, <2>4, <2>5 DEF Work
<1> QED
  BY <1>1, <1>2

\* Whatever records a run was linked to, in whatever order newer and older ones were
\* committed since, also between the upsert and the link, and whatever sessions failed, the archive leads from each of them to
\* the row its business key has now.
THEOREM ArchiveLeadsToCurrent == Spec => []AdoptedRecordsResolve
<1>1. Init => StockTypeOK /\ TableInv /\ ArchiveInv
  BY TypesInit, TableInit, ArchiveInit
<1>2. StockTypeOK /\ TableInv /\ ArchiveInv /\ [Next]_vars => (StockTypeOK /\ TableInv /\ ArchiveInv)'
  BY TypesNext, TableNext, ArchiveNext
<1>3. StockTypeOK /\ ArchiveInv => AdoptedRecordsResolve
  BY ArchiveResolves
<1> QED
  BY <1>1, <1>2, <1>3, PTL DEF Spec

=============================================================================
