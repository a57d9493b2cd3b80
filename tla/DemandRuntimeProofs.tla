------------------------ MODULE DemandRuntimeProofs ------------------------
(***************************************************************************)
(* Proofs about DemandRuntime for any number of demands, targets,          *)
(* operators and commands.                                                 *)
(***************************************************************************)
EXTENDS DemandRuntime, TLAPS

-----------------------------------------------------------------------------
(* Types                                                                   *)

\* What a step of a command can rely on.
JobOK(s) ==
    /\ s.at \in {"version", "update", "change", "announce"} => s.demand \in Demands
    /\ s.at \in {"profiles", "saving", "next"} => s.target \in Targets
    /\ s.left # {} /\ s.at # "compiling" => s.target \in Targets
    /\ s.at \in {"update", "change", "announce"} => s.version < MaxVersion

\* A message that can be leased has a delivery left.
NewsOK(n) == n.status \in {"absent", "open", "delayed"} => n.attempts < MaxAttempts

TickOK(s) == s.at \in {"handling", "acking"} => s.news \in Demands \X Versions

TypeInv ==
    /\ DemandTypeOK
    /\ \A o \in Operators : JobOK(job[o])
    /\ \A m \in Demands \X Versions : NewsOK(news[m])
    /\ \A c \in Controllers : TickOK(tick[c])

LEMMA Nulls == Scaffold \in Payload /\ NoJob \in Job /\ NoNews \in News /\ NoTick \in Tick
BY DemandAssumption DEF Scaffold, Payload, Statuses, NoJob, Job, NoNews, News, NoTick, Tick

LEMMA NullsOK == JobOK(NoJob) /\ NewsOK(NoNews) /\ TickOK(NoTick)
BY DemandAssumption DEF JobOK, NoJob, NewsOK, NoNews, TickOK, NoTick

LEMMA TypesInit == Init => TypeInv
<1> SUFFICES ASSUME Init PROVE TypeInv
  OBVIOUS
<1>1. demand \in [Demands -> Row]
  BY DemandAssumption, Nulls DEF Init, Row
<1>2. DemandTypeOK
  BY <1>1, DemandAssumption, Nulls DEF Init, DemandTypeOK
<1> QED
  BY <1>2, NullsOK DEF Init, TypeInv

\* A command that goes on to a well-formed step keeps the types of all commands.
LEMMA ContinueTypes ==
    ASSUME TypeInv, NEW o \in Operators, NEW s \in Job, JobOK(s), Continue(o, s)
    PROVE  job' \in [Operators -> Job] /\ \A p \in Operators : JobOK(job'[p])
BY DEF TypeInv, DemandTypeOK, Continue

LEMMA ContinueTickTypes ==
    ASSUME TypeInv, NEW c \in Controllers, NEW s \in Tick, TickOK(s), ContinueTick(c, s)
    PROVE  tick' \in [Controllers -> Tick] /\ \A e \in Controllers : TickOK(tick'[e])
BY DEF TypeInv, DemandTypeOK, ContinueTick

LEMMA MessageTypes ==
    ASSUME TypeInv, NEW m \in Demands \X Versions, NEW n \in News, NewsOK(n),
           news' = [news EXCEPT ![m] = n]
    PROVE  /\ news' \in [Demands \X Versions -> News]
           /\ \A k \in Demands \X Versions : NewsOK(news'[k])
BY DEF TypeInv, DemandTypeOK

LEMMA StoredTypes ==
    ASSUME DemandTypeOK, NEW d \in Demands
    PROVE  /\ demand[d].version \in 0..MaxVersion
           /\ demand[d].payload \in Payload
           /\ Stored(d) \in Payload
BY Nulls DEF DemandTypeOK, Row, Stored

\* A command that only reads or begins.
LEMMA ReadsTypes ==
    ASSUME TypeInv, NEW o \in Operators, NEW s \in Job, JobOK(s),
           Reads(o, s) \/ (Starts(o, s) /\ Free(o))
    PROVE  TypeInv'
<1>1. /\ Continue(o, s)
      /\ UNCHANGED <<demand, profiles, unknown, lock, news, tick, busy, failed, forced, crashes>>
  BY DEF Reads, Starts
<1>2. commands' \in 0..MaxCommands
  BY DemandAssumption DEF Reads, Starts, Free, TypeInv, DemandTypeOK
<1> QED
  BY <1>1, <1>2, ContinueTypes DEF TypeInv, DemandTypeOK

LEMMA CommandTypes ==
    ASSUME TypeInv, NEW o \in Operators, Command(o)
    PROVE  TypeInv'
<1>1. CASE \E ds \in SUBSET Demands, t \in Targets : ds # {} /\ RequestTarget(o, ds, t)
  <2>1. PICK ds \in SUBSET Demands, t \in Targets : RequestTarget(o, ds, t)
    BY <1>1
  <2> DEFINE s == [NoJob EXCEPT !.at = "profiles", !.left = ds, !.target = t]
  <2>2. s \in Job /\ JobOK(s)
    BY Nulls DEF NoJob, Job, JobOK
  <2> HIDE DEF s
  <2> QED
    BY <2>1, <2>2, ReadsTypes DEF RequestTarget, s
<1>2. CASE \E d \in Demands, t \in Targets : RemoveTarget(o, d, t)
  <2>1. PICK d \in Demands, t \in Targets : RemoveTarget(o, d, t)
    BY <1>2
  <2> DEFINE p == [demand[d].payload EXCEPT !.targets = @ \ {t}]
  <2> DEFINE s == [NoJob EXCEPT !.at = "version", !.demand = d, !.payload = p]
  <2>2. p \in Payload
    BY StoredTypes DEF Payload, TypeInv
  <2> HIDE DEF p
  <2>3. s \in Job /\ JobOK(s)
    BY <2>2, Nulls DEF NoJob, Job, JobOK
  <2>4. Free(o) /\ Starts(o, s)
    BY <2>1 DEF RemoveTarget, p
  <2> HIDE DEF s
  <2> QED
    BY <2>3, <2>4, ReadsTypes
<1>3. CASE \E d \in Demands, f \in Files : RegisterFile(o, d, f)
  <2>1. PICK d \in Demands, f \in Files : RegisterFile(o, d, f)
    BY <1>3
  <2> DEFINE p == [status |-> f.status, targets |-> f.targets, since |-> 0]
  <2> DEFINE s == [NoJob EXCEPT !.at = "version", !.demand = d, !.payload = p]
  <2>2. p \in Payload
    BY DemandAssumption DEF Payload, Statuses, TypeInv, DemandTypeOK
  <2> HIDE DEF p
  <2>3. s \in Job /\ JobOK(s)
    BY <2>2, Nulls DEF NoJob, Job, JobOK
  <2>4. /\ Continue(o, s) /\ Free(o) /\ commands' = commands + 1
        /\ unknown' = unknown \cup (f.targets \ profiles)
        /\ UNCHANGED <<demand, profiles, lock, news, tick, busy, failed, forced, crashes>>
    BY <2>1 DEF RegisterFile, p
  <2> HIDE DEF s
  <2>5. commands' \in 0..MaxCommands /\ unknown' \subseteq Targets
    BY <2>4, DemandAssumption DEF Free, TypeInv, DemandTypeOK
  <2> QED
    BY <2>3, <2>4, <2>5, ContinueTypes DEF TypeInv, DemandTypeOK
<1>4. CASE \E d \in Demands, st \in DOMAIN AllowedFrom : ReadLifecycle(o, d, st)
  <2>1. PICK d \in Demands, st \in DOMAIN AllowedFrom : ReadLifecycle(o, d, st)
    BY <1>4
  <2> DEFINE v == demand[d].version
  <2> DEFINE p == [demand[d].payload EXCEPT !.status = st, !.since = v + 1]
  <2> DEFINE s == [NoJob EXCEPT !.at = "change", !.demand = d, !.version = v, !.payload = p]
  <2>2. v \in 0..MaxVersion /\ v < MaxVersion /\ v + 1 \in 0..MaxVersion
    BY <2>1, StoredTypes, DemandAssumption DEF ReadLifecycle, TypeInv
  <2>3. st \in Statuses
    BY DEF AllowedFrom, Statuses
  <2>4. p \in Payload
    BY <2>2, <2>3, StoredTypes DEF Payload, TypeInv
  <2>5. Free(o) /\ Starts(o, s)
    BY <2>1 DEF ReadLifecycle
  <2> HIDE DEF p, v
  <2>6. s \in Job /\ JobOK(s)
    BY <2>2, <2>4, Nulls DEF NoJob, Job, JobOK
  <2> HIDE DEF s
  <2> QED
    BY <2>5, <2>6, ReadsTypes
<1>5. CASE \E d \in Demands : RetryWork(o, d)
  <2>1. PICK d \in Demands : RetryWork(o, d)
    BY <1>5
  <2>2. commands' \in 0..MaxCommands
    BY <2>1, DemandAssumption DEF RetryWork, Free, TypeInv, DemandTypeOK
  <2>3. busy' \subseteq Demands /\ failed' \subseteq Demands /\ forced' \subseteq Demands
    BY <2>1 DEF RetryWork, Opens, TypeInv, DemandTypeOK
  <2> QED
    BY <2>1, <2>2, <2>3 DEF RetryWork, TypeInv, DemandTypeOK
<1>6. CASE \E ds \in SUBSET Demands : ReadToCompile(o, ds)
  <2>1. PICK ds \in SUBSET Demands : ReadToCompile(o, ds)
    BY <1>6
  <2> DEFINE s == [NoJob EXCEPT !.at = "compiling", !.left = ds]
  <2>2. s \in Job /\ JobOK(s)
    BY Nulls DEF NoJob, Job, JobOK
  <2>3. Free(o) /\ Starts(o, s)
    BY <2>1 DEF ReadToCompile
  <2> HIDE DEF s
  <2> QED
    BY <2>2, <2>3, ReadsTypes
<1> QED
  BY <1>1, <1>2, <1>3, <1>4, <1>5, <1>6 DEF Command

LEMMA CompileByHandTypes ==
    ASSUME TypeInv, NEW o \in Operators, NEW d \in Demands, CompileByHand(o, d)
    PROVE  TypeInv'
<1> DEFINE s == [job[o] EXCEPT !.left = @ \ {d}]
<1>1. job[o] \in Job /\ JobOK(job[o]) /\ job[o].at = "compiling"
  BY DEF TypeInv, DemandTypeOK, CompileByHand
<1>2. s \in Job /\ JobOK(s)
  BY <1>1 DEF Job, JobOK
<1>3. Continue(o, NoJob) \/ Continue(o, s)
  BY DEF CompileByHand
<1> HIDE DEF s
<1>4. job' \in [Operators -> Job] /\ \A p \in Operators : JobOK(job'[p])
  BY <1>2, <1>3, ContinueTypes, Nulls, NullsOK
<1>5. busy' \subseteq Demands /\ forced' \subseteq Demands
  BY DEF CompileByHand, Opens, TypeInv, DemandTypeOK
<1> QED
  BY <1>4, <1>5 DEF CompileByHand, TypeInv, DemandTypeOK

LEMMA RequestTypes ==
    ASSUME TypeInv, NEW o \in Operators, LoadProfiles(o) \/ SaveProfiles(o)
    PROVE  TypeInv'
<1>1. job[o] \in Job /\ JobOK(job[o]) /\ profiles \in SUBSET Targets
  BY DEF TypeInv, DemandTypeOK
<1>2. CASE LoadProfiles(o)
  <2> DEFINE s == [job[o] EXCEPT !.at = "saving", !.book = profiles]
  <2>1. s \in Job /\ JobOK(s)
    BY <1>1, <1>2 DEF Job, JobOK, LoadProfiles
  <2>2. Continue(o, s)
    BY <1>2 DEF LoadProfiles
  <2> HIDE DEF s
  <2> QED
    BY <1>2, <2>1, <2>2, ContinueTypes DEF LoadProfiles, TypeInv, DemandTypeOK
<1>3. CASE SaveProfiles(o)
  <2> DEFINE s == [job[o] EXCEPT !.at = "next", !.book = {}]
  <2>1. s \in Job /\ JobOK(s)
    BY <1>1, <1>3 DEF Job, JobOK, SaveProfiles
  <2>2. profiles' \subseteq Targets /\ unknown' \subseteq Targets
    BY <1>1, <1>3 DEF SaveProfiles, Job, JobOK, TypeInv, DemandTypeOK
  <2>3. Continue(o, s)
    BY <1>3 DEF SaveProfiles
  <2> HIDE DEF s
  <2> QED
    BY <1>3, <2>1, <2>2, <2>3, ContinueTypes DEF SaveProfiles, TypeInv, DemandTypeOK
<1> QED
  BY <1>2, <1>3

LEMMA RegisterTypes ==
    ASSUME TypeInv, NEW o \in Operators,
           (\E d \in Demands : MergeTarget(o, d)) \/ ReadVersion(o)
    PROVE  TypeInv'
<1>1. job[o] \in Job /\ JobOK(job[o])
  BY DEF TypeInv, DemandTypeOK
<1>2. CASE \E d \in Demands : MergeTarget(o, d)
  <2>1. PICK d \in Demands : MergeTarget(o, d)
    BY <1>2
  <2> DEFINE p == [Stored(d) EXCEPT !.targets = @ \cup {job[o].target}]
  <2> DEFINE s == [job[o] EXCEPT !.at = "version", !.left = @ \ {d}, !.demand = d, !.payload = p]
  <2>2. p \in Payload
    BY <1>1, <2>1, StoredTypes DEF Payload, TypeInv, MergeTarget, JobOK
  <2>3. Reads(o, s)
    BY <2>1 DEF MergeTarget
  <2>4. job[o].at = "next"
    BY <2>1 DEF MergeTarget
  <2> HIDE DEF p
  <2>5. s \in Job /\ JobOK(s)
    BY <1>1, <2>2, <2>4 DEF Job, JobOK
  <2> HIDE DEF s
  <2> QED
    BY <2>3, <2>5, ReadsTypes
<1>3. CASE ReadVersion(o)
  <2> DEFINE v == demand[job[o].demand].version
  <2> DEFINE s == [job[o] EXCEPT !.at = "update", !.version = v]
  <2>1. v \in 0..MaxVersion /\ v < MaxVersion
    BY <1>1, <1>3, StoredTypes DEF ReadVersion, JobOK, TypeInv
  <2>2. Reads(o, s) /\ job[o].at = "version"
    BY <1>3 DEF ReadVersion
  <2> HIDE DEF v
  <2>3. s \in Job /\ JobOK(s)
    BY <1>1, <2>1, <2>2 DEF Job, JobOK
  <2> HIDE DEF s
  <2> QED
    BY <2>2, <2>3, ReadsTypes
<1> QED
  BY <1>2, <1>3

LEMMA WrittenRow ==
    ASSUME TypeInv, NEW o \in Operators, job[o].at \in {"update", "change"}
    PROVE  /\ job[o].demand \in Demands
           /\ [version |-> job[o].version + 1, payload |-> job[o].payload] \in Row
BY DemandAssumption DEF TypeInv, DemandTypeOK, Job, JobOK, Row

LEMMA WriteTypes ==
    ASSUME TypeInv, NEW o \in Operators, WriteDemand(o) \/ ChangeDemand(o)
    PROVE  TypeInv'
<1>1. job[o] \in Job /\ JobOK(job[o])
  BY DEF TypeInv, DemandTypeOK
<1>2. job[o].at \in {"update", "change"} /\ Write(o)
  BY DEF WriteDemand, ChangeDemand
<1>3. demand' \in [Demands -> Row]
  BY <1>2, WrittenRow DEF Write, TypeInv, DemandTypeOK
<1>4. CASE WriteDemand(o)
  <2> DEFINE n == [NoJob EXCEPT !.at = "next", !.left = job[o].left, !.target = job[o].target]
  <2> DEFINE s == IF job[o].left = {} THEN NoJob ELSE n
  <2>1. job[o].left # {} => n \in Job /\ JobOK(n)
    BY <1>1, <1>4, Nulls DEF NoJob, Job, JobOK, WriteDemand
  <2>2. Continue(o, s)
    BY <1>4 DEF WriteDemand
  <2> HIDE DEF n
  <2>3. s \in Job /\ JobOK(s)
    BY <2>1, Nulls, NullsOK
  <2> HIDE DEF s
  <2> QED
    BY <1>3, <1>4, <2>2, <2>3, ContinueTypes DEF WriteDemand, TypeInv, DemandTypeOK
<1>5. CASE ChangeDemand(o)
  <2> DEFINE s == [job[o] EXCEPT !.at = "announce"]
  <2>1. s \in Job /\ JobOK(s)
    BY <1>1, <1>5 DEF ChangeDemand, Job, JobOK
  <2>2. Continue(o, s)
    BY <1>5 DEF ChangeDemand
  <2> HIDE DEF s
  <2> QED
    BY <1>3, <1>5, <2>1, <2>2, ContinueTypes DEF ChangeDemand, TypeInv, DemandTypeOK
<1> QED
  BY <1>4, <1>5 DEF WriteDemand, ChangeDemand

LEMMA AnnounceTypes ==
    ASSUME TypeInv, NEW o \in Operators, Announce(o)
    PROVE  TypeInv'
<1> DEFINE m == <<job[o].demand, job[o].version + 1>>
<1> DEFINE n == [status |-> "open", new |-> job[o].payload.status, attempts |-> 0]
<1>1. job[o] \in Job /\ JobOK(job[o]) /\ job[o].at = "announce"
  BY DEF TypeInv, DemandTypeOK, Announce
<1>2. m \in Demands \X Versions
  BY <1>1, DemandAssumption DEF Job, JobOK, Versions
<1>3. n \in News /\ NewsOK(n)
  BY <1>1, DemandAssumption DEF News, NewsOK, Job, Payload
<1>4. \/ news' = [news EXCEPT ![m] = n]
      \/ UNCHANGED news
  BY DEF Announce
<1>5. Continue(o, NoJob)
  BY DEF Announce
<1> HIDE DEF m, n
<1>6. /\ news' \in [Demands \X Versions -> News]
      /\ \A k \in Demands \X Versions : NewsOK(news'[k])
  BY <1>2, <1>3, <1>4, MessageTypes DEF TypeInv, DemandTypeOK
<1> QED
  BY <1>5, <1>6, ContinueTypes, Nulls, NullsOK DEF Announce, TypeInv, DemandTypeOK

LEMMA RequeuedTypes ==
    ASSUME TypeInv
    PROVE  /\ Requeued \in [Demands \X Versions -> News]
           /\ \A m \in Demands \X Versions :
                 /\ NewsOK(Requeued[m])
                 /\ Requeued[m].new = news[m].new
                 /\ (Requeued[m].status = "absent") <=> (news[m].status = "absent")
                 /\ (Requeued[m].status = "done") <=> (news[m].status = "done")
<1>1. news \in [Demands \X Versions -> News]
  BY DEF TypeInv, DemandTypeOK
<1>2. ASSUME NEW m \in Demands \X Versions
      PROVE  /\ Requeued[m] \in News /\ NewsOK(Requeued[m])
             /\ Requeued[m].new = news[m].new
             /\ (Requeued[m].status = "absent") <=> (news[m].status = "absent")
             /\ (Requeued[m].status = "done") <=> (news[m].status = "done")
  <2> DEFINE st == IF news[m].attempts >= MaxAttempts THEN "dead" ELSE "open"
  <2>1. Requeued[m] = IF news[m].status # "late" THEN news[m] ELSE [news[m] EXCEPT !.status = st]
    BY <1>1 DEF Requeued
  <2>2. news[m] \in News /\ NewsOK(news[m])
    BY <1>1 DEF TypeInv
  <2>3. CASE news[m].status # "late"
    BY <2>1, <2>2, <2>3
  <2>4. CASE news[m].status = "late"
    <3>1. Requeued[m] = [news[m] EXCEPT !.status = st]
      BY <2>1, <2>4
    <3>2. st = "dead" \/ (st = "open" /\ news[m].attempts < MaxAttempts)
      BY <2>2, DemandAssumption DEF News
    <3> HIDE DEF st
    <3> QED
      BY <2>2, <2>4, <3>1, <3>2 DEF News, NewsOK
  <2> QED
    BY <2>3, <2>4
<1>3. Requeued \in [Demands \X Versions -> News]
  BY <1>1, <1>2 DEF Requeued
<1> QED
  BY <1>2, <1>3

LEMMA LeaseTypes ==
    ASSUME TypeInv, NEW c \in Controllers, NEW m \in Demands \X Versions, LeaseNews(c, m)
    PROVE  TypeInv'
<1> DEFINE n == [news[m] EXCEPT !.status = "held", !.attempts = @ + 1]
<1> DEFINE a == IF news[m].new \in Stopped THEN "handling" ELSE "acking"
<1> DEFINE s == [tick[c] EXCEPT !.at = a, !.news = m]
<1>1. news[m] \in News /\ NewsOK(news[m]) /\ tick[c] \in Tick /\ news[m].status = "open"
  BY DEF TypeInv, DemandTypeOK, LeaseNews
<1>2. n \in News /\ NewsOK(n)
  <2>1. news[m].attempts + 1 \in 0..MaxAttempts
    BY <1>1, DemandAssumption DEF News, NewsOK
  <2> QED
    BY <1>1, <2>1 DEF News, NewsOK
<1>3. a \in {"handling", "acking"}
  OBVIOUS
<1>4. ContinueTick(c, s)
  BY DEF LeaseNews
<1> HIDE DEF a
<1>5. s \in Tick /\ TickOK(s)
  BY <1>1, <1>3 DEF Tick, TickOK
<1>6. news' = [news EXCEPT ![m] = n]
  BY DEF LeaseNews, TypeInv, DemandTypeOK
<1> HIDE DEF n, s
<1>7. tick' \in [Controllers -> Tick] /\ \A e \in Controllers : TickOK(tick'[e])
  BY <1>4, <1>5, ContinueTickTypes
<1>8. /\ news' \in [Demands \X Versions -> News]
      /\ \A k \in Demands \X Versions : NewsOK(news'[k])
  BY <1>2, <1>6, MessageTypes
<1> QED
  BY <1>7, <1>8 DEF LeaseNews, TypeInv, DemandTypeOK

\* The announcement in hand gets another status.
LEMMA SettledMessage ==
    ASSUME TypeInv, NEW c \in Controllers, tick[c].at \in {"handling", "acking"},
           NEW st \in {"done", "dead", "delayed"},
           st = "delayed" => news[tick[c].news].attempts < MaxAttempts,
           news' = [news EXCEPT ![tick[c].news].status = st]
    PROVE  /\ news' \in [Demands \X Versions -> News]
           /\ \A k \in Demands \X Versions : NewsOK(news'[k])
<1> DEFINE m == tick[c].news
<1> DEFINE n == [news[m] EXCEPT !.status = st]
<1>1. m \in Demands \X Versions
  BY DEF TypeInv, TickOK
<1>2. news[m] \in News
  BY <1>1 DEF TypeInv, DemandTypeOK
<1>3. n \in News /\ NewsOK(n)
  BY <1>2 DEF News, NewsOK
<1>4. news' = [news EXCEPT ![m] = n]
  BY <1>1 DEF TypeInv, DemandTypeOK
<1> HIDE DEF m, n
<1> QED
  BY <1>1, <1>3, <1>4, MessageTypes

LEMMA HandleTypes ==
    ASSUME TypeInv, NEW c \in Controllers, CancelOpenWork(c) \/ AckNews(c) \/ HandlerFails(c)
    PROVE  TypeInv'
<1>1. tick[c] \in Tick /\ TickOK(tick[c])
  BY DEF TypeInv, DemandTypeOK
<1>2. CASE CancelOpenWork(c)
  <2> DEFINE s == [tick[c] EXCEPT !.at = "acking"]
  <2>1. s \in Tick /\ TickOK(s)
    BY <1>1, <1>2 DEF Tick, TickOK, CancelOpenWork
  <2>2. ContinueTick(c, s)
    BY <1>2 DEF CancelOpenWork
  <2> HIDE DEF s
  <2> QED
    BY <1>2, <2>1, <2>2, ContinueTickTypes DEF CancelOpenWork, TypeInv, DemandTypeOK
<1>3. CASE AckNews(c) \/ HandlerFails(c)
  <2> DEFINE s == [tick[c] EXCEPT !.at = "consuming", !.news = None]
  <2>1. s \in Tick /\ TickOK(s)
    BY <1>1 DEF Tick, TickOK
  <2>2. ContinueTick(c, s)
    BY <1>3 DEF AckNews, HandlerFails
  <2> HIDE DEF s
  <2>3. \E st \in {"done", "dead", "delayed"} :
           /\ st = "delayed" => news[tick[c].news].attempts < MaxAttempts
           /\ news' = [news EXCEPT ![tick[c].news].status = st]
    <3>1. CASE AckNews(c)
      BY <3>1 DEF AckNews
    <3>2. CASE HandlerFails(c)
      <4>1. tick[c].news \in Demands \X Versions
        BY <1>1, <3>2 DEF HandlerFails, TickOK
      <4>2. news[tick[c].news].attempts \in Nat
        BY <4>1, DemandAssumption DEF TypeInv, DemandTypeOK, News
      <4> DEFINE st == IF news[tick[c].news].attempts >= MaxAttempts THEN "dead" ELSE "delayed"
      <4>3. news' = [news EXCEPT ![tick[c].news].status = st]
        BY <3>2 DEF HandlerFails
      <4>4. st \in {"done", "dead", "delayed"} /\ (st = "delayed" => news[tick[c].news].attempts < MaxAttempts)
        BY <4>2, DemandAssumption
      <4> HIDE DEF st
      <4> QED
        BY <4>3, <4>4
    <3> QED
      BY <1>3, <3>1, <3>2
  <2>4. tick[c].at \in {"handling", "acking"}
    BY <1>3 DEF AckNews, HandlerFails
  <2>5. /\ news' \in [Demands \X Versions -> News]
        /\ \A k \in Demands \X Versions : NewsOK(news'[k])
    BY <2>3, <2>4, SettledMessage
  <2>6. UNCHANGED <<demand, profiles, unknown, lock, job, busy, failed, forced, commands, crashes>>
    BY <1>3 DEF AckNews, HandlerFails
  <2> QED
    BY <2>1, <2>2, <2>5, <2>6, ContinueTickTypes DEF TypeInv, DemandTypeOK
<1> QED
  BY <1>2, <1>3

\* The steps of a tick that touch no announcement, and its start.
LEMMA CompileTypes ==
    ASSUME TypeInv, NEW c \in Controllers,
           StartTick(c) \/ StopConsuming(c) \/ ListActive(c) \/ FinishTick(c)
             \/ \E d \in Demands : CompileDemand(c, d)
    PROVE  TypeInv'
<1>1. tick[c] \in Tick
  BY DEF TypeInv, DemandTypeOK
<1>2. \E s \in Tick : TickOK(s) /\ ContinueTick(c, s)
  <2>1. CASE StartTick(c)
    <3>1. [NoTick EXCEPT !.at = "consuming"] \in Tick /\ TickOK([NoTick EXCEPT !.at = "consuming"])
      BY DEF NoTick, Tick, TickOK
    <3> QED
      BY <2>1, <3>1 DEF StartTick
  <2>2. CASE StopConsuming(c)
    <3>1. [tick[c] EXCEPT !.at = "listing"] \in Tick /\ TickOK([tick[c] EXCEPT !.at = "listing"])
      BY <1>1 DEF Tick, TickOK
    <3> QED
      BY <2>2, <3>1 DEF StopConsuming
  <2>3. CASE ListActive(c)
    <3> DEFINE s == [tick[c] EXCEPT !.at = "compiling", !.list = Active]
    <3>1. Active \in SUBSET Demands /\ ContinueTick(c, s)
      BY <2>3 DEF ListActive, Active
    <3>2. s \in Tick /\ TickOK(s)
      BY <1>1, <3>1 DEF Tick, TickOK
    <3> HIDE DEF s
    <3> QED
      BY <3>1, <3>2
  <2>4. CASE FinishTick(c)
    BY <2>4, Nulls, NullsOK DEF FinishTick
  <2>5. CASE \E d \in Demands : CompileDemand(c, d)
    <3>1. PICK d \in Demands : CompileDemand(c, d)
      BY <2>5
    <3> DEFINE s == [tick[c] EXCEPT !.list = @ \ {d}]
    <3>2. ContinueTick(c, s) /\ tick[c].at = "compiling"
      BY <3>1 DEF CompileDemand
    <3>3. s \in Tick /\ TickOK(s)
      BY <1>1, <3>2 DEF Tick, TickOK
    <3> HIDE DEF s
    <3> QED
      BY <3>2, <3>3
  <2> QED
    BY <2>1, <2>2, <2>3, <2>4, <2>5
<1>3. /\ news' \in [Demands \X Versions -> News]
      /\ \A k \in Demands \X Versions : NewsOK(news'[k])
  <2>1. news' = Requeued \/ UNCHANGED news
    BY DEF StartTick, StopConsuming, ListActive, FinishTick, CompileDemand
  <2> QED
    BY <2>1, RequeuedTypes DEF TypeInv, DemandTypeOK
<1>4. /\ busy' \subseteq Demands
      /\ UNCHANGED <<demand, profiles, unknown, lock, job, failed, forced, commands, crashes>>
  BY DEF StartTick, StopConsuming, ListActive, FinishTick, CompileDemand, TypeInv, DemandTypeOK
<1> QED
  BY <1>2, <1>3, <1>4, ContinueTickTypes DEF TypeInv, DemandTypeOK

LEMMA EnvironmentTypes ==
    ASSUME TypeInv, Environment
    PROVE  TypeInv'
<1>1. CASE \E d \in Demands : Settle(d)
  BY <1>1 DEF Settle, TypeInv, DemandTypeOK
<1>2. CASE \E m \in Demands \X Versions : NewsWaits(m)
  <2>1. PICK m \in Demands \X Versions : NewsWaits(m)
    BY <1>2
  <2> DEFINE st == IF news[m].status = "delayed" THEN "open" ELSE "late"
  <2> DEFINE n == [news[m] EXCEPT !.status = st]
  <2>2. news[m] \in News /\ NewsOK(news[m])
    BY DEF TypeInv, DemandTypeOK
  <2>3. \/ st = "open" /\ news[m].status = "delayed"
        \/ st = "late"
    OBVIOUS
  <2>4. news' = [news EXCEPT ![m] = n]
    BY <2>1 DEF NewsWaits, TypeInv, DemandTypeOK
  <2> HIDE DEF st
  <2>5. n \in News /\ NewsOK(n)
    BY <2>2, <2>3 DEF News, NewsOK
  <2> HIDE DEF n
  <2>6. /\ news' \in [Demands \X Versions -> News]
        /\ \A k \in Demands \X Versions : NewsOK(news'[k])
    BY <2>4, <2>5, MessageTypes
  <2> QED
    BY <2>1, <2>6 DEF NewsWaits, TypeInv, DemandTypeOK
<1> QED
  BY <1>1, <1>2 DEF Environment

LEMMA CrashTypes ==
    ASSUME TypeInv,
           (\E o \in Operators : OperatorDies(o)) \/ (\E c \in Controllers : ControllerDies(c))
    PROVE  TypeInv'
<1>1. /\ crashes' \in 0..MaxCrashes
      /\ UNCHANGED <<demand, profiles, unknown, news, busy, failed, forced, commands>>
  BY DemandAssumption DEF OperatorDies, ControllerDies, TypeInv, DemandTypeOK
<1>2. /\ lock' \in Operators \cup {None}
      /\ job' \in [Operators -> Job] /\ \A p \in Operators : JobOK(job'[p])
      /\ tick' \in [Controllers -> Tick] /\ \A e \in Controllers : TickOK(tick'[e])
  <2>1. CASE \E o \in Operators : OperatorDies(o)
    BY <2>1, ContinueTypes, Nulls, NullsOK DEF OperatorDies, TypeInv, DemandTypeOK
  <2>2. CASE \E c \in Controllers : ControllerDies(c)
    BY <2>2, ContinueTickTypes, Nulls, NullsOK DEF ControllerDies, TypeInv, DemandTypeOK
  <2> QED
    BY <2>1, <2>2
<1> QED
  BY <1>1, <1>2 DEF TypeInv, DemandTypeOK

LEMMA TypesNext == TypeInv /\ [Next]_vars => TypeInv'
<1> SUFFICES ASSUME TypeInv, [Next]_vars PROVE TypeInv'
  OBVIOUS
<1>1. CASE UNCHANGED vars
  BY <1>1 DEF vars, TypeInv, DemandTypeOK
<1>2. CASE \E o \in Operators : Command(o)
  BY <1>2, CommandTypes
<1>3. CASE \E o \in Operators : Operate(o)
  BY <1>3, RequestTypes, RegisterTypes, WriteTypes, AnnounceTypes, CompileByHandTypes DEF Operate
<1>4. CASE \E c \in Controllers : Control(c)
  BY <1>4, LeaseTypes, HandleTypes, CompileTypes DEF Control
<1>5. CASE Environment
  BY <1>5, EnvironmentTypes
<1>6. CASE (\E o \in Operators : OperatorDies(o)) \/ (\E c \in Controllers : ControllerDies(c))
  BY <1>6, CrashTypes
<1> QED
  BY <1>1, <1>2, <1>3, <1>4, <1>5, <1>6 DEF Next

\* The rows, messages and processes keep their types, and whatever can be leased has a
\* delivery left.
THEOREM DemandTypes == Spec => []DemandTypeOK
<1>1. Spec => []TypeInv
  BY TypesInit, TypesNext, PTL DEF Spec
<1>2. TypeInv => DemandTypeOK
  BY DEF TypeInv
<1> QED
  BY <1>1, <1>2, PTL

-----------------------------------------------------------------------------
(* Targets and profiles                                                    *)

\* Whoever is about to replace the file holds the lock, and has what the file has.
LockInv == \A o \in Operators : job[o].at = "saving" => lock = o /\ job[o].book = profiles

\* The target a request will add has a profile, and what a command is going to write
\* names no other target without one than a file did.
HasProfiles(s) ==
    /\ s.at = "next" => s.target \in profiles
    /\ s.left # {} /\ s.at \notin {"profiles", "saving", "compiling"} => s.target \in profiles
    /\ s.payload.targets \subseteq profiles \cup unknown

ProfileInv ==
    /\ LockInv
    /\ \A o \in Operators : HasProfiles(job[o])
    /\ DemandTargetsHaveProfiles

LEMMA ProfileInit == Init => ProfileInv
<1> SUFFICES ASSUME Init PROVE ProfileInv
  OBVIOUS
<1>1. \A o \in Operators : job[o] = NoJob
  BY DEF Init
<1>2. LockInv /\ \A o \in Operators : HasProfiles(job[o])
  BY <1>1 DEF LockInv, HasProfiles, NoJob, Scaffold
<1>3. \A d \in Demands : demand[d].payload = Scaffold
  BY DEF Init
<1>4. DemandTargetsHaveProfiles
  <2>1. Scaffold.targets \subseteq profiles \cup unknown
    BY DEF Scaffold
  <2> QED
    BY <1>3, <2>1, Zenon DEF DemandTargetsHaveProfiles
<1> QED
  BY <1>2, <1>4 DEF ProfileInv

LEMMA NoJobHasProfiles == HasProfiles(NoJob)
BY DEF HasProfiles, NoJob, Scaffold

\* A command goes on, not to the replacing of the file.
LEMMA ProfileContinue ==
    ASSUME TypeInv, ProfileInv, NEW o \in Operators, NEW s, s.at # "saving", HasProfiles(s),
           Continue(o, s), UNCHANGED <<profiles, unknown>>,
           UNCHANGED lock \/ (lock = o /\ lock' = None)
    PROVE  LockInv' /\ \A p \in Operators : HasProfiles(job[p])'
<1>1. ASSUME NEW p \in Operators
      PROVE  /\ job'[p].at = "saving" => lock' = p /\ job'[p].book = profiles'
             /\ HasProfiles(job[p])'
  <2>1. CASE p = o
    <3>1. job'[p] = s
      BY <2>1 DEF Continue, TypeInv, DemandTypeOK
    <3> QED
      BY <3>1 DEF HasProfiles
  <2>2. CASE p # o
    <3>1. job'[p] = job[p]
      BY <2>2 DEF Continue, TypeInv, DemandTypeOK
    <3>2. job[p].at = "saving" => lock = p /\ lock' = lock
      BY <2>2 DEF ProfileInv, LockInv
    <3> QED
      BY <3>1, <3>2 DEF ProfileInv, LockInv, HasProfiles
  <2> QED
    BY <2>1, <2>2
<1> QED
  BY <1>1 DEF LockInv

LEMMA ProfileReads ==
    ASSUME TypeInv, ProfileInv, NEW o \in Operators, NEW s, s.at # "saving", HasProfiles(s),
           Reads(o, s) \/ Starts(o, s)
    PROVE  ProfileInv'
<1>1. Continue(o, s) /\ UNCHANGED <<profiles, unknown, lock, demand>>
  BY DEF Reads, Starts
<1>2. LockInv' /\ \A p \in Operators : HasProfiles(job[p])'
  BY <1>1, ProfileContinue
<1> QED
  BY <1>1, <1>2 DEF ProfileInv, DemandTargetsHaveProfiles

LEMMA StoredHasProfiles ==
    ASSUME ProfileInv, NEW d \in Demands
    PROVE  Stored(d).targets \subseteq profiles \cup unknown
BY DEF ProfileInv, DemandTargetsHaveProfiles, Stored, Scaffold

LEMMA CommandProfiles ==
    ASSUME TypeInv, ProfileInv, NEW o \in Operators, Command(o)
    PROVE  ProfileInv'
<1>1. CASE \E ds \in SUBSET Demands, t \in Targets : ds # {} /\ RequestTarget(o, ds, t)
  <2>1. PICK ds \in SUBSET Demands, t \in Targets : RequestTarget(o, ds, t)
    BY <1>1
  <2> DEFINE s == [NoJob EXCEPT !.at = "profiles", !.left = ds, !.target = t]
  <2>2. s.at # "saving" /\ HasProfiles(s)
    BY DEF NoJob, HasProfiles, Scaffold
  <2>3. Starts(o, s)
    BY <2>1 DEF RequestTarget
  <2> HIDE DEF s
  <2> QED
    BY <2>2, <2>3, ProfileReads
<1>2. CASE \E d \in Demands, t \in Targets : RemoveTarget(o, d, t)
  <2>1. PICK d \in Demands, t \in Targets : RemoveTarget(o, d, t)
    BY <1>2
  <2> DEFINE p == [demand[d].payload EXCEPT !.targets = @ \ {t}]
  <2> DEFINE s == [NoJob EXCEPT !.at = "version", !.demand = d, !.payload = p]
  <2>2. p.targets \subseteq profiles \cup unknown
    BY StoredTypes DEF Payload, TypeInv, ProfileInv, DemandTargetsHaveProfiles
  <2>3. Starts(o, s)
    BY <2>1 DEF RemoveTarget
  <2> HIDE DEF p
  <2>4. s.at # "saving" /\ HasProfiles(s)
    BY <2>2 DEF NoJob, HasProfiles
  <2> HIDE DEF s
  <2> QED
    BY <2>3, <2>4, ProfileReads
<1>3. CASE \E d \in Demands, f \in Files : RegisterFile(o, d, f)
  <2>1. PICK d \in Demands, f \in Files : RegisterFile(o, d, f)
    BY <1>3
  <2> DEFINE p == [status |-> f.status, targets |-> f.targets, since |-> 0]
  <2> DEFINE s == [NoJob EXCEPT !.at = "version", !.demand = d, !.payload = p]
  <2>2. /\ Continue(o, s) /\ unknown' = unknown \cup (f.targets \ profiles)
        /\ UNCHANGED <<profiles, lock, demand>>
    BY <2>1 DEF RegisterFile
  <2>3. s.at = "version" /\ s.left = {} /\ s.payload.targets \subseteq profiles \cup unknown'
    BY <2>2 DEF NoJob
  <2> HIDE DEF p, s
  <2>4. ASSUME NEW q \in Operators
        PROVE  /\ job'[q].at = "saving" => lock' = q /\ job'[q].book = profiles'
               /\ HasProfiles(job[q])'
    <3>1. CASE q = o
      <4>1. job'[q] = s
        BY <2>2, <3>1 DEF Continue, TypeInv, DemandTypeOK
      <4> QED
        BY <2>2, <2>3, <4>1 DEF HasProfiles
    <3>2. CASE q # o
      <4>1. job'[q] = job[q] /\ HasProfiles(job[q])
        BY <2>2, <3>2 DEF Continue, TypeInv, DemandTypeOK, ProfileInv
      <4> QED
        BY <2>2, <4>1 DEF HasProfiles, ProfileInv, LockInv
    <3> QED
      BY <3>1, <3>2
  <2> QED
    BY <2>2, <2>4 DEF ProfileInv, LockInv, DemandTargetsHaveProfiles
<1>4. CASE \E d \in Demands, st \in DOMAIN AllowedFrom : ReadLifecycle(o, d, st)
  <2>1. PICK d \in Demands, st \in DOMAIN AllowedFrom : ReadLifecycle(o, d, st)
    BY <1>4
  <2> DEFINE v == demand[d].version
  <2> DEFINE p == [demand[d].payload EXCEPT !.status = st, !.since = v + 1]
  <2> DEFINE s == [NoJob EXCEPT !.at = "change", !.demand = d, !.version = v, !.payload = p]
  <2>2. Starts(o, s)
    BY <2>1 DEF ReadLifecycle
  <2>3. p.targets \subseteq profiles \cup unknown
    BY StoredTypes DEF Payload, TypeInv, ProfileInv, DemandTargetsHaveProfiles
  <2> HIDE DEF p, v
  <2>4. s.at # "saving" /\ HasProfiles(s)
    BY <2>3 DEF NoJob, HasProfiles
  <2> HIDE DEF s
  <2> QED
    BY <2>2, <2>4, ProfileReads
<1>5. CASE \E d \in Demands : RetryWork(o, d)
  BY <1>5 DEF RetryWork, ProfileInv, LockInv, HasProfiles, DemandTargetsHaveProfiles
<1>6. CASE \E ds \in SUBSET Demands : ReadToCompile(o, ds)
  <2>1. PICK ds \in SUBSET Demands : ReadToCompile(o, ds)
    BY <1>6
  <2> DEFINE s == [NoJob EXCEPT !.at = "compiling", !.left = ds]
  <2>2. s.at # "saving" /\ HasProfiles(s)
    BY DEF NoJob, HasProfiles, Scaffold
  <2>3. Starts(o, s)
    BY <2>1 DEF ReadToCompile
  <2> HIDE DEF s
  <2> QED
    BY <2>2, <2>3, ProfileReads
<1> QED
  BY <1>1, <1>2, <1>3, <1>4, <1>5, <1>6 DEF Command

LEMMA CompileByHandProfiles ==
    ASSUME TypeInv, ProfileInv, NEW o \in Operators, NEW d \in Demands, CompileByHand(o, d)
    PROVE  ProfileInv'
<1> DEFINE s == [job[o] EXCEPT !.left = @ \ {d}]
<1>1. job[o] \in Job /\ HasProfiles(job[o]) /\ job[o].at = "compiling"
  BY DEF TypeInv, DemandTypeOK, ProfileInv, CompileByHand
<1>2. s.at # "saving" /\ HasProfiles(s)
  BY <1>1 DEF Job, HasProfiles
<1>3. /\ Continue(o, NoJob) \/ Continue(o, s)
      /\ UNCHANGED <<demand, profiles, unknown, lock>>
  BY DEF CompileByHand
<1> HIDE DEF s
<1>4. LockInv' /\ \A p \in Operators : HasProfiles(job[p])'
  <2>1. NoJob.at # "saving"
    BY DEF NoJob
  <2> QED
    BY <1>2, <1>3, <2>1, NoJobHasProfiles, ProfileContinue
<1> QED
  BY <1>3, <1>4 DEF ProfileInv, DemandTargetsHaveProfiles

\* The lock keeps two commands from replacing the file over each other.
LEMMA RequestProfiles ==
    ASSUME TypeInv, ProfileInv, NEW o \in Operators, LoadProfiles(o) \/ SaveProfiles(o)
    PROVE  ProfileInv'
<1>1. job[o] \in Job /\ HasProfiles(job[o]) /\ o # None
  BY DemandAssumption DEF TypeInv, DemandTypeOK, ProfileInv
<1>2. CASE LoadProfiles(o)
  <2>1. ASSUME NEW p \in Operators
        PROVE  /\ job'[p].at = "saving" => p = o /\ job'[p].book = profiles
               /\ HasProfiles(job[p])'
    <3>1. CASE p = o
      <4>1. job'[p] = [job[o] EXCEPT !.at = "saving", !.book = profiles]
        BY <1>2, <3>1 DEF LoadProfiles, Continue, TypeInv, DemandTypeOK
      <4> QED
        BY <1>1, <1>2, <3>1, <4>1 DEF LoadProfiles, HasProfiles, Job
    <3>2. CASE p # o
      <4>1. job'[p] = job[p] /\ HasProfiles(job[p])
        BY <1>2, <3>2 DEF LoadProfiles, Continue, TypeInv, DemandTypeOK, ProfileInv
      <4>2. job[p].at # "saving"
        BY <1>2, DemandAssumption DEF LoadProfiles, ProfileInv, LockInv
      <4> QED
        BY <1>2, <4>1, <4>2 DEF LoadProfiles, HasProfiles
    <3> QED
      BY <3>1, <3>2
  <2> QED
    BY <1>2, <2>1 DEF LoadProfiles, ProfileInv, LockInv, DemandTargetsHaveProfiles
<1>3. CASE SaveProfiles(o)
  <2>1. /\ lock = o /\ profiles' = profiles \cup {job[o].target}
        /\ unknown' = unknown \ {job[o].target}
    BY <1>3 DEF SaveProfiles, ProfileInv, LockInv
  <2>2. ASSUME NEW p \in Operators
        PROVE  job'[p].at # "saving" /\ HasProfiles(job[p])'
    <3>1. CASE p = o
      <4>1. job'[p] = [job[o] EXCEPT !.at = "next", !.book = {}]
        BY <1>3, <3>1 DEF SaveProfiles, Continue, TypeInv, DemandTypeOK
      <4> QED
        BY <1>1, <2>1, <4>1 DEF HasProfiles, Job
    <3>2. CASE p # o
      <4>1. job'[p] = job[p] /\ HasProfiles(job[p])
        BY <1>3, <3>2 DEF SaveProfiles, Continue, TypeInv, DemandTypeOK, ProfileInv
      <4>2. job[p].at # "saving"
        BY <2>1, <3>2 DEF ProfileInv, LockInv
      <4> QED
        BY <2>1, <4>1, <4>2 DEF HasProfiles
    <3> QED
      BY <3>1, <3>2
  <2>3. demand' = demand
    BY <1>3 DEF SaveProfiles
  <2> QED
    BY <2>1, <2>2, <2>3 DEF ProfileInv, LockInv, DemandTargetsHaveProfiles
<1> QED
  BY <1>2, <1>3

LEMMA RegisterProfiles ==
    ASSUME TypeInv, ProfileInv, NEW o \in Operators,
           (\E d \in Demands : MergeTarget(o, d)) \/ ReadVersion(o)
    PROVE  ProfileInv'
<1>1. job[o] \in Job /\ HasProfiles(job[o])
  BY DEF TypeInv, DemandTypeOK, ProfileInv
<1>2. CASE \E d \in Demands : MergeTarget(o, d)
  <2>1. PICK d \in Demands : MergeTarget(o, d)
    BY <1>2
  <2> DEFINE p == [Stored(d) EXCEPT !.targets = @ \cup {job[o].target}]
  <2> DEFINE s == [job[o] EXCEPT !.at = "version", !.left = @ \ {d}, !.demand = d, !.payload = p]
  <2>2. job[o].at = "next" /\ job[o].target \in profiles
    BY <1>1, <2>1 DEF MergeTarget, HasProfiles
  <2>3. p.targets \subseteq profiles \cup unknown
    BY <2>2, StoredTypes, StoredHasProfiles DEF Payload, TypeInv
  <2>4. Reads(o, s)
    BY <2>1 DEF MergeTarget
  <2> HIDE DEF p
  <2>5. s.at # "saving" /\ HasProfiles(s)
    BY <1>1, <2>2, <2>3 DEF Job, HasProfiles
  <2> HIDE DEF s
  <2> QED
    BY <2>4, <2>5, ProfileReads
<1>3. CASE ReadVersion(o)
  <2> DEFINE v == demand[job[o].demand].version
  <2> DEFINE s == [job[o] EXCEPT !.at = "update", !.version = v]
  <2>1. Reads(o, s) /\ job[o].at = "version"
    BY <1>3 DEF ReadVersion
  <2> HIDE DEF v
  <2>2. s.at # "saving" /\ HasProfiles(s)
    BY <1>1, <2>1 DEF Job, HasProfiles
  <2> HIDE DEF s
  <2> QED
    BY <2>1, <2>2, ProfileReads
<1> QED
  BY <1>2, <1>3

LEMMA WriteProfiles ==
    ASSUME TypeInv, ProfileInv, NEW o \in Operators, WriteDemand(o) \/ ChangeDemand(o)
    PROVE  ProfileInv'
<1>1. job[o] \in Job /\ HasProfiles(job[o]) /\ job[o].demand \in Demands
  BY WrittenRow DEF TypeInv, DemandTypeOK, ProfileInv, WriteDemand, ChangeDemand
<1>2. Write(o) /\ UNCHANGED <<profiles, unknown, lock>>
  BY DEF WriteDemand, ChangeDemand
<1>3. DemandTargetsHaveProfiles'
  <2>1. ASSUME NEW d \in Demands
        PROVE  demand'[d].payload.targets \subseteq profiles \cup unknown
    <3>1. CASE d = job[o].demand
      BY <1>1, <1>2, <3>1 DEF Write, TypeInv, DemandTypeOK, HasProfiles
    <3>2. CASE d # job[o].demand
      BY <1>2, <3>2 DEF Write, TypeInv, DemandTypeOK, ProfileInv, DemandTargetsHaveProfiles
    <3> QED
      BY <3>1, <3>2
  <2> QED
    BY <1>2, <2>1 DEF DemandTargetsHaveProfiles
<1>4. \E s : s.at # "saving" /\ HasProfiles(s) /\ Continue(o, s)
  <2>1. CASE WriteDemand(o)
    <3> DEFINE n == [NoJob EXCEPT !.at = "next", !.left = job[o].left, !.target = job[o].target]
    <3> DEFINE s == IF job[o].left = {} THEN NoJob ELSE n
    <3>1. Continue(o, s) /\ job[o].at = "update"
      BY <2>1 DEF WriteDemand
    <3>2. job[o].left # {} => n.at # "saving" /\ HasProfiles(n)
      BY <1>1, <3>1 DEF NoJob, Scaffold, HasProfiles
    <3> HIDE DEF n
    <3>3. s.at # "saving" /\ HasProfiles(s)
      BY <3>2, NoJobHasProfiles DEF NoJob
    <3> HIDE DEF s
    <3> QED
      BY <3>1, <3>3
  <2>2. CASE ChangeDemand(o)
    <3> DEFINE s == [job[o] EXCEPT !.at = "announce"]
    <3>1. Continue(o, s) /\ job[o].at = "change"
      BY <2>2 DEF ChangeDemand
    <3>2. s.at # "saving" /\ HasProfiles(s)
      BY <1>1, <3>1 DEF HasProfiles, Job
    <3> HIDE DEF s
    <3> QED
      BY <3>1, <3>2
  <2> QED
    BY <2>1, <2>2
<1>5. LockInv' /\ \A p \in Operators : HasProfiles(job[p])'
  BY <1>2, <1>4, ProfileContinue
<1> QED
  BY <1>3, <1>5 DEF ProfileInv

LEMMA ProfileNext == TypeInv /\ ProfileInv /\ [Next]_vars => ProfileInv'
<1> SUFFICES ASSUME TypeInv, ProfileInv, [Next]_vars PROVE ProfileInv'
  OBVIOUS
<1>1. ASSUME UNCHANGED <<demand, profiles, unknown, lock, job>>
      PROVE  ProfileInv'
  BY <1>1 DEF ProfileInv, LockInv, HasProfiles, DemandTargetsHaveProfiles
<1>2. CASE UNCHANGED vars
  BY <1>1, <1>2 DEF vars
<1>3. CASE \E o \in Operators : Command(o)
  BY <1>3, CommandProfiles
<1>4. CASE \E o \in Operators : Operate(o)
  <2>1. PICK o \in Operators : Operate(o)
    BY <1>4
  <2>2. CASE Announce(o)
    <3>1. LockInv' /\ \A p \in Operators : HasProfiles(job[p])'
      BY <2>2, NoJobHasProfiles, ProfileContinue DEF Announce, NoJob
    <3> QED
      BY <2>2, <3>1 DEF Announce, ProfileInv, DemandTargetsHaveProfiles
  <2> QED
    BY <2>1, <2>2, RequestProfiles, RegisterProfiles, WriteProfiles, CompileByHandProfiles DEF Operate
<1>5. CASE \E c \in Controllers : Control(c) \/ ControllerDies(c)
  BY <1>1, <1>5 DEF Control, StartTick, LeaseNews, CancelOpenWork, AckNews, HandlerFails,
                    StopConsuming, ListActive, CompileDemand, FinishTick, ControllerDies
<1>6. CASE Environment
  BY <1>1, <1>6 DEF Environment, Settle, NewsWaits
<1>7. CASE \E o \in Operators : OperatorDies(o)
  <2>1. PICK o \in Operators : OperatorDies(o)
    BY <1>7
  <2>2. LockInv' /\ \A p \in Operators : HasProfiles(job[p])'
    BY <2>1, NoJobHasProfiles, ProfileContinue DEF OperatorDies, NoJob
  <2> QED
    BY <2>1, <2>2 DEF OperatorDies, ProfileInv, DemandTargetsHaveProfiles
<1> QED
  BY <1>2, <1>3, <1>4, <1>5, <1>6, <1>7 DEF Next

\* However requests, removals and registrations interleave, on one demand or many, and
\* wherever a command dies, the only targets of a demand without a profile are those a
\* registered file named: no request adds one, and no profile once written is lost.
THEOREM TargetsAlwaysHaveProfiles == Spec => []DemandTargetsHaveProfiles
<1>1. Init => TypeInv /\ ProfileInv
  BY TypesInit, ProfileInit
<1>2. TypeInv /\ ProfileInv /\ [Next]_vars => (TypeInv /\ ProfileInv)'
  BY TypesNext, ProfileNext
<1>3. ProfileInv => DemandTargetsHaveProfiles
  BY DEF ProfileInv
<1> QED
  BY <1>1, <1>2, <1>3, PTL DEF Spec

-----------------------------------------------------------------------------
(* Stops                                                                   *)

\* Commands on one demand do not overlap, and there is one controller.
Orderly == ~Overlap /\ \A c, e \in Controllers : c = e

Own ==
    \A o, p \in Operators :
        job[o].demand # None /\ job[o].demand = job[p].demand => o = p

\* A demand's versions are numbered up, and announced only once they are there.
NoFutureNews ==
    \A d \in Demands :
        /\ demand[d].payload.since <= demand[d].version
        /\ \A v \in Versions : v > demand[d].version => news[<<d, v>>].status = "absent"

\* What a command has read is still there; a registration writes the status it found or
\* a file's, a lifecycle action one of its own version.
SinceOK(s, rows) ==
    /\ s.at \in {"version", "update"} =>
          \/ s.payload.since = 0
          \/ /\ s.payload.since = rows[s.demand].payload.since
             /\ s.payload.status = rows[s.demand].payload.status
    /\ s.at \in {"update", "change"} => s.version = rows[s.demand].version
    /\ s.at \in {"change", "announce"} => s.payload.since = s.version + 1
    /\ s.at = "announce" =>
          rows[s.demand].version = s.version + 1 /\ rows[s.demand].payload = s.payload

\* The announcement of a status is of that status.
NewsNew ==
    \A d \in Demands :
        demand[d].payload.since > 0 /\ Announcement(d).status # "absent"
          => Announcement(d).new = demand[d].payload.status

\* Nothing of the demand is open, or an operator has put it there.
Quiet(d) == d \notin busy \/ d \in forced

\* A controller about to acknowledge the stop of a demand has seen to it.
Seen ==
    \A c \in Controllers :
        /\ tick[c].at \in {"handling", "acking"} => news[tick[c].news].status # "absent"
        /\ tick[c].at = "acking" =>
              \A d \in Demands :
                 /\ tick[c].news = <<d, demand[d].payload.since>>
                 /\ demand[d].payload.status \in Stopped
                 => Quiet(d)

StopHandled(d) ==
    /\ demand[d].payload.status \in Stopped
    /\ demand[d].payload.since > 0
    /\ Announcement(d).status = "done"

\* What a tick has listed was active after the tick's last acknowledgement.
Listed ==
    \A c \in Controllers :
        /\ tick[c].at # "compiling" => tick[c].list = {}
        /\ \A d \in tick[c].list : ~StopHandled(d)

StopInv ==
    /\ Own
    /\ NoFutureNews
    /\ \A o \in Operators : SinceOK(job[o], demand)
    /\ NewsNew
    /\ Seen
    /\ Listed
    /\ HandledStopIsQuiet

LEMMA StopInit == Init => StopInv
<1> SUFFICES ASSUME Init PROVE StopInv
  OBVIOUS
<1>1. \A o \in Operators : job[o] = NoJob
  BY DEF Init
<1>2. \A c \in Controllers : tick[c] = NoTick
  BY DEF Init
<1>3. \A m \in Demands \X Versions : news[m].status = "absent"
  BY DEF Init, NoNews
<1>4. \A d \in Demands : demand[d].version \in {0, 1} /\ demand[d].payload.since = 0
  <2>1. \A d \in Demands : demand[d].version \in {0, 1} /\ demand[d].payload = Scaffold
    BY DEF Init
  <2>2. Scaffold.since = 0
    BY DEF Scaffold
  <2> QED
    BY <2>1, <2>2, Zenon
<1>5. Own /\ \A o \in Operators : SinceOK(job[o], demand)
  BY <1>1 DEF Own, SinceOK, NoJob
<1>6. NoFutureNews
  <2>1. ASSUME NEW d \in Demands
        PROVE  demand[d].payload.since <= demand[d].version
    <3> DEFINE v == demand[d].version
    <3> DEFINE s == demand[d].payload.since
    <3>1. (v = 0 \/ v = 1) /\ s = 0
      BY <1>4
    <3> HIDE DEF v, s
    <3>2. s <= v
      BY <3>1
    <3> QED
      BY <3>2 DEF s, v
  <2> QED
    BY <1>3, <2>1 DEF NoFutureNews
<1>7. NewsNew /\ HandledStopIsQuiet
  BY <1>4 DEF NewsNew, HandledStopIsQuiet
<1>8. Seen /\ Listed
  BY <1>2 DEF Seen, Listed, NoTick
<1> QED
  BY <1>5, <1>6, <1>7, <1>8 DEF StopInv

\* Versions and what an announcement is, in one place.
LEMMA AnnouncementTypes ==
    ASSUME TypeInv, NEW d \in Demands
    PROVE  /\ demand[d].version \in Nat
           /\ demand[d].payload.since \in Nat
           /\ demand[d].payload.since > 0 => <<d, demand[d].payload.since>> \in Demands \X Versions
BY StoredTypes, DemandAssumption DEF TypeInv, Payload, Versions

\* A command goes on, and nothing is written.
LEMMA StopContinue ==
    ASSUME TypeInv, StopInv, NEW o \in Operators, NEW s \in Job, SinceOK(s, demand),
           s.demand = None \/ \A p \in Operators : p # o => job[p].demand # s.demand,
           Continue(o, s), UNCHANGED <<demand, news, tick, busy, forced>>
    PROVE  StopInv'
<1>1. \A p \in Operators : job'[p] = IF p = o THEN s ELSE job[p]
  BY DEF Continue, TypeInv, DemandTypeOK
<1>2. Own'
  BY <1>1 DEF StopInv, Own
<1>3. \A p \in Operators : SinceOK(job'[p], demand')
  BY <1>1 DEF StopInv, SinceOK
<1>4. (NoFutureNews /\ NewsNew /\ Seen /\ Listed /\ HandledStopIsQuiet)'
  BY DEF StopInv, NoFutureNews, NewsNew, Seen, Quiet, Listed, StopHandled, HandledStopIsQuiet,
         Announcement
<1> QED
  BY <1>2, <1>3, <1>4 DEF StopInv

\* An operator puts work behind a stop; of no other stop is it said that it is quiet.
LEMMA ByHandStops ==
    ASSUME TypeInv, StopInv, NEW d \in Demands, Opens(d) \/ UNCHANGED <<busy, forced>>,
           UNCHANGED <<demand, news, tick>>,
           UNCHANGED job \/ (Own' /\ \A p \in Operators : SinceOK(job'[p], demand'))
    PROVE  StopInv'
<1>1. \A e \in Demands : demand[e].payload.status \in Stopped /\ Quiet(e) => Quiet(e)'
  BY DEF Opens, Quiet
<1>2. Seen'
  BY <1>1 DEF StopInv, Seen
<1>3. \A e \in Demands : StopHandled(e) => demand[e].payload.status \in Stopped /\ Quiet(e)
  BY DEF StopInv, HandledStopIsQuiet, StopHandled, Quiet
<1>4. \A e \in Demands : StopHandled(e)' <=> StopHandled(e)
  BY DEF StopHandled, Announcement
<1>5. HandledStopIsQuiet'
  <2>1. \A e \in Demands : StopHandled(e)' => Quiet(e)'
    BY <1>1, <1>3, <1>4
  <2> QED
    BY <2>1 DEF HandledStopIsQuiet, StopHandled, Quiet
<1>6. Own' /\ \A p \in Operators : SinceOK(job'[p], demand')
  BY DEF StopInv, Own
<1>7. NoFutureNews' /\ NewsNew' /\ Listed'
  BY <1>4 DEF StopInv, NoFutureNews, NewsNew, Listed, Announcement, TypeInv, DemandTypeOK, Tick
<1> QED
  BY <1>2, <1>5, <1>6, <1>7 DEF StopInv

LEMMA CommandStops ==
    ASSUME Orderly, TypeInv, StopInv, NEW o \in Operators, Command(o)
    PROVE  StopInv'
<1>1. CASE \E ds \in SUBSET Demands, t \in Targets : ds # {} /\ RequestTarget(o, ds, t)
  <2>1. PICK ds \in SUBSET Demands, t \in Targets : RequestTarget(o, ds, t)
    BY <1>1
  <2> DEFINE s == [NoJob EXCEPT !.at = "profiles", !.left = ds, !.target = t]
  <2>2. s \in Job /\ SinceOK(s, demand) /\ s.demand = None
    BY Nulls DEF NoJob, Job, SinceOK
  <2>3. Starts(o, s)
    BY <2>1 DEF RequestTarget
  <2> HIDE DEF s
  <2> QED
    BY <2>2, <2>3, StopContinue DEF Starts
<1>2. CASE \E d \in Demands, t \in Targets : RemoveTarget(o, d, t)
  <2>1. PICK d \in Demands, t \in Targets : RemoveTarget(o, d, t)
    BY <1>2
  <2> DEFINE p == [demand[d].payload EXCEPT !.targets = @ \ {t}]
  <2> DEFINE s == [NoJob EXCEPT !.at = "version", !.demand = d, !.payload = p]
  <2>2. p \in Payload /\ p.since = demand[d].payload.since /\ p.status = demand[d].payload.status
    BY StoredTypes DEF Payload, TypeInv
  <2>3. Starts(o, s) /\ \A q \in Operators : job[q].demand # d
    BY <2>1 DEF RemoveTarget, Alone, Orderly
  <2> HIDE DEF p
  <2>4. s \in Job /\ s.at = "version" /\ s.demand = d /\ s.payload = p
    BY <2>2, Nulls DEF NoJob, Job
  <2> HIDE DEF s
  <2>5. SinceOK(s, demand)
    BY <2>2, <2>4 DEF SinceOK
  <2> QED
    BY <2>3, <2>4, <2>5, StopContinue DEF Starts
<1>3. CASE \E d \in Demands, f \in Files : RegisterFile(o, d, f)
  <2>1. PICK d \in Demands, f \in Files : RegisterFile(o, d, f)
    BY <1>3
  <2> DEFINE p == [status |-> f.status, targets |-> f.targets, since |-> 0]
  <2> DEFINE s == [NoJob EXCEPT !.at = "version", !.demand = d, !.payload = p]
  <2>2. p \in Payload /\ p.since = 0
    BY DemandAssumption DEF Payload, Statuses, TypeInv, DemandTypeOK
  <2>3. /\ Continue(o, s) /\ UNCHANGED <<demand, news, tick, busy, forced>>
        /\ \A q \in Operators : job[q].demand # d
    BY <2>1 DEF RegisterFile, Alone, Orderly
  <2> HIDE DEF p
  <2>4. s \in Job /\ s.at = "version" /\ s.demand = d /\ s.payload = p
    BY <2>2, Nulls DEF NoJob, Job
  <2> HIDE DEF s
  <2>5. SinceOK(s, demand)
    BY <2>2, <2>4 DEF SinceOK
  <2> QED
    BY <2>3, <2>4, <2>5, StopContinue
<1>4. CASE \E d \in Demands, st \in DOMAIN AllowedFrom : ReadLifecycle(o, d, st)
  <2>1. PICK d \in Demands, st \in DOMAIN AllowedFrom : ReadLifecycle(o, d, st)
    BY <1>4
  <2> DEFINE v == demand[d].version
  <2> DEFINE p == [demand[d].payload EXCEPT !.status = st, !.since = v + 1]
  <2> DEFINE s == [NoJob EXCEPT !.at = "change", !.demand = d, !.version = v, !.payload = p]
  <2>2. Starts(o, s) /\ \A q \in Operators : job[q].demand # d
    BY <2>1 DEF ReadLifecycle, Alone, Orderly
  <2>3. v \in 0..MaxVersion /\ v + 1 \in 0..MaxVersion /\ v = demand[d].version
    BY <2>1, StoredTypes, DemandAssumption DEF ReadLifecycle, TypeInv
  <2>4. st \in Statuses
    BY DEF AllowedFrom, Statuses
  <2>5. p \in Payload /\ p.since = v + 1
    BY <2>3, <2>4, StoredTypes DEF Payload, TypeInv
  <2> HIDE DEF p, v
  <2>6. s \in Job /\ s.at = "change" /\ s.demand = d /\ s.payload = p /\ s.version = v
    BY <2>3, <2>5, Nulls DEF NoJob, Job
  <2> HIDE DEF s
  <2>7. SinceOK(s, demand)
    BY <2>3, <2>5, <2>6 DEF SinceOK
  <2> QED
    BY <2>2, <2>6, <2>7, StopContinue DEF Starts
<1>5. CASE \E d \in Demands : RetryWork(o, d)
  <2>1. PICK d \in Demands : RetryWork(o, d)
    BY <1>5
  <2> QED
    BY <2>1, ByHandStops DEF RetryWork
<1>6. CASE \E ds \in SUBSET Demands : ReadToCompile(o, ds)
  <2>1. PICK ds \in SUBSET Demands : ReadToCompile(o, ds)
    BY <1>6
  <2> DEFINE s == [NoJob EXCEPT !.at = "compiling", !.left = ds]
  <2>2. s \in Job /\ SinceOK(s, demand) /\ s.demand = None
    BY Nulls DEF NoJob, Job, SinceOK
  <2>3. Starts(o, s)
    BY <2>1 DEF ReadToCompile
  <2> HIDE DEF s
  <2> QED
    BY <2>2, <2>3, StopContinue DEF Starts
<1> QED
  BY <1>1, <1>2, <1>3, <1>4, <1>5, <1>6 DEF Command

LEMMA CompileByHandStops ==
    ASSUME TypeInv, StopInv, NEW o \in Operators, NEW d \in Demands, CompileByHand(o, d)
    PROVE  StopInv'
<1> DEFINE s == [job[o] EXCEPT !.left = @ \ {d}]
<1>1. job[o] \in Job /\ SinceOK(job[o], demand) /\ job[o].at = "compiling"
  BY DEF TypeInv, DemandTypeOK, StopInv, CompileByHand
<1>2. s \in Job /\ s.at = "compiling" /\ s.demand = job[o].demand
  BY <1>1 DEF Job
<1>3. /\ Continue(o, NoJob) \/ Continue(o, s)
      /\ UNCHANGED <<demand, news, tick>>
      /\ Opens(d) \/ UNCHANGED <<busy, forced>>
  BY DEF CompileByHand
<1> HIDE DEF s
<1>4. NoJob \in Job /\ NoJob.at = "idle" /\ NoJob.demand = None
  BY Nulls DEF NoJob
<1>5. PICK n \in Job : /\ Continue(o, n) /\ n.at \in {"idle", "compiling"}
                       /\ n.demand \in {None, job[o].demand}
  BY <1>2, <1>3, <1>4
<1>6. \A p \in Operators : job'[p] = IF p = o THEN n ELSE job[p]
  BY <1>5 DEF Continue, TypeInv, DemandTypeOK
<1>7. Own'
  BY <1>5, <1>6 DEF StopInv, Own
<1>8. \A p \in Operators : SinceOK(job'[p], demand')
  <2>1. SinceOK(n, demand)
    BY <1>5 DEF SinceOK
  <2> QED
    BY <1>3, <1>6, <2>1 DEF StopInv, SinceOK
<1> QED
  BY <1>3, <1>7, <1>8, ByHandStops

LEMMA OperateStops ==
    ASSUME Orderly, TypeInv, StopInv, NEW o \in Operators,
           LoadProfiles(o) \/ SaveProfiles(o) \/ ReadVersion(o)
             \/ \E d \in Demands : MergeTarget(o, d)
    PROVE  StopInv'
<1>1. job[o] \in Job /\ SinceOK(job[o], demand) /\ JobOK(job[o])
  BY DEF TypeInv, DemandTypeOK, StopInv
<1>2. \A p \in Operators : p # o => job[o].demand = None \/ job[p].demand # job[o].demand
  BY DEF StopInv, Own
<1>3. CASE LoadProfiles(o)
  <2> DEFINE s == [job[o] EXCEPT !.at = "saving", !.book = profiles]
  <2>1. s \in Job /\ s.demand = job[o].demand /\ s.at = "saving"
    BY <1>1 DEF Job, TypeInv, DemandTypeOK
  <2>2. Continue(o, s) /\ UNCHANGED <<demand, news, tick, busy, forced>>
    BY <1>3 DEF LoadProfiles
  <2> HIDE DEF s
  <2> QED
    BY <1>2, <2>1, <2>2, StopContinue DEF SinceOK
<1>4. CASE SaveProfiles(o)
  <2> DEFINE s == [job[o] EXCEPT !.at = "next", !.book = {}]
  <2>1. s \in Job /\ s.demand = job[o].demand /\ s.at = "next"
    BY <1>1 DEF Job
  <2>2. Continue(o, s) /\ UNCHANGED <<demand, news, tick, busy, forced>>
    BY <1>4 DEF SaveProfiles
  <2> HIDE DEF s
  <2> QED
    BY <1>2, <2>1, <2>2, StopContinue DEF SinceOK
<1>5. CASE ReadVersion(o)
  <2> DEFINE v == demand[job[o].demand].version
  <2> DEFINE s == [job[o] EXCEPT !.at = "update", !.version = v]
  <2>1. v \in 0..MaxVersion /\ job[o].at = "version" /\ v = demand[job[o].demand].version
    BY <1>1, <1>5, StoredTypes DEF ReadVersion, JobOK, TypeInv
  <2>2. Continue(o, s) /\ UNCHANGED <<demand, news, tick, busy, forced>>
    BY <1>5 DEF ReadVersion, Reads
  <2> HIDE DEF v
  <2>3. s \in Job /\ s.demand = job[o].demand /\ s.at = "update" /\ s.version = v /\ s.payload = job[o].payload
    BY <1>1, <2>1 DEF Job
  <2> HIDE DEF s
  <2>4. SinceOK(s, demand)
    BY <1>1, <2>1, <2>3 DEF SinceOK
  <2> QED
    BY <1>2, <2>2, <2>3, <2>4, StopContinue
<1>6. CASE \E d \in Demands : MergeTarget(o, d)
  <2>1. PICK d \in Demands : MergeTarget(o, d)
    BY <1>6
  <2> DEFINE p == [Stored(d) EXCEPT !.targets = @ \cup {job[o].target}]
  <2> DEFINE s == [job[o] EXCEPT !.at = "version", !.left = @ \ {d}, !.demand = d, !.payload = p]
  <2>2. p \in Payload /\ p.since = Stored(d).since /\ p.status = Stored(d).status
    BY <1>1, <2>1, StoredTypes DEF Payload, TypeInv, MergeTarget, JobOK
  <2>3. p.since = 0 \/ (p.since = demand[d].payload.since /\ p.status = demand[d].payload.status)
    BY <2>2 DEF Stored, Scaffold
  <2>4. Reads(o, s) /\ \A q \in Operators : job[q].demand # d
    BY <2>1 DEF MergeTarget, Alone, Orderly
  <2> HIDE DEF p
  <2>5. s \in Job /\ s.at = "version" /\ s.demand = d /\ s.payload = p
    BY <1>1, <2>2 DEF Job
  <2> HIDE DEF s
  <2>6. SinceOK(s, demand)
    BY <2>3, <2>5 DEF SinceOK
  <2> QED
    BY <2>4, <2>5, <2>6, StopContinue DEF Reads
<1> QED
  BY <1>3, <1>4, <1>5, <1>6

\* A row is written: no demand becomes one whose stop was handled.
LEMMA WriteStops ==
    ASSUME TypeInv, StopInv, NEW o \in Operators, WriteDemand(o) \/ ChangeDemand(o)
    PROVE  StopInv'
<1> DEFINE d == job[o].demand
<1> DEFINE p == job[o].payload
<1>1. /\ job[o] \in Job /\ SinceOK(job[o], demand) /\ JobOK(job[o]) /\ d \in Demands /\ d # None
      /\ job[o].at \in {"update", "change"}
  BY WrittenRow, DemandAssumption DEF TypeInv, DemandTypeOK, StopInv, WriteDemand, ChangeDemand
<1>2. /\ UNCHANGED <<news, tick, busy, forced>>
      /\ demand' = [demand EXCEPT ![d] = [version |-> job[o].version + 1, payload |-> p]]
  BY DEF WriteDemand, ChangeDemand, Write
<1>3. /\ demand'[d].version = demand[d].version + 1
      /\ demand'[d].payload = p
      /\ \A e \in Demands : e # d => demand'[e] = demand[e]
  BY <1>1, <1>2 DEF TypeInv, DemandTypeOK, SinceOK
<1>4. /\ p.since \in Nat
      /\ \/ p.since = 0
         \/ /\ p.since = demand[d].payload.since
            /\ p.status = demand[d].payload.status
         \/ p.since = demand[d].version + 1
  BY <1>1, DemandAssumption DEF SinceOK, Job, Payload
<1> HIDE DEF p
<1>5. demand[d].version \in Nat /\ demand[d].payload.since \in Nat
      /\ demand[d].payload.since <= demand[d].version
  BY <1>1, AnnouncementTypes DEF StopInv, NoFutureNews
<1>6. NoFutureNews'
  <2>1. ASSUME NEW e \in Demands
        PROVE  /\ demand'[e].payload.since <= demand'[e].version
               /\ \A v \in Versions : v > demand'[e].version => news'[<<e, v>>].status = "absent"
    <3>1. CASE e = d
      <4>1. demand'[e].payload.since <= demand'[e].version
        BY <1>3, <1>4, <1>5, <3>1
      <4>2. \A v \in Versions : v > demand'[e].version => v > demand[d].version
        BY <1>3, <1>5, <3>1 DEF Versions
      <4> QED
        BY <1>1, <1>2, <3>1, <4>1, <4>2 DEF StopInv, NoFutureNews
    <3>2. CASE e # d
      BY <1>2, <1>3, <3>2 DEF StopInv, NoFutureNews
    <3> QED
      BY <3>1, <3>2
  <2> QED
    BY <2>1 DEF NoFutureNews
<1>7. p.since = demand[d].version + 1 /\ p.since \in Versions => news[<<d, p.since>>].status = "absent"
  BY <1>1, <1>5 DEF StopInv, NoFutureNews
<1>8. p.since > 0 => p.since \in Versions
  BY <1>1, <1>4, DemandAssumption DEF Job, Payload, Versions, p
<1>9. ASSUME NEW e \in Demands
      PROVE  /\ StopHandled(e)' => StopHandled(e)
             /\ \/ demand'[e].payload.since = 0
                \/ Announcement(e)'.status = "absent"
                \/ demand'[e].payload.since = demand[e].payload.since
                   /\ demand'[e].payload.status = demand[e].payload.status
             /\ demand'[e].payload.since > 0 /\ Announcement(e)'.status # "absent"
                  => Announcement(e)'.new = demand'[e].payload.status
  <2>1. CASE e # d
    <3>1. demand'[e] = demand[e] /\ news' = news
      BY <1>2, <1>3, <2>1
    <3> QED
      BY <3>1 DEF StopHandled, Announcement, StopInv, NewsNew
  <2>2. CASE e = d /\ p.since > 0 /\ p.since = demand[d].version + 1
    <3>1. Announcement(e)'.status = "absent"
      BY <1>2, <1>3, <1>7, <1>8, <2>2 DEF Announcement
    <3> QED
      BY <3>1 DEF StopHandled
  <2>3. CASE e = d /\ p.since > 0 /\ p.since = demand[d].payload.since /\ p.status = demand[d].payload.status
    <3>1. /\ Announcement(e)' = Announcement(e)
          /\ demand'[e].payload.since = demand[e].payload.since
          /\ demand'[e].payload.status = demand[e].payload.status
      BY <1>2, <1>3, <2>3 DEF Announcement
    <3> QED
      BY <1>1, <2>3, <3>1 DEF StopHandled, StopInv, NewsNew
  <2>4. CASE e = d /\ p.since = 0
    BY <1>3, <2>4 DEF StopHandled
  <2> QED
    BY <1>4, <2>1, <2>2, <2>3, <2>4
<1>10. NewsNew' /\ Listed' /\ HandledStopIsQuiet' /\ Seen'
  <2>1. NewsNew'
    BY <1>9 DEF NewsNew
  <2>2. Seen'
    <3>1. ASSUME NEW c \in Controllers, NEW e \in Demands, tick[c].at = "acking",
                 tick[c].news = <<e, demand'[e].payload.since>>, demand'[e].payload.status \in Stopped
          PROVE  Quiet(e)
      <4>1. news[tick[c].news].status # "absent" /\ tick[c].news \in Demands \X Versions
        BY <3>1 DEF StopInv, Seen, TypeInv, TickOK
      <4>2. demand'[e].payload.since # 0 /\ Announcement(e)'.status # "absent"
        BY <1>2, <3>1, <4>1 DEF Announcement, Versions
      <4>3. tick[c].news = <<e, demand[e].payload.since>> /\ demand[e].payload.status \in Stopped
        BY <1>9, <3>1, <4>2
      <4> QED
        BY <3>1, <4>3 DEF StopInv, Seen
    <3> QED
      BY <1>2, <3>1 DEF StopInv, Seen, Quiet
  <2>3. Listed'
    BY <1>2, <1>9 DEF StopInv, Listed, TypeInv, DemandTypeOK, Tick
  <2>4. \A e \in Demands : StopHandled(e) => Quiet(e)
    BY DEF StopInv, HandledStopIsQuiet, StopHandled, Quiet
  <2>5. \A e \in Demands : StopHandled(e)' => Quiet(e)'
    BY <1>2, <1>9, <2>4 DEF Quiet
  <2>6. HandledStopIsQuiet'
    BY <2>5 DEF HandledStopIsQuiet, StopHandled, Quiet
  <2> QED
    BY <2>1, <2>2, <2>3, <2>6
<1>11. Own' /\ \A q \in Operators : SinceOK(job'[q], demand')
  <2>1. ASSUME NEW s, Continue(o, s), s.demand \in {None, d},
               \/ s.at \in {"next", "idle"}
               \/ /\ s.at = "announce" /\ s.payload.since = s.version + 1
                  /\ demand'[s.demand].version = s.version + 1
                  /\ demand'[s.demand].payload = s.payload
        PROVE  Own' /\ SinceOK(job'[o], demand') /\ \A q \in Operators : q # o => job'[q] = job[q]
    <3>1. \A q \in Operators : job'[q] = IF q = o THEN s ELSE job[q]
      BY <2>1 DEF Continue, TypeInv, DemandTypeOK
    <3>2. \A q \in Operators : q # o => job[q].demand # job[o].demand
      BY <1>1 DEF StopInv, Own
    <3>3. ASSUME NEW q \in Operators, NEW r \in Operators,
                 job'[q].demand # None, job'[q].demand = job'[r].demand
          PROVE  q = r
      <4>1. CASE q # o /\ r # o
        <5>1. job[q].demand # None /\ job[q].demand = job[r].demand
          BY <3>1, <3>3, <4>1
        <5> QED
          BY <5>1 DEF StopInv, Own
      <4>2. CASE q = o /\ r # o
        <5>1. s.demand # None /\ s.demand = job[r].demand
          BY <3>1, <3>3, <4>2
        <5> QED
          BY <2>1, <3>2, <4>2, <5>1
      <4>3. CASE q # o /\ r = o
        <5>1. s.demand # None /\ s.demand = job[q].demand
          BY <3>1, <3>3, <4>3
        <5> QED
          BY <2>1, <3>2, <4>3, <5>1
      <4> QED
        BY <4>1, <4>2, <4>3
    <3>4. SinceOK(job'[o], demand')
      <4>1. job'[o] = s
        BY <3>1
      <4> QED
        BY <2>1, <4>1 DEF SinceOK
    <3> QED
      BY <3>1, <3>3, <3>4 DEF Own
  <2>2. ASSUME WriteDemand(o)
        PROVE  Own' /\ SinceOK(job'[o], demand') /\ \A q \in Operators : q # o => job'[q] = job[q]
    <3> DEFINE n == [NoJob EXCEPT !.at = "next", !.left = job[o].left, !.target = job[o].target]
    <3> DEFINE s == IF job[o].left = {} THEN NoJob ELSE n
    <3>1. Continue(o, s)
      BY <2>2 DEF WriteDemand
    <3>2. n.at = "next" /\ n.demand = None /\ NoJob.at = "idle" /\ NoJob.demand = None
      BY DEF NoJob
    <3>3. s.demand = None /\ s.at \in {"next", "idle"}
      <4> HIDE DEF n
      <4> QED
        BY <3>2
    <3>4. \E r : Continue(o, r) /\ r.demand = None /\ r.at \in {"next", "idle"}
      <4> HIDE DEF s
      <4> QED
        BY <3>1, <3>3
    <3>5. PICK r : Continue(o, r) /\ r.demand = None /\ r.at \in {"next", "idle"}
      BY <3>4
    <3> QED
      BY <2>1, <3>5
  <2>3. ASSUME ChangeDemand(o)
        PROVE  Own' /\ SinceOK(job'[o], demand') /\ \A q \in Operators : q # o => job'[q] = job[q]
    <3> DEFINE s == [job[o] EXCEPT !.at = "announce"]
    <3>1. Continue(o, s) /\ job[o].at = "change"
      BY <2>3 DEF ChangeDemand
    <3>2. s.at = "announce" /\ s.demand = d /\ s.version = job[o].version /\ s.payload = p
      BY <1>1 DEF Job, p
    <3>3. job[o].version = demand[d].version /\ p.since = job[o].version + 1
      BY <1>1, <3>1 DEF SinceOK, p
    <3>4. \E r : Continue(o, r) /\ r.at = "announce" /\ r.demand = d /\ r.version = job[o].version /\ r.payload = p
      <4> HIDE DEF s
      <4> QED
        BY <3>1, <3>2
    <3>5. PICK r : Continue(o, r) /\ r.at = "announce" /\ r.demand = d /\ r.version = job[o].version /\ r.payload = p
      BY <3>4
    <3>6. demand'[d].version = r.version + 1 /\ demand'[d].payload = r.payload
      BY <1>3, <3>3, <3>5
    <3>7. r.payload.since = r.version + 1
      BY <3>3, <3>5
    <3> QED
      BY <2>1, <3>5, <3>6, <3>7
  <2>4. Own' /\ SinceOK(job'[o], demand') /\ \A q \in Operators : q # o => job'[q] = job[q]
    BY <2>2, <2>3
  <2>5. ASSUME NEW q \in Operators, q # o
        PROVE  SinceOK(job'[q], demand')
    <3>1. job'[q] = job[q] /\ SinceOK(job[q], demand) /\ JobOK(job[q]) /\ job[q].demand # d
      BY <1>1, <2>4, <2>5 DEF StopInv, TypeInv, Own
    <3>2. job[q].demand \in Demands => demand'[job[q].demand] = demand[job[q].demand]
      BY <1>3, <3>1
    <3> QED
      BY <3>1, <3>2 DEF SinceOK, JobOK
  <2> QED
    BY <2>4, <2>5
<1> QED
  BY <1>6, <1>10, <1>11 DEF StopInv

LEMMA AnnounceStops ==
    ASSUME TypeInv, StopInv, NEW o \in Operators, Announce(o)
    PROVE  StopInv'
<1> DEFINE d == job[o].demand
<1> DEFINE m == <<d, job[o].version + 1>>
<1>1. job[o].at = "announce" /\ Continue(o, NoJob) /\ UNCHANGED <<demand, tick, busy, forced>>
  BY DEF Announce
<1>2. /\ d \in Demands /\ m \in Demands \X Versions
      /\ m = <<d, demand[d].version>> /\ m = <<d, demand[d].payload.since>>
      /\ job[o].payload = demand[d].payload
  BY <1>1, DemandAssumption DEF TypeInv, DemandTypeOK, Job, JobOK, Versions, StopInv, SinceOK
<1>3. /\ \A k \in Demands \X Versions : k # m => news'[k] = news[k]
      /\ \/ news'[m] = news[m]
         \/ /\ news[m].status = "absent" /\ news'[m].status = "open"
            /\ news'[m].new = demand[d].payload.status
  <2>1. CASE news[m].status = "absent"
    <3>1. news' = [news EXCEPT ![m] = [status |-> "open", new |-> demand[d].payload.status, attempts |-> 0]]
      BY <1>2, <2>1 DEF Announce
    <3> HIDE DEF m
    <3> QED
      BY <1>2, <2>1, <3>1 DEF TypeInv, DemandTypeOK
  <2>2. CASE news[m].status # "absent"
    BY <2>2 DEF Announce
  <2> QED
    BY <2>1, <2>2
<1> HIDE DEF m
<1>4. ASSUME NEW e \in Demands
      PROVE  /\ demand[e].payload.since > 0 =>
                  \/ Announcement(e)' = Announcement(e)
                  \/ /\ e = d /\ Announcement(e)'.status = "open"
                     /\ Announcement(e)'.new = demand[d].payload.status
             /\ StopHandled(e)' => StopHandled(e)
  <2>1. demand[e].payload.since > 0 => <<e, demand[e].payload.since>> \in Demands \X Versions
    BY AnnouncementTypes
  <2>2. <<e, demand[e].payload.since>> = m => e = d
    BY <1>2
  <2>3. demand[e].payload.since > 0 =>
                  \/ Announcement(e)' = Announcement(e)
                  \/ /\ e = d /\ Announcement(e)'.status = "open"
                     /\ Announcement(e)'.new = demand[d].payload.status
    BY <1>1, <1>3, <2>1, <2>2 DEF Announcement
  <2>4. StopHandled(e)' => StopHandled(e)
    BY <1>1, <2>3 DEF StopHandled
  <2> QED
    BY <2>3, <2>4
<1>5. NoFutureNews'
  <2>1. ASSUME NEW e \in Demands, NEW v \in Versions, v > demand[e].version
        PROVE  news'[<<e, v>>].status = "absent"
    <3>1. <<e, v>> # m
      BY <1>2, <2>1, AnnouncementTypes DEF Versions
    <3> QED
      BY <1>3, <2>1, <3>1 DEF StopInv, NoFutureNews
  <2> QED
    BY <1>1, <2>1 DEF StopInv, NoFutureNews
<1>6. NewsNew'
  BY <1>1, <1>4 DEF StopInv, NewsNew
<1>7. Seen'
  BY <1>1, <1>3 DEF StopInv, Seen, Quiet, TypeInv, TickOK
<1>8. Listed'
  BY <1>1, <1>4 DEF StopInv, Listed, TypeInv, DemandTypeOK, Tick
<1>9. HandledStopIsQuiet'
  <2>1. \A e \in Demands : StopHandled(e)' => Quiet(e)'
    BY <1>1, <1>4 DEF StopInv, HandledStopIsQuiet, StopHandled, Quiet
  <2> QED
    BY <2>1 DEF HandledStopIsQuiet, StopHandled, Quiet
<1>10. Own' /\ \A p \in Operators : SinceOK(job'[p], demand')
  <2>1. \A p \in Operators : job'[p] = IF p = o THEN NoJob ELSE job[p]
    BY <1>1 DEF Continue, TypeInv, DemandTypeOK
  <2>2. NoJob.demand = None /\ SinceOK(NoJob, demand)
    BY DEF NoJob, SinceOK
  <2>3. Own'
    BY <2>1, <2>2 DEF StopInv, Own
  <2> QED
    BY <1>1, <2>1, <2>2, <2>3 DEF StopInv
<1> QED
  BY <1>5, <1>6, <1>7, <1>8, <1>9, <1>10 DEF StopInv

\* Announcements change their status: none comes up, and none is done but one whose
\* demand is quiet.
LEMMA StopStatuses ==
    ASSUME TypeInv, StopInv, UNCHANGED <<demand, job>>,
           \A k \in Demands \X Versions :
              /\ news'[k].new = news[k].new
              /\ (news'[k].status = "absent") <=> (news[k].status = "absent")
    PROVE  Own' /\ NoFutureNews' /\ NewsNew' /\ \A p \in Operators : SinceOK(job'[p], demand')
<1>1. Own' /\ \A p \in Operators : SinceOK(job'[p], demand')
  BY DEF StopInv, Own
<1>2. NoFutureNews'
  BY DEF StopInv, NoFutureNews
<1>3. NewsNew'
  BY AnnouncementTypes DEF StopInv, NewsNew, Announcement
<1> QED
  BY <1>1, <1>2, <1>3

\* A step after which no announcement is done that was not.
LEMMA StopQuiet ==
    ASSUME TypeInv, StopInv, UNCHANGED demand, \A d \in Demands : Quiet(d) => Quiet(d)',
           \A k \in Demands \X Versions : news'[k].status = "done" => news[k].status = "done"
    PROVE  HandledStopIsQuiet' /\ \A d \in Demands : StopHandled(d)' => StopHandled(d)
<1>1. \A d \in Demands : StopHandled(d)' => StopHandled(d)
  BY AnnouncementTypes DEF StopHandled, Announcement
<1>2. \A d \in Demands : StopHandled(d) => Quiet(d)
  BY DEF StopInv, HandledStopIsQuiet, StopHandled, Quiet
<1>3. \A d \in Demands : StopHandled(d)' => Quiet(d)'
  BY <1>1, <1>2
<1> QED
  BY <1>1, <1>3 DEF HandledStopIsQuiet, StopHandled, Quiet

LEMMA OneTick ==
    ASSUME Orderly, TypeInv, NEW c \in Controllers, NEW s, ContinueTick(c, s)
    PROVE  \A e \in Controllers : e = c /\ tick'[e] = s
BY DEF Orderly, TypeInv, DemandTypeOK, ContinueTick

\* A tick goes on to a step with nothing in hand and nothing listed.
LEMMA EmptyTick ==
    ASSUME Orderly, TypeInv, NEW c \in Controllers, NEW s, ContinueTick(c, s),
           s.at \notin {"handling", "acking", "compiling"}, s.list = {}
    PROVE  Seen' /\ Listed'
<1>1. \A e \in Controllers : tick'[e] = s
  BY OneTick
<1> QED
  BY <1>1 DEF Seen, Listed

LEMMA TickStops ==
    ASSUME Orderly, TypeInv, StopInv, NEW c \in Controllers,
           StartTick(c) \/ StopConsuming(c) \/ FinishTick(c) \/ ControllerDies(c)
    PROVE  StopInv'
<1>1. UNCHANGED <<demand, job, busy, forced>> /\ (news' = news \/ news' = Requeued)
  BY DEF StartTick, StopConsuming, FinishTick, ControllerDies
<1>2. \A k \in Demands \X Versions :
         /\ news'[k].new = news[k].new
         /\ (news'[k].status = "absent") <=> (news[k].status = "absent")
         /\ (news'[k].status = "done") <=> (news[k].status = "done")
  BY <1>1, RequeuedTypes
<1>3. Seen' /\ Listed'
  <2>1. tick[c] \in Tick
    BY DEF TypeInv, DemandTypeOK
  <2>2. CASE StartTick(c)
    <3> DEFINE s == [NoTick EXCEPT !.at = "consuming"]
    <3>1. ContinueTick(c, s) /\ s.at = "consuming" /\ s.list = {}
      BY <2>2 DEF StartTick, NoTick
    <3> HIDE DEF s
    <3> QED
      BY <3>1, EmptyTick
  <2>3. CASE StopConsuming(c)
    <3> DEFINE s == [tick[c] EXCEPT !.at = "listing"]
    <3>1. ContinueTick(c, s) /\ tick[c].list = {}
      BY <2>3 DEF StopConsuming, StopInv, Listed
    <3>2. s.at = "listing" /\ s.list = {}
      BY <2>1, <3>1 DEF Tick
    <3> HIDE DEF s
    <3> QED
      BY <3>1, <3>2, EmptyTick
  <2>4. CASE FinishTick(c) \/ ControllerDies(c)
    BY <2>4, EmptyTick DEF FinishTick, ControllerDies, NoTick
  <2> QED
    BY <2>2, <2>3, <2>4
<1>4. Own' /\ NoFutureNews' /\ NewsNew' /\ \A p \in Operators : SinceOK(job'[p], demand')
  BY <1>1, <1>2, StopStatuses
<1>5. HandledStopIsQuiet'
  BY <1>1, <1>2, StopQuiet DEF Quiet
<1> QED
  BY <1>3, <1>4, <1>5 DEF StopInv

LEMMA LeaseStops ==
    ASSUME Orderly, TypeInv, StopInv, NEW c \in Controllers, NEW m \in Demands \X Versions,
           LeaseNews(c, m)
    PROVE  StopInv'
<1> DEFINE a == IF news[m].new \in Stopped THEN "handling" ELSE "acking"
<1> DEFINE s == [tick[c] EXCEPT !.at = a, !.news = m]
<1>1. tick[c] \in Tick /\ tick[c].list = {} /\ ContinueTick(c, s) /\ UNCHANGED <<demand, job, busy, forced>>
  BY DEF TypeInv, DemandTypeOK, LeaseNews, StopInv, Listed
<1>2. \A k \in Demands \X Versions :
         /\ news'[k].new = news[k].new
         /\ (news'[k].status = "absent") <=> (news[k].status = "absent")
         /\ news'[k].status = "done" => news[k].status = "done"
  BY DEF LeaseNews, TypeInv, DemandTypeOK, News
<1>3. news[m].status # "absent"
  BY DEF LeaseNews
<1>4. a \in {"handling", "acking"} /\ (a = "acking" => news[m].new \notin Stopped)
  OBVIOUS
<1> HIDE DEF a
<1>5. s.at = a /\ s.news = m /\ s.list = {}
  BY <1>1 DEF Tick
<1> HIDE DEF s
<1>6. \A e \in Controllers : tick'[e] = s
  BY <1>1, OneTick
<1>7. Seen' /\ Listed'
  <2>1. ASSUME NEW d \in Demands, a = "acking", m = <<d, demand[d].payload.since>>,
               demand[d].payload.status \in Stopped
        PROVE  FALSE
    <3>1. demand[d].payload.since > 0
      BY <2>1 DEF Versions
    <3>2. news[m].new = demand[d].payload.status
      BY <1>3, <2>1, <3>1 DEF StopInv, NewsNew, Announcement
    <3> QED
      BY <1>4, <2>1, <3>2
  <2> QED
    BY <1>1, <1>2, <1>3, <1>5, <1>6, <2>1 DEF Seen, Listed
<1>8. Own' /\ NoFutureNews' /\ NewsNew' /\ \A p \in Operators : SinceOK(job'[p], demand')
  BY <1>1, <1>2, StopStatuses
<1>9. HandledStopIsQuiet'
  BY <1>1, <1>2, StopQuiet DEF Quiet
<1> QED
  BY <1>7, <1>8, <1>9 DEF StopInv

LEMMA HandleStops ==
    ASSUME Orderly, TypeInv, StopInv, NEW c \in Controllers,
           CancelOpenWork(c) \/ AckNews(c) \/ HandlerFails(c)
    PROVE  StopInv'
<1> DEFINE m == tick[c].news
<1>1. tick[c] \in Tick /\ tick[c].list = {} /\ m \in Demands \X Versions /\ news[m] \in News
  BY DEF TypeInv, DemandTypeOK, TickOK, CancelOpenWork, AckNews, HandlerFails, StopInv, Listed
<1>2. news[m].status # "absent"
  BY DEF StopInv, Seen, CancelOpenWork, AckNews, HandlerFails
<1>3. CASE CancelOpenWork(c)
  <2> DEFINE s == [tick[c] EXCEPT !.at = "acking"]
  <2>1. /\ ContinueTick(c, s) /\ UNCHANGED <<demand, job, news>>
        /\ busy' = busy \ {m[1]} /\ forced' = forced \ {m[1]}
    BY <1>3 DEF CancelOpenWork
  <2>2. s.at = "acking" /\ s.news = m /\ s.list = {}
    BY <1>1 DEF Tick
  <2> HIDE DEF s
  <2>3. \A e \in Controllers : tick'[e] = s
    BY <2>1, OneTick
  <2> HIDE DEF m
  <2>4. Seen' /\ Listed'
    BY <1>2, <2>1, <2>2, <2>3 DEF Seen, Quiet, Listed
  <2>5. Own' /\ NoFutureNews' /\ NewsNew' /\ \A p \in Operators : SinceOK(job'[p], demand')
    BY <2>1, StopStatuses
  <2>6. HandledStopIsQuiet'
    BY <2>1, StopQuiet DEF Quiet
  <2> QED
    BY <2>4, <2>5, <2>6 DEF StopInv
<1>4. CASE AckNews(c) \/ HandlerFails(c)
  <2> DEFINE s == [tick[c] EXCEPT !.at = "consuming", !.news = None]
  <2>1. ContinueTick(c, s) /\ UNCHANGED <<demand, job, busy, forced>>
    BY <1>4 DEF AckNews, HandlerFails
  <2>2. s.at = "consuming" /\ s.list = {}
    BY <1>1 DEF Tick
  <2> HIDE DEF s
  <2>3. Seen' /\ Listed'
    BY <2>1, <2>2, EmptyTick
  <2>4. /\ \A k \in Demands \X Versions : k # m => news'[k] = news[k]
        /\ news'[m].new = news[m].new
        /\ news'[m].status \in {"done", "dead", "delayed"}
        /\ HandlerFails(c) => news'[m].status # "done"
    BY <1>1, <1>4 DEF AckNews, HandlerFails, TypeInv, DemandTypeOK, News
  <2>5. \A k \in Demands \X Versions :
           /\ news'[k].new = news[k].new
           /\ (news'[k].status = "absent") <=> (news[k].status = "absent")
    BY <1>2, <2>4
  <2>6. Own' /\ NoFutureNews' /\ NewsNew' /\ \A p \in Operators : SinceOK(job'[p], demand')
    BY <2>1, <2>5, StopStatuses
  <2>7. HandledStopIsQuiet'
    <3>1. ASSUME NEW d \in Demands, StopHandled(d)'
          PROVE  Quiet(d)
      <4> DEFINE k == <<d, demand[d].payload.since>>
      <4>1. /\ demand[d].payload.status \in Stopped /\ demand[d].payload.since > 0
            /\ k \in Demands \X Versions /\ news'[k].status = "done"
        BY <2>1, <3>1, AnnouncementTypes DEF StopHandled, Announcement
      <4>2. CASE k # m
        <5>1. StopHandled(d)
          BY <2>4, <4>1, <4>2 DEF StopHandled, Announcement
        <5> QED
          BY <5>1 DEF StopInv, HandledStopIsQuiet, StopHandled, Quiet
      <4>3. CASE k = m
        <5>1. tick[c].at = "acking"
          BY <1>4, <2>4, <4>1, <4>3 DEF AckNews
        <5> QED
          BY <4>1, <4>3, <5>1 DEF StopInv, Seen
      <4> QED
        BY <4>2, <4>3
    <3> QED
      BY <2>1, <3>1 DEF HandledStopIsQuiet, StopHandled, Quiet
  <2> QED
    BY <2>3, <2>6, <2>7 DEF StopInv
<1> QED
  BY <1>3, <1>4

LEMMA CompileStops ==
    ASSUME Orderly, TypeInv, StopInv, NEW c \in Controllers,
           ListActive(c) \/ \E d \in Demands : CompileDemand(c, d)
    PROVE  StopInv'
<1>1. UNCHANGED <<demand, job, news>>
  BY DEF ListActive, CompileDemand
<1>2. Own' /\ NoFutureNews' /\ NewsNew' /\ \A p \in Operators : SinceOK(job'[p], demand')
  BY <1>1, StopStatuses
<1>3. tick[c] \in Tick
  BY DEF TypeInv, DemandTypeOK
<1>4. CASE ListActive(c)
  <2> DEFINE s == [tick[c] EXCEPT !.at = "compiling", !.list = Active]
  <2>1. ContinueTick(c, s) /\ UNCHANGED <<busy, forced>>
    BY <1>4 DEF ListActive
  <2>2. \A d \in Active : ~StopHandled(d)
    BY DEF StopHandled, Stopped, Active
  <2>3. s.at = "compiling" /\ s.list = Active
    BY <1>3 DEF Tick
  <2> HIDE DEF s
  <2>4. \A e \in Controllers : tick'[e] = s
    BY <2>1, OneTick
  <2>5. HandledStopIsQuiet' /\ \A d \in Demands : StopHandled(d)' => StopHandled(d)
    BY <1>1, <2>1, StopQuiet DEF Quiet
  <2>6. Active \subseteq Demands
    BY DEF Active
  <2>7. Seen' /\ Listed'
    BY <2>2, <2>3, <2>4, <2>5, <2>6 DEF Seen, Listed
  <2> QED
    BY <1>2, <2>5, <2>7 DEF StopInv
<1>5. CASE \E d \in Demands : CompileDemand(c, d)
  <2>1. PICK d \in Demands : CompileDemand(c, d)
    BY <1>5
  <2> DEFINE s == [tick[c] EXCEPT !.list = @ \ {d}]
  <2>2. /\ ContinueTick(c, s) /\ tick[c].at = "compiling" /\ d \in tick[c].list
        /\ busy' \subseteq busy \cup {d} /\ forced' = forced
    BY <2>1 DEF CompileDemand
  <2>3. s.at = "compiling" /\ s.list \subseteq tick[c].list
    BY <1>3, <2>2 DEF Tick
  <2> HIDE DEF s
  <2>4. \A e \in Controllers : tick'[e] = s
    BY <2>2, OneTick
  <2>5. \A e \in Demands : StopHandled(e)' => StopHandled(e)
    BY <1>1 DEF StopHandled, Announcement
  <2>6. ~StopHandled(d)
    BY <2>2 DEF StopInv, Listed
  <2>7. HandledStopIsQuiet'
    <3>1. \A e \in Demands : StopHandled(e) => Quiet(e)
      BY DEF StopInv, HandledStopIsQuiet, StopHandled, Quiet
    <3>2. \A e \in Demands : StopHandled(e)' => Quiet(e)'
      BY <2>2, <2>5, <2>6, <3>1 DEF Quiet
    <3> QED
      BY <3>2 DEF HandledStopIsQuiet, StopHandled, Quiet
  <2>8. \A e \in s.list : e \in Demands /\ ~StopHandled(e)
    BY <1>3, <2>3 DEF StopInv, Listed, Tick
  <2>9. Seen' /\ Listed'
    BY <2>3, <2>4, <2>5, <2>8 DEF Seen, Listed
  <2> QED
    BY <1>2, <2>7, <2>9 DEF StopInv
<1> QED
  BY <1>4, <1>5

LEMMA EnvironmentStops ==
    ASSUME TypeInv, StopInv, Environment
    PROVE  StopInv'
<1>1. UNCHANGED <<demand, job, tick, forced>> /\ busy' \subseteq busy
  BY DEF Environment, Settle, NewsWaits
<1>2. \A k \in Demands \X Versions :
         /\ news'[k].new = news[k].new
         /\ (news'[k].status = "absent") <=> (news[k].status = "absent")
         /\ (news'[k].status = "done") <=> (news[k].status = "done")
  <2>1. CASE UNCHANGED news
    BY <2>1
  <2>2. CASE \E m \in Demands \X Versions : NewsWaits(m)
    BY <2>2 DEF NewsWaits, TypeInv, DemandTypeOK, News
  <2> QED
    BY <2>1, <2>2 DEF Environment, Settle
<1>3. Own' /\ NoFutureNews' /\ NewsNew' /\ \A p \in Operators : SinceOK(job'[p], demand')
  BY <1>1, <1>2, StopStatuses
<1>4. HandledStopIsQuiet' /\ \A d \in Demands : StopHandled(d)' => StopHandled(d)
  BY <1>1, <1>2, StopQuiet DEF Quiet
<1>5. Seen'
  BY <1>1, <1>2 DEF StopInv, Seen, Quiet, TypeInv, TickOK
<1>6. Listed'
  BY <1>1, <1>4 DEF StopInv, Listed, TypeInv, DemandTypeOK, Tick
<1> QED
  BY <1>3, <1>4, <1>5, <1>6 DEF StopInv

LEMMA StopNext ==
    ASSUME Orderly
    PROVE  TypeInv /\ StopInv /\ [Next]_vars => StopInv'
<1> SUFFICES ASSUME TypeInv, StopInv, [Next]_vars PROVE StopInv'
  OBVIOUS
<1>1. CASE UNCHANGED vars
  <2>1. UNCHANGED <<demand, job, news, tick, busy, forced>>
    BY <1>1 DEF vars
  <2>2. Own' /\ NoFutureNews' /\ NewsNew' /\ \A p \in Operators : SinceOK(job'[p], demand')
    BY <2>1, StopStatuses
  <2>3. HandledStopIsQuiet' /\ \A d \in Demands : StopHandled(d)' => StopHandled(d)
    BY <2>1, StopQuiet DEF Quiet
  <2>4. Seen' /\ Listed'
    BY <2>1, <2>3 DEF StopInv, Seen, Quiet, Listed, TypeInv, DemandTypeOK, Tick
  <2> QED
    BY <2>2, <2>3, <2>4 DEF StopInv
<1>2. CASE \E o \in Operators : Command(o)
  BY <1>2, CommandStops
<1>3. CASE \E o \in Operators : Operate(o)
  BY <1>3, OperateStops, WriteStops, AnnounceStops, CompileByHandStops DEF Operate
<1>4. CASE \E c \in Controllers : Control(c) \/ ControllerDies(c)
  BY <1>4, TickStops, LeaseStops, HandleStops, CompileStops DEF Control
<1>5. CASE Environment
  BY <1>5, EnvironmentStops
<1>6. CASE \E o \in Operators : OperatorDies(o)
  <2>1. PICK o \in Operators : OperatorDies(o)
    BY <1>6
  <2>2. NoJob \in Job /\ NoJob.demand = None /\ SinceOK(NoJob, demand)
    BY Nulls DEF NoJob, SinceOK
  <2> QED
    BY <2>1, <2>2, StopContinue DEF OperatorDies
<1> QED
  BY <1>1, <1>2, <1>3, <1>4, <1>5, <1>6 DEF Next

\* With one controller, and commands on a demand that do not overlap, the announcement
\* of a stop is acknowledged only once the demand is quiet, and until it is active again
\* nothing of it is open but what an operator has compiled or retried by hand: whatever a
\* tick has listed, wherever a process dies, and however often a handler fails or a lease
\* runs out.
THEOREM HandledStopsStayQuiet ==
    ASSUME Orderly
    PROVE  Spec => []HandledStopIsQuiet
<1>1. Init => TypeInv /\ StopInv
  BY TypesInit, StopInit
<1>2. TypeInv /\ StopInv /\ [Next]_vars => (TypeInv /\ StopInv)'
  BY TypesNext, StopNext
<1>3. StopInv => HandledStopIsQuiet
  BY DEF StopInv
<1> QED
  BY <1>1, <1>2, <1>3, PTL DEF Spec

=============================================================================
