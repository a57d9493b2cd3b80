--------------------------- MODULE DemandRuntime ---------------------------
(***************************************************************************)
(* Demands: the command line that requests, registers, suspends and        *)
(* cancels them (request_center.py, demand.py), and the runtime controller *)
(* whose ticks consume the announcements, cancel the work of a demand that *)
(* was stopped and compile the active ones into requests (runtime.py).     *)
(*                                                                         *)
(* The data store is in autocommit mode, so a SELECT and the UPDATE that   *)
(* rests on it are two steps, and the announcement on the bus is a third.  *)
(* What workers do with a request is one step here; CollectionWorkers has  *)
(* the rest.  The announcement of a registration is acknowledged and       *)
(* nothing else, so only those of a lifecycle action are kept.             *)
(***************************************************************************)
EXTENDS Naturals

CONSTANTS
    Demands,
    Targets,      \* industries and companies, which MIC knows by their profile
    Files,        \* what the demand files hold that an operator may register
    Operators,    \* processes of the command line
    Controllers,  \* processes that run ticks
    Overlap,      \* commands on one demand may overlap
    MaxCommands,  \* bound: commands given
    MaxVersion,   \* bound: versions of a demand
    MaxAttempts,  \* max_attempts of an announcement
    MaxCrashes,   \* bound: processes that die
    None

ASSUME DemandAssumption ==
    /\ Files \subseteq [status: {"draft", "active"}, targets: SUBSET Targets]
    /\ Overlap \in BOOLEAN /\ MaxCommands \in Nat /\ MaxVersion \in Nat \ {0}
    /\ MaxAttempts \in Nat \ {0} /\ MaxCrashes \in Nat
    /\ None \notin Demands \cup Targets \cup Operators \cup (Demands \X Nat)

VARIABLES
    demand,    \* the row of each demand; version 0 is a missing row
    profiles,  \* targets in target_profiles.yaml
    unknown,   \* history: other targets, which a registered file has named
    lock,      \* the operator that holds the lock of that file
    job,       \* what each operator is doing
    news,      \* demand.changed messages, by demand and version
    tick,      \* where each controller stands
    busy,      \* demands with a request or task ticket that is open or in progress
    failed,    \* demands with one that is failed or dead
    forced,    \* history: demands whose stop an operator has put work behind
    commands, crashes  \* how many there have been

vars == <<demand, profiles, unknown, lock, job, news, tick, busy, failed, forced,
          commands, crashes>>

Versions == 1..MaxVersion
Statuses == {"draft", "active", "suspended", "cancelled"}
Stopped == {"suspended", "cancelled"}

\* What a command writes.  `since' is history: the version of the last lifecycle
\* action, 0 if the status comes from a file.
Payload == [status: Statuses, targets: SUBSET Targets, since: 0..MaxVersion]
Scaffold == [status |-> "active", targets |-> {}, since |-> 0]
Row == [version: 0..MaxVersion, payload: Payload]

\* A message whose lease has run out is "late"; one that was returned is "delayed"
\* until its available_at.
News == [status: {"absent", "open", "delayed", "held", "late", "done", "dead"},
         new: Statuses, attempts: 0..MaxAttempts]
NoNews == [status |-> "absent", new |-> "active", attempts |-> 0]

Job == [at: {"idle", "profiles", "saving", "next", "version", "update", "change", "announce",
              "compiling"},
        left: SUBSET Demands, demand: Demands \cup {None}, target: Targets \cup {None},
        payload: Payload, version: 0..MaxVersion, book: SUBSET Targets]
NoJob == [at |-> "idle", left |-> {}, demand |-> None, target |-> None,
          payload |-> Scaffold, version |-> 0, book |-> {}]

Tick == [at: {"idle", "consuming", "handling", "acking", "listing", "compiling"},
         news: (Demands \X Versions) \cup {None}, list: SUBSET Demands]
NoTick == [at |-> "idle", news |-> None, list |-> {}]

DemandTypeOK ==
    /\ demand \in [Demands -> Row]
    /\ profiles \subseteq Targets
    /\ unknown \subseteq Targets
    /\ lock \in Operators \cup {None}
    /\ job \in [Operators -> Job]
    /\ news \in [Demands \X Versions -> News]
    /\ tick \in [Controllers -> Tick]
    /\ busy \subseteq Demands
    /\ failed \subseteq Demands
    /\ forced \subseteq Demands
    /\ commands \in 0..MaxCommands
    /\ crashes \in 0..MaxCrashes

-----------------------------------------------------------------------------
(* request industry | company | batch | remove, and demand register          *)

\* An operator may give a command.
Free(o) == job[o].at = "idle" /\ commands < MaxCommands

\* Assumed of the operators, not seen to by the code: while one command reads and
\* writes or compiles a demand, no other does.
Alone(d) ==
    Overlap \/ \A o \in Operators :
                  job[o].demand # d /\ ~(job[o].at = "compiling" /\ d \in job[o].left)

Continue(o, step) == job' = [job EXCEPT ![o] = step]

\* Nothing but the operator's own progress changes.
Reads(o, step) ==
    /\ Continue(o, step)
    /\ UNCHANGED <<demand, profiles, unknown, lock, news, tick, busy, failed, forced, commands, crashes>>

\* A command begins.
Starts(o, step) ==
    /\ commands' = commands + 1
    /\ Continue(o, step)
    /\ UNCHANGED <<demand, profiles, unknown, lock, news, tick, busy, failed, forced, crashes>>

\* A batch names a target for several demands, a single request for one.
RequestTarget(o, ds, t) ==
    /\ Free(o)
    /\ Starts(o, [NoJob EXCEPT !.at = "profiles", !.left = ds, !.target = t])

\* Regression: the file is loaded and replaced without its lock.
LoadProfilesUnlocked(o) ==
    /\ job[o].at = "profiles"
    /\ Reads(o, [job[o] EXCEPT !.at = "saving", !.book = profiles])

\* _upsert_mic_profiles: under the lock the file is loaded ...
LoadProfiles(o) ==
    /\ job[o].at = "profiles"
    /\ lock = None
    /\ lock' = o
    /\ Continue(o, [job[o] EXCEPT !.at = "saving", !.book = profiles])
    /\ UNCHANGED <<demand, profiles, unknown, news, tick, busy, failed, forced, commands, crashes>>

\* ... and replaced as a whole.
SaveProfiles(o) ==
    /\ job[o].at = "saving"
    /\ profiles' = job[o].book \cup {job[o].target}
    /\ unknown' = unknown \ {job[o].target}
    /\ lock' = None
    /\ Continue(o, [job[o] EXCEPT !.at = "next", !.book = {}])
    /\ UNCHANGED <<demand, news, tick, busy, failed, forced, commands, crashes>>

\* The stored demand, or its scaffold.
Stored(d) == IF demand[d].version = 0 THEN Scaffold ELSE demand[d].payload

\* _merge_targets_into_demand reads a demand of the request and adds the target.
MergeTarget(o, d) ==
    /\ job[o].at = "next"
    /\ d \in job[o].left
    /\ Alone(d)
    /\ Reads(o, [job[o] EXCEPT !.at = "version", !.left = @ \ {d}, !.demand = d,
                               !.payload = [Stored(d) EXCEPT !.targets = @ \cup {job[o].target}]])

\* remove_target: of a target the demand does not have, nothing is written.
RemoveTarget(o, d, t) ==
    /\ Free(o) /\ Alone(d)
    /\ demand[d].version > 0
    /\ t \in demand[d].payload.targets
    /\ Starts(o, [NoJob EXCEPT !.at = "version", !.demand = d,
                              !.payload = [demand[d].payload EXCEPT !.targets = @ \ {t}]])

\* demand register: a file's own status and targets.  Targets without a profile are
\* reported and registered all the same.
RegisterFile(o, d, f) ==
    /\ Free(o) /\ Alone(d)
    /\ unknown' = unknown \cup (f.targets \ profiles)
    /\ commands' = commands + 1
    /\ Continue(o, [NoJob EXCEPT !.at = "version", !.demand = d,
                                 !.payload = [status |-> f.status, targets |-> f.targets,
                                              since |-> 0]])
    /\ UNCHANGED <<demand, profiles, lock, news, tick, busy, failed, forced, crashes>>

\* register: one statement reads the version ...
ReadVersion(o) ==
    /\ job[o].at = "version"
    /\ demand[job[o].demand].version < MaxVersion
    /\ Reads(o, [job[o] EXCEPT !.at = "update", !.version = demand[job[o].demand].version])

\* The row with the next version.
Write(o) == demand' = [demand EXCEPT ![job[o].demand] =
                          [version |-> job[o].version + 1, payload |-> job[o].payload]]

\* ... and another writes the row; a batch goes on with its next demand.
WriteDemand(o) ==
    /\ job[o].at = "update"
    /\ Write(o)
    /\ Continue(o, IF job[o].left = {} THEN NoJob
                   ELSE [NoJob EXCEPT !.at = "next", !.left = job[o].left, !.target = job[o].target])
    /\ UNCHANGED <<profiles, unknown, lock, news, tick, busy, failed, forced, commands, crashes>>

-----------------------------------------------------------------------------
(* demand suspend | resume | cancel                                          *)

\* LIFECYCLE_TRANSITIONS, by the status they lead to.
AllowedFrom == [suspended |-> {"active"}, active |-> {"suspended"},
                cancelled |-> {"draft", "active", "suspended"}]

\* apply_lifecycle reads the demand, and refuses what its status does not allow;
ReadLifecycle(o, d, s) ==
    /\ Free(o) /\ Alone(d)
    /\ demand[d].version \in 1..MaxVersion - 1
    /\ demand[d].payload.status \in AllowedFrom[s]
    /\ Starts(o, [NoJob EXCEPT !.at = "change", !.demand = d, !.version = demand[d].version,
                              !.payload = [demand[d].payload EXCEPT
                                             !.status = s, !.since = demand[d].version + 1]])

\* it writes the row,
ChangeDemand(o) ==
    /\ job[o].at = "change"
    /\ Write(o)
    /\ Continue(o, [job[o] EXCEPT !.at = "announce"])
    /\ UNCHANGED <<profiles, unknown, lock, news, tick, busy, failed, forced, commands, crashes>>

\* and announces it under a key made of demand and version.
Announce(o) ==
    LET m == <<job[o].demand, job[o].version + 1>>
    IN /\ job[o].at = "announce"
       /\ news' = IF news[m].status = "absent"
                  THEN [news EXCEPT ![m] = [status |-> "open", new |-> job[o].payload.status, attempts |-> 0]]
                  ELSE news
       /\ Continue(o, NoJob)
       /\ UNCHANGED <<demand, profiles, unknown, lock, tick, busy, failed, forced, commands, crashes>>

-----------------------------------------------------------------------------
(* demand compile and queue retry: an operator's own work                    *)

\* With --demand-id the command reads one demand, whatever its status; without, it
\* lists the active ones.
Active == {d \in Demands : demand[d].version > 0 /\ demand[d].payload.status = "active"}

ReadToCompile(o, ds) ==
    /\ Free(o)
    /\ ds # {} /\ \A d \in ds : Alone(d) /\ demand[d].version > 0
    /\ ds = Active \/ \E d \in Demands : ds = {d}
    /\ Starts(o, [NoJob EXCEPT !.at = "compiling", !.left = ds])

\* Something of the demand comes to be open.
Opens(d) ==
    /\ busy' = busy \cup {d}
    /\ forced' = IF demand[d].payload.status \in Stopped THEN forced \cup {d} ELSE forced

\* compile_demand, as in a tick.
CompileByHand(o, d) ==
    /\ job[o].at = "compiling"
    /\ d \in job[o].left
    /\ Opens(d) \/ UNCHANGED <<busy, forced>>
    /\ Continue(o, IF job[o].left = {d} THEN NoJob ELSE [job[o] EXCEPT !.left = @ \ {d}])
    /\ UNCHANGED <<demand, profiles, unknown, lock, news, tick, failed, commands, crashes>>

\* retry_message opens a failed ticket again, of whatever demand.
RetryWork(o, d) ==
    /\ Free(o)
    /\ d \in failed
    /\ Opens(d)
    /\ failed' \in {failed, failed \ {d}}
    /\ commands' = commands + 1
    /\ UNCHANGED <<demand, profiles, unknown, lock, job, news, tick, crashes>>

-----------------------------------------------------------------------------
(* tick: consume the announcements, then compile the active demands          *)

ContinueTick(c, step) == tick' = [tick EXCEPT ![c] = step]

\* Regression: requeue_expired_leases is left out of the tick.
RequeuedNothing == news

\* requeue_expired_leases
Requeued ==
    [m \in DOMAIN news |->
        IF news[m].status # "late" THEN news[m]
        ELSE [news[m] EXCEPT !.status = IF news[m].attempts >= MaxAttempts THEN "dead" ELSE "open"]]

StartTick(c) ==
    /\ tick[c].at = "idle"
    /\ news' = Requeued
    /\ ContinueTick(c, [NoTick EXCEPT !.at = "consuming"])
    /\ UNCHANGED <<demand, profiles, unknown, lock, job, busy, failed, forced, commands, crashes>>

LeaseNews(c, m) ==
    /\ tick[c].at = "consuming"
    /\ news[m].status = "open"
    /\ news' = [news EXCEPT ![m].status = "held", ![m].attempts = @ + 1]
    /\ ContinueTick(c, [tick[c] EXCEPT !.at = IF news[m].new \in Stopped THEN "handling" ELSE "acking",
                                       !.news = m])
    /\ UNCHANGED <<demand, profiles, unknown, lock, job, busy, failed, forced, commands, crashes>>

\* _cancel_open_work: every live ticket of the demand, in one transaction.
CancelOpenWork(c) ==
    /\ tick[c].at = "handling"
    /\ busy' = busy \ {tick[c].news[1]}
    /\ forced' = forced \ {tick[c].news[1]}
    /\ ContinueTick(c, [tick[c] EXCEPT !.at = "acking"])
    /\ UNCHANGED <<demand, profiles, unknown, lock, job, news, failed, commands, crashes>>

\* The acknowledgement names the message, not the lease.
AckNews(c) ==
    /\ tick[c].at = "acking"
    /\ news' = [news EXCEPT ![tick[c].news].status = "done"]
    /\ ContinueTick(c, [tick[c] EXCEPT !.at = "consuming", !.news = None])
    /\ UNCHANGED <<demand, profiles, unknown, lock, job, busy, failed, forced, commands, crashes>>

\* A write of the handler fails: the message is returned, or dead.
HandlerFails(c) ==
    LET m == tick[c].news
    IN /\ tick[c].at \in {"handling", "acking"}
       /\ news' = [news EXCEPT ![m].status = IF news[m].attempts >= MaxAttempts THEN "dead" ELSE "delayed"]
       /\ ContinueTick(c, [tick[c] EXCEPT !.at = "consuming", !.news = None])
       /\ UNCHANGED <<demand, profiles, unknown, lock, job, busy, failed, forced, commands, crashes>>

NothingLeased == \A m \in DOMAIN news : news[m].status # "open"

\* QueueEmpty
StopConsuming(c) ==
    /\ tick[c].at = "consuming"
    /\ NothingLeased
    /\ ContinueTick(c, [tick[c] EXCEPT !.at = "listing"])
    /\ UNCHANGED <<demand, profiles, unknown, lock, job, news, busy, failed, forced, commands, crashes>>

\* Regression: registry.list instead of registry.active.
ListAll(c) ==
    /\ tick[c].at = "listing"
    /\ ContinueTick(c, [tick[c] EXCEPT !.at = "compiling", !.list = {d \in Demands : demand[d].version > 0}])
    /\ UNCHANGED <<demand, profiles, unknown, lock, job, news, busy, failed, forced, commands, crashes>>

\* registry.active
ListActive(c) ==
    /\ tick[c].at = "listing"
    /\ ContinueTick(c, [tick[c] EXCEPT !.at = "compiling", !.list = Active])
    /\ UNCHANGED <<demand, profiles, unknown, lock, job, news, busy, failed, forced, commands, crashes>>

\* compile_demand creates a request, unless the cadence is not due, the day is not a
\* trading day or this minute has a ticket.  Its message changes nothing here.
CompileDemand(c, d) ==
    /\ tick[c].at = "compiling"
    /\ d \in tick[c].list
    /\ \/ busy' = busy \cup {d}
       \/ UNCHANGED busy
    /\ ContinueTick(c, [tick[c] EXCEPT !.list = @ \ {d}])
    /\ UNCHANGED <<demand, profiles, unknown, lock, job, news, failed, forced, commands, crashes>>

FinishTick(c) ==
    /\ tick[c].at = "compiling"
    /\ tick[c].list = {}
    /\ ContinueTick(c, NoTick)
    /\ UNCHANGED <<demand, profiles, unknown, lock, job, news, busy, failed, forced, commands, crashes>>

-----------------------------------------------------------------------------
(* Workers, time, crashes                                                    *)

\* A worker settles a ticket of the demand: it is the last live one, or it fails.
Settle(d) ==
    /\ d \in busy
    /\ \/ busy' = busy \ {d} /\ failed' \in {failed, failed \cup {d}}
       \/ UNCHANGED busy /\ failed' = failed \cup {d}
    /\ UNCHANGED <<demand, profiles, unknown, lock, job, news, tick, forced, commands, crashes>>

\* A message becomes available again, or its lease runs out.
NewsWaits(m) ==
    /\ \/ news[m].status = "delayed" /\ news' = [news EXCEPT ![m].status = "open"]
       \/ news[m].status = "held" /\ news' = [news EXCEPT ![m].status = "late"]
    /\ UNCHANGED <<demand, profiles, unknown, lock, job, tick, busy, failed, forced, commands, crashes>>

OperatorDies(o) ==
    /\ job[o].at # "idle"
    /\ crashes < MaxCrashes
    /\ crashes' = crashes + 1
    /\ lock' = IF lock = o THEN None ELSE lock
    /\ Continue(o, NoJob)
    /\ UNCHANGED <<demand, profiles, unknown, news, tick, busy, failed, forced, commands>>

ControllerDies(c) ==
    /\ tick[c].at # "idle"
    /\ crashes < MaxCrashes
    /\ crashes' = crashes + 1
    /\ ContinueTick(c, NoTick)
    /\ UNCHANGED <<demand, profiles, unknown, lock, job, news, busy, failed, forced, commands>>

-----------------------------------------------------------------------------
\* A demand is unknown, or registered with no target yet.
Init ==
    /\ demand \in [Demands -> [version: {0, 1}, payload: {Scaffold}]]
    /\ profiles = {} /\ unknown = {}
    /\ lock = None
    /\ job = [o \in Operators |-> NoJob]
    /\ news = [m \in Demands \X Versions |-> NoNews]
    /\ tick = [c \in Controllers |-> NoTick]
    /\ busy = {} /\ failed = {} /\ forced = {}
    /\ commands = 0
    /\ crashes = 0

Command(o) ==
    \/ \E ds \in SUBSET Demands, t \in Targets : ds # {} /\ RequestTarget(o, ds, t)
    \/ \E d \in Demands :
          \/ \E t \in Targets : RemoveTarget(o, d, t)
          \/ \E f \in Files : RegisterFile(o, d, f)
          \/ \E s \in DOMAIN AllowedFrom : ReadLifecycle(o, d, s)
          \/ RetryWork(o, d)
    \/ \E ds \in SUBSET Demands : ReadToCompile(o, ds)

Operate(o) ==
    \/ LoadProfiles(o) \/ SaveProfiles(o)
    \/ \E d \in Demands : MergeTarget(o, d)
    \/ ReadVersion(o) \/ WriteDemand(o) \/ ChangeDemand(o) \/ Announce(o)
    \/ \E d \in Demands : CompileByHand(o, d)

Control(c) ==
    \/ StartTick(c)
    \/ \E m \in Demands \X Versions : LeaseNews(c, m)
    \/ CancelOpenWork(c) \/ AckNews(c) \/ HandlerFails(c)
    \/ StopConsuming(c) \/ ListActive(c)
    \/ \E d \in Demands : CompileDemand(c, d)
    \/ FinishTick(c)

Environment ==
    \/ \E d \in Demands : Settle(d)
    \/ \E m \in Demands \X Versions : NewsWaits(m)

Next ==
    \/ \E o \in Operators : Command(o) \/ Operate(o) \/ OperatorDies(o)
    \/ \E c \in Controllers : Control(c) \/ ControllerDies(c)
    \/ Environment

Spec == Init /\ [][Next]_vars

\* Ticks are run again and again and go on once started; the clock runs.  Nothing is
\* assumed of the operators.
Fairness ==
    /\ \A c \in Controllers : WF_vars(Control(c))
    /\ \A m \in Demands \X Versions : WF_vars(NewsWaits(m))

FairSpec == Spec /\ Fairness

-----------------------------------------------------------------------------
\* The announcement of the lifecycle action that gave a demand its status.
Announcement(d) == news[<<d, demand[d].payload.since>>]

\* A stop takes hold: once the announcement of the action that stopped a demand is
\* acknowledged, nothing of the demand is open, although the tick that compiles it
\* works from a list it read before; only an operator who compiles the stopped demand
\* or retries its work by hand puts something behind the stop.  One controller is
\* assumed, and commands that do not overlap: a second tick could still compile from a
\* list of its own.
HandledStopIsQuiet ==
    \A d \in Demands :
        /\ demand[d].payload.status \in Stopped
        /\ demand[d].payload.since > 0
        /\ Announcement(d).status = "done"
        => d \notin busy \/ d \in forced

\* A request writes the profile of its target before the demand, and no other request's
\* copy of the file drops it: the only targets MIC does not know are those a registered
\* file has named, of which the command warns.
DemandTargetsHaveProfiles ==
    \A d \in Demands : demand[d].payload.targets \subseteq profiles \cup unknown

\* An announced stop is carried out, through failing handlers and crashes, unless the
\* demand is active again or the queue has given an announcement up.  Work an operator
\* puts behind a stop waits for the announcement of another.
StopIsCarriedOut ==
    \A d \in Demands :
        /\ demand[d].payload.status \in Stopped
        /\ demand[d].payload.since > 0
        /\ Announcement(d).status # "absent"
        ~> \/ d \notin busy
           \/ demand[d].payload.status \notin Stopped
           \/ \E v \in Versions : news[<<d, v>>].status = "dead"
           \/ d \in forced /\ Announcement(d).status \in {"absent", "done"}

=============================================================================
