--------------------------- MODULE IntelligenceRun ---------------------------
(***************************************************************************)
(* One call of Pipeline.collect_intelligence on the browser route: search, *)
(* triage of the hits, reading of the links triage chose, extraction and   *)
(* arbitration by models, publication dates settled from what later reads  *)
(* say, and the records the run leaves in its store.                       *)
(*                                                                         *)
(* The run is one thread.  What makes it hard is that a cancel or the      *)
(* deadline (Stop) may come between any two steps, while a page or a model *)
(* is being waited for, and that every path through the long loop has to   *)
(* end at one of a few checks.  A page load or a model request is one step *)
(* with what the code does up to its next check.  Which links a ranking    *)
(* prefers, what a page says and what a model answers are free choices.    *)
(***************************************************************************)
EXTENDS Naturals, FiniteSets, Sequences

CONSTANTS
    Links,          \* canonical URLs the run can come across
    Bodies,         \* content hashes
    BodyOf,         \* the body a link shows
    FinalOf,        \* where a link redirects to
    Indexes,        \* links that are directories
    ChildrenOf,     \* links a directory shows
    WindowOn,       \* the task has a publication window
    MaxQueries, MaxHits, MaxReads,
    MaxCalls,       \* max_model_calls of the run
    MaxTriages,     \* max_batch_triage_calls
    MaxPerLink,     \* max_model_calls_per_source_link
    BatchSize,      \* serp_batch_size
    Limit,          \* limits of the reserved operations
    None

Counters == {"http", "browser", "auth", "gateway", "vision"}

ASSUME RunAssumption ==
    /\ IsFiniteSet(Links)
    /\ BodyOf \in [Links -> Bodies] /\ FinalOf \in [Links -> Links]
    /\ Indexes \subseteq Links /\ ChildrenOf \in [Links -> SUBSET Links]
    /\ WindowOn \in BOOLEAN
    /\ {MaxQueries, MaxHits, MaxReads, MaxTriages, MaxPerLink} \subseteq Nat
    /\ {MaxCalls, BatchSize} \subseteq Nat \ {0}
    /\ Limit \in [Counters -> Nat]
    /\ None \notin Links

VARIABLES
    stopAt,     \* None until the run is cancelled or late; then where that found it
    at,         \* the step the run is about to take
    exec,       \* stats.execution_status
    queries, reads,
    used,       \* RunBudget.used
    calls, triages, linkCalls, recovered,   \* CallBudget and _json_recovery_used
    audited,    \* entries of stats.model_requests
    found, unranked, batch, queue, attempted, finals, seen,
    basis,      \* what authorized a link: the basis of its accepted task_review
    gap,        \* the pending dictionary
    support,    \* supported rows collected for a pending link
    cur, plan, page, shown, outs, good,     \* the link in hand
    date,       \* publication_time of a stored link
    admitted,   \* links with a merged analysis
    row,        \* search_runs.status
    usable      \* the reported verdict

ctl == <<stopAt, exec>>
budget == <<queries, reads, used, calls, triages, linkCalls, recovered, audited>>
lists == <<found, unranked, batch, queue, attempted, finals, seen, basis, gap, support>>
hand == <<cur, plan, page, shown, outs, good>>
store == <<date, admitted, row, usable>>
vars == <<ctl, at, budget, lists, hand, store>>

\* What poll_cancel and the deadline say: check_alive raises once it is false.
Alive == stopAt = None
Can(counter) == Alive /\ used[counter] < Limit[counter]
Count(counter) == used' = [used EXCEPT ![counter] = @ + 1]
ReadAttemptPossible == Can("http") \/ Can("browser")
\* Regression: triage may take the last call.
CanTriageToTheLast == triages < MaxTriages /\ calls + 1 <= MaxCalls
\* One extraction call stays reserved.
CanTriage == triages < MaxTriages /\ calls + 1 < MaxCalls
\* navigation and corroboration want a triage call, an extraction call and a read left
CanFollow ==
    /\ reads < MaxReads /\ ReadAttemptPossible /\ CanTriage
    /\ Alive /\ used["gateway"] + 2 <= Limit["gateway"]

Plans == {<<"http", "browser">>, <<"browser", "http">>, <<"http">>, <<"browser">>}
Dates == {"unknown", "inside", "barred"}    \* barred: outside the window, or in conflict
Checked == {"searching", "triaging", "ranked", "queueing", "picking", "returned", "asked",
            "navigated", "judging", "arbitrated", "dating", "corroborated", "publishing",
            "saving", "settling"}
Steps == Checked \cup {"fetching", "blocked", "transcribing", "asking", "arbitrating",
                       "corroborating", "writing", "closing", "closed", "reporting", "ended", "dead"}
Stopped == {"cancelled", "timed_out"}
Statuses == {"running", "completed", "cancelled", "timed_out", "failed"}

\* Every variable has its domain and no counter passes its limit.
RunTypeOK ==
    /\ stopAt \in {None, "earlier", "writing", "reporting"}
    /\ at \in Steps /\ exec \in Statuses \ {"running"}
    /\ queries \in 0..MaxQueries /\ reads \in 0..MaxReads
    /\ used \in [Counters -> Nat] /\ \A c \in Counters : used[c] <= Limit[c]
    /\ calls \in 0..MaxCalls /\ triages \in 0..MaxTriages
    /\ linkCalls \in [Links -> Nat] /\ recovered \in BOOLEAN
    /\ audited \in Nat
    /\ \A s \in {found, unranked, batch, queue, attempted, finals, admitted} :
           s \subseteq Links
    /\ seen \subseteq Bodies
    /\ basis \in [Links -> {"none", "search", "index", "publication"}]
    /\ gap \in [Links -> {"none", "pending", "settled"}]
    /\ support \in [Links -> SUBSET {"inside", "barred"}]
    /\ cur \in Links \cup {None} /\ plan \in Plans \cup {<<>>}
    /\ page \in {"none", "read", "failed", "dry"} /\ shown \in Dates
    /\ outs \in Nat /\ good \in BOOLEAN
    /\ date \in [Links -> Dates \cup {"none", "awaiting"}]
    /\ row \in Statuses /\ usable \in BOOLEAN

Init ==
    /\ stopAt = None /\ at = "searching" /\ exec = "completed"
    /\ queries = 0 /\ reads = 0 /\ used = [c \in Counters |-> 0]
    /\ calls = 0 /\ triages = 0 /\ linkCalls = [l \in Links |-> 0] /\ recovered = FALSE
    /\ audited = 0
    /\ found = {} /\ unranked = {} /\ batch = {} /\ queue = {} /\ attempted = {}
    /\ finals = {} /\ seen = {}
    /\ basis = [l \in Links |-> "none"] /\ gap = [l \in Links |-> "none"]
    /\ support = [l \in Links |-> {}]
    /\ cur = None /\ plan = <<>> /\ page = "none" /\ shown = "unknown"
    /\ outs = 0 /\ good = FALSE
    /\ date = [l \in Links |-> "none"] /\ admitted = {}
    /\ row = "running" /\ usable = FALSE

Drop == cur' = None /\ plan' = <<>> /\ page' = "none" /\ shown' = "unknown"
        /\ outs' = 0 /\ good' = FALSE
\* What nothing looks at after the last read is forgotten with it,
ForgetReading ==
    /\ queries' = 0 /\ used' = [c \in Counters |-> 0]
    /\ linkCalls' = [l \in Links |-> 0] /\ recovered' = FALSE
    /\ unranked' = {} /\ batch' = {} /\ queue' = {} /\ attempted' = {} /\ finals' = {}
    /\ seen' = {} /\ basis' = [l \in Links |-> "none"]
\* and the rest of the locals of _execute once that is left.
Forget ==
    /\ ForgetReading
    /\ gap' = [l \in Links |-> "none"] /\ support' = [l \in Links |-> {}]
\* With the call, all of its memory is gone.
ForgetAll ==
    /\ Drop /\ Forget
    /\ reads' = 0 /\ calls' = 0 /\ triages' = 0 /\ audited' = 0 /\ found' = {}
\* The next link of the loop the run is in.
Onward == at' = IF gap[cur] = "settled" THEN "settling" ELSE "picking"

-----------------------------------------------------------------------------
(* The surroundings, and how a run ends                                    *)

\* The worker's cancel flag is set, or the deadline passes.
Stop ==
    /\ Alive /\ at \notin {"ended", "dead"}
    /\ stopAt' = IF at \in {"writing", "reporting"} THEN at ELSE "earlier"
    /\ UNCHANGED <<exec, at, budget, lists, hand, store>>

\* RunCancelled: the next check leaves _execute.
Unwind ==
    /\ ~Alive /\ at \in Checked
    /\ exec' \in Stopped
    /\ at' = "closing" /\ Drop /\ Forget
    /\ UNCHANGED <<stopAt, reads, calls, triages, audited, found, store>>

\* Regression: the wrap-up trusts the last check of _execute.
CloseUnchecked ==
    /\ at = "closing" /\ at' = "reporting"
    /\ UNCHANGED <<ctl, budget, lists, hand, store>>

\* _close_context: the browser is closed, whatever that takes.
Close ==
    /\ at = "closing" /\ at' = "closed"
    /\ UNCHANGED <<ctl, budget, lists, hand, store>>

\* The verdict of _collection_diagnostics.
Usable(status) == status = "completed" /\ found # {} /\ reads > 0 /\ admitted # {}

FinalStatusCheck ==
    /\ at = "closed" /\ at' = "reporting"
    /\ exec' \in IF exec # "completed" \/ Alive THEN {exec} ELSE Stopped
    /\ usable' = Usable(exec')
    /\ UNCHANGED <<stopAt, budget, lists, hand, date, admitted, row>>

FinishSearchRun ==
    /\ at = "reporting" /\ at' = "ended"
    /\ row' = exec
    /\ UNCHANGED <<ctl, budget, lists, hand, date, admitted, usable>>

\* An exception nobody expected, the store's for one: the run is "failed".
Raise ==
    /\ at \notin {"ended", "dead"} /\ at' = "ended"
    /\ row' = "failed" /\ usable' = FALSE /\ ForgetAll
    /\ UNCHANGED <<ctl, date, admitted>>

\* The supervisor kills the worker.
Die ==
    /\ at \notin {"ended", "dead"} /\ at' = "dead" /\ ForgetAll
    /\ UNCHANGED <<ctl, store>>

-----------------------------------------------------------------------------
(* Search and triage                                                       *)

\* One planned query: links not met before are triaged, the others are duplicates.
Query ==
    /\ at = "searching" /\ Alive
    /\ queries < MaxQueries /\ Cardinality(found) < MaxHits
    /\ queries' = queries + 1
    /\ \E new \in SUBSET (Links \ found) :
           /\ Cardinality(found) + Cardinality(new) <= MaxHits
           /\ found' = found \cup new
           /\ unranked' = unranked \cup new
    /\ UNCHANGED <<ctl, at, reads, used, calls, triages, linkCalls, recovered, audited, batch, queue,
                   attempted, finals, seen, basis, gap, support, hand, store>>

\* The plan is done, or the hits or a budget are used up; a browser that the first query
\* cannot start ends the search too, and the run goes on to be reported as failed.
EndSearch ==
    /\ at = "searching" /\ Alive /\ at' = "triaging"
    /\ exec' \in IF found = {} THEN {exec, "failed"} ELSE {exec}
    /\ UNCHANGED <<stopAt, budget, lists, hand, store>>

\* A model request, when the run may still send one.
Send == IF Can("gateway") THEN Count("gateway") ELSE used' = used

\* One request to rank candidates: recorded whether or not the gateway took it.
AskRanking(candidates, step) ==
    /\ calls' = calls + 1 /\ triages' = triages + 1 /\ audited' = audited + 1
    /\ Send
    /\ batch' = candidates /\ at' = step
    /\ UNCHANGED <<queries, reads, linkCalls, recovered>>

BatchTriage ==
    /\ at = "triaging" /\ Alive /\ CanTriage
    /\ \E b \in SUBSET unranked :
           /\ b # {}
           /\ Cardinality(b) = BatchSize \/ (b = unranked /\ Cardinality(b) < BatchSize)
           /\ AskRanking(b, "ranked")
    /\ UNCHANGED <<ctl, found, unranked, queue, attempted, finals, seen, basis, gap, support,
                   hand, store>>

\* An accepted ranking decides every link it was asked about; a rejected one decides
\* none, and ends the triage.
ApplyRanking ==
    /\ at = "ranked" /\ Alive /\ batch' = {}
    /\ \/ /\ at' = "triaging"
          /\ \E chosen \in SUBSET batch : queue' = queue \cup chosen
          /\ unranked' = unranked \ batch
          /\ basis' = [l \in Links |-> IF l \in batch THEN "search" ELSE basis[l]]
       \/ /\ at' = "queueing"
          /\ UNCHANGED <<queue, unranked, basis>>
    /\ UNCHANGED <<ctl, budget, found, attempted, finals, seen, gap, support, hand, store>>

EndTriage ==
    /\ at = "triaging" /\ Alive /\ at' = "queueing"
    /\ unranked = {} \/ ~CanTriage
    /\ UNCHANGED <<ctl, budget, lists, hand, store>>

\* Links no model ranked keep the decision of the rules.
RuleChoices == SUBSET unranked
BuildReadQueue ==
    /\ at = "queueing" /\ Alive /\ at' = "picking"
    /\ \E chosen \in RuleChoices : queue' = queue \cup chosen
    /\ unranked' = {}
    /\ UNCHANGED <<ctl, budget, found, batch, attempted, finals, seen, basis, gap, support, hand,
                   store>>

-----------------------------------------------------------------------------
(* Reading one link                                                        *)

\* A child of a directory that another read was redirected to is passed over.
Readable == {l \in queue : ~(basis[l] = "index" /\ l \in attempted)}

Pick ==
    /\ at = "picking" /\ Alive /\ reads < MaxReads /\ ReadAttemptPossible
    /\ \E l \in Readable :
           /\ cur' = l /\ queue' = queue \ {l} /\ attempted' = attempted \cup {l}
    /\ plan' \in Plans
    /\ page' = "dry" /\ at' = "fetching"
    /\ UNCHANGED <<ctl, budget, found, unranked, batch, finals, seen, basis, gap, support, shown,
                   outs, good, store>>

StopReading ==
    /\ at = "picking" /\ Alive
    /\ Readable = {} \/ reads >= MaxReads \/ ~ReadAttemptPossible
    /\ at' = "settling" /\ ForgetReading
    /\ UNCHANGED <<ctl, reads, calls, triages, audited, found, gap, support, hand, store>>

\* Go on with the transports that are left, or return what there is.
Continue(rest) == plan' = rest /\ at' = IF rest = <<>> THEN "returned" ELSE "fetching"
Rest == IF Len(plan) = 1 THEN <<>> ELSE <<plan[2]>>

\* A transport without attempts is passed over; a run that is over stops there.
SkipTransport ==
    /\ at = "fetching" /\ ~Can(plan[1])
    /\ Continue(IF Alive THEN Rest ELSE <<>>)
    /\ UNCHANGED <<ctl, budget, lists, cur, page, shown, outs, good, store>>

\* A directory is read as one only if a model reviewed that intent.
AsIndex(l) == l \in Indexes /\ basis[l] # "none"

\* What a page shows of its date; the dates in a directory are not its own.
ShowDate == shown' \in IF AsIndex(cur) THEN {"unknown"} ELSE Dates

\* The text of a page is found,
PageRead == page' = "read" /\ ShowDate /\ Continue(<<>>)
\* or not, with or without a point in trying the next transport.
PageFailed(left) ==
    page' = "failed" /\ shown' = shown /\ \E rest \in {<<>>, left} : Continue(rest)
\* In the browser it may be a challenge;
Challenged ==
    plan[1] = "browser" /\ page' = "failed" /\ shown' = shown /\ plan' = <<>> /\ at' = "blocked"
\* and what a page holds may be a scan.
ScanFound ==
    /\ used["vision"] < Limit["vision"] /\ ~AsIndex(cur)
    /\ page' = "failed" /\ shown' = shown /\ plan' = Rest /\ at' = "transcribing"

Load ==
    /\ at = "fetching" /\ Can(plan[1]) /\ Count(plan[1])
    /\ PageRead \/ PageFailed(Rest) \/ Challenged \/ ScanFound
    /\ UNCHANGED <<ctl, queries, reads, calls, triages, linkCalls, recovered, audited, lists, cur,
                   outs, good, store>>

\* One request through the same gateway; refused, it leaves what text there was.
Transcribe ==
    /\ at = "transcribing"
    /\ used' = IF Can("gateway") THEN [used EXCEPT !["gateway"] = @ + 1, !["vision"] = @ + 1]
               ELSE used
    /\ PageRead \/ PageFailed(plan)
    /\ UNCHANGED <<ctl, queries, reads, calls, triages, linkCalls, recovered, audited, lists, cur,
                   outs, good, store>>

\* One retry with the user's session: the retry is charged before the page load it needs.
AuthenticatedRetry ==
    /\ at = "blocked" /\ Can("auth") /\ Continue(<<>>)
    /\ IF Can("browser")
       THEN /\ used' = [used EXCEPT !["auth"] = @ + 1, !["browser"] = @ + 1]
            /\ \/ page' = "read" /\ ShowDate
               \/ UNCHANGED <<page, shown>>
       ELSE Count("auth") /\ UNCHANGED <<page, shown>>
    /\ UNCHANGED <<ctl, queries, reads, calls, triages, linkCalls, recovered, audited, lists, cur,
                   outs, good, store>>

StayBlocked ==
    /\ at = "blocked" /\ Continue(<<>>)
    /\ UNCHANGED <<ctl, budget, lists, cur, page, shown, outs, good, store>>

-----------------------------------------------------------------------------
(* What a read leads to                                                    *)

NewPage == page = "read" /\ FinalOf[cur] \notin finals
Corroborates == basis[cur] = "publication"
Undated == WindowOn /\ shown = "unknown"
OutOfWindow == WindowOn /\ shown = "barred" /\ ~Corroborates
KnownBody == BodyOf[cur] \in seen
Allowed(d) == ~WindowOn \/ d = "inside"

\* Every successful load takes a read slot, and the final URL counts as attempted.
ReadDone ==
    /\ at = "returned" /\ Alive
    /\ reads' = IF page = "read" THEN reads + 1 ELSE reads
    /\ attempted' = attempted \cup {FinalOf[cur]} /\ finals' = finals \cup {FinalOf[cur]}
    /\ UNCHANGED <<ctl, queries, used, calls, triages, linkCalls, recovered, audited, found, unranked, batch,
                   queue, basis, gap, support, admitted, row, usable>>

\* _finish_publication on what the page itself showed.
KeepShownDate == date' = [date EXCEPT ![cur] = shown]

\* Regression: a link whose transports are out of attempts goes to the end of the queue.
ReadFailedPutOff ==
    /\ at = "returned" /\ Alive /\ ~NewPage /\ at' = "picking"
    /\ reads' = IF page = "read" THEN reads + 1 ELSE reads
    /\ attempted' = attempted \cup {FinalOf[cur]} /\ finals' = finals \cup {FinalOf[cur]}
    /\ queue' = IF page = "dry" THEN queue \cup {cur} ELSE queue
    /\ Drop
    /\ UNCHANGED <<ctl, queries, used, calls, triages, linkCalls, recovered, audited, found, unranked, batch,
                   seen, basis, gap, support, store>>

ReadFailed ==
    /\ ReadDone /\ ~NewPage /\ Drop
    /\ at' = IF page = "dry" THEN "settling" ELSE "picking"
    /\ UNCHANGED <<seen, date>>

FilterByWindow ==
    /\ ReadDone /\ NewPage /\ OutOfWindow
    /\ KeepShownDate /\ at' = "picking" /\ Drop
    /\ UNCHANGED seen

\* The same text again: a read for corroboration looks on if the page has other evidence.
ReuseBody ==
    /\ ReadDone /\ NewPage /\ ~OutOfWindow /\ KnownBody
    /\ Corroborates \/ ~Undated
    /\ KeepShownDate /\ at' = "picking" /\ Drop
    /\ UNCHANGED seen

Analyse ==
    /\ ReadDone /\ NewPage /\ ~OutOfWindow
    /\ KnownBody => Corroborates \/ Undated
    /\ seen' = seen \cup {BodyOf[cur]}
    /\ at' = "asking"
    /\ UNCHANGED <<hand, date>>

-----------------------------------------------------------------------------
(* Model requests about one link                                           *)

\* What _source_budget leaves of the ceiling, less the answers of this call.
SourceRoom == outs < MaxPerLink - linkCalls[cur]
\* Only a directory may be followed before it is judged itself.
AfterExtraction == IF AsIndex(cur) THEN "asked" ELSE "judging"
Answered(n) == linkCalls' = [linkCalls EXCEPT ![cur] = @ + n]

\* Regression: the run's ceiling is not looked at between the models of a mode.
AskModelOfMode ==
    /\ at \in {"asking", "arbitrating"}
    /\ SourceRoom
    /\ calls' = calls + 1 /\ outs' = outs + 1
    /\ Send /\ good' \in IF Can("gateway") THEN {good, TRUE} ELSE {good}
    /\ UNCHANGED <<ctl, at, queries, reads, triages, linkCalls, recovered, audited, lists, cur, plan,
                   page, shown, store>>

\* One model of the configured mode; a refused send is an answer as well.
AskModel ==
    /\ at \in {"asking", "arbitrating"}
    /\ SourceRoom /\ calls < MaxCalls
    /\ calls' = calls + 1 /\ outs' = outs + 1
    /\ Send /\ good' \in IF Can("gateway") THEN {good, TRUE} ELSE {good}
    /\ UNCHANGED <<ctl, at, queries, reads, triages, linkCalls, recovered, audited, lists, cur, plan,
                   page, shown, store>>

\* Regression: only requests that brought a contribution are recorded.
EndExtractionOfGood ==
    /\ at = "asking" /\ at' = AfterExtraction
    /\ Answered(outs) /\ audited' = audited + (IF good THEN outs ELSE 0) /\ outs' = 0
    /\ UNCHANGED <<ctl, queries, reads, used, calls, triages, recovered, lists, cur, plan, page, shown, good,
                   store>>

\* The models of the mode are done: their requests are stored, stop or no stop.
EndExtraction ==
    /\ at = "asking" /\ at' = AfterExtraction
    /\ Answered(outs) /\ audited' = audited + outs /\ outs' = 0
    /\ UNCHANGED <<ctl, queries, reads, used, calls, triages, recovered, lists, cur, plan, page, shown, good,
                   store>>

\* Regression: the recovery forgets the answers it follows.
RecoverAnyway ==
    /\ at = "asking" /\ ~recovered /\ outs > 0 /\ ~good
    /\ calls < MaxCalls /\ Can("gateway") /\ Count("gateway")
    /\ calls' = calls + 1 /\ recovered' = TRUE /\ good' \in BOOLEAN
    /\ Answered(outs + 1) /\ audited' = audited + outs + 1 /\ outs' = 0
    /\ at' = AfterExtraction
    /\ UNCHANGED <<ctl, queries, reads, triages, lists, cur, plan, page, shown, store>>

\* _recover_json: once per run, a last request when no answer can be used.
RecoverJson ==
    /\ at = "asking" /\ ~recovered /\ outs > 0 /\ ~good
    /\ SourceRoom /\ calls < MaxCalls /\ Can("gateway") /\ Count("gateway")
    /\ calls' = calls + 1 /\ recovered' = TRUE /\ good' \in BOOLEAN
    /\ Answered(outs + 1) /\ audited' = audited + outs + 1 /\ outs' = 0
    /\ at' = AfterExtraction
    /\ UNCHANGED <<ctl, queries, reads, triages, lists, cur, plan, page, shown, store>>

Children == ChildrenOf[cur] \ attempted

\* _extend_index_queue: the links of a directory are ranked before it is judged itself.
FollowIndex ==
    /\ at = "asked" /\ Alive /\ CanFollow
    /\ \E b \in SUBSET Children :
           /\ b # {} /\ Cardinality(b) <= BatchSize
           /\ found' = found \cup b
           /\ AskRanking(b, "navigated")
    /\ UNCHANGED <<ctl, unranked, queue, attempted, finals, seen, basis, gap, support, hand, store>>

NoIndexToFollow ==
    /\ at = "asked" /\ Alive /\ at' = "judging"
    /\ ~CanFollow \/ Children = {}
    /\ UNCHANGED <<ctl, budget, lists, hand, store>>

\* An accepted navigation replaces the review of a child, also of one already queued.
ApplyNavigation ==
    /\ at = "navigated" /\ Alive /\ batch' = {} /\ at' = "judging"
    /\ \/ /\ \E chosen \in SUBSET batch : queue' = (queue \ batch) \cup chosen
          /\ basis' = [l \in Links |-> IF l \in batch THEN "index" ELSE basis[l]]
       \/ UNCHANGED <<queue, basis>>
    /\ UNCHANGED <<ctl, budget, found, unranked, attempted, finals, seen, gap, support, hand, store>>

NoContribution ==
    /\ at = "judging" /\ Alive /\ ~good
    /\ KeepShownDate /\ at' = "picking" /\ Drop
    /\ UNCHANGED <<ctl, budget, lists, admitted, row, usable>>

\* The contributions agree, or one field in conflict goes to the arbiter.
Merge ==
    /\ at = "judging" /\ Alive /\ good
    /\ at' \in {"dating", "arbitrating"}
    /\ UNCHANGED <<ctl, budget, lists, hand, store>>

EndArbitration ==
    /\ at = "arbitrating" /\ at' = "arbitrated"
    /\ Answered(outs)
    /\ UNCHANGED <<ctl, queries, reads, used, calls, triages, recovered, audited, lists, hand,
                   store>>

\* The check comes before the arbiter's requests are stored.
PersistArbitration ==
    /\ at = "arbitrated" /\ Alive /\ at' = "dating"
    /\ audited' = audited + outs /\ outs' = 0
    /\ UNCHANGED <<ctl, queries, reads, used, calls, triages, linkCalls, recovered, lists, cur, plan, page, shown,
                   good, store>>

-----------------------------------------------------------------------------
(* Publication dates and admission                                         *)

Pending == {l \in Links : gap[l] = "pending"}

\* resolve_source_publication: a date the page states can only be contradicted.
Resolved == IF shown = "unknown" THEN Dates ELSE {shown, "barred"}

\* _collect_linked_evidence: rows for pending links offered with the page.
CollectLinkedEvidence ==
    \E dated \in SUBSET (Pending \ {cur}), d \in {"inside", "barred"} :
        support' = [l \in Links |-> IF l \in dated THEN support[l] \cup {d} ELSE support[l]]

\* A document whose date stays unknown waits, stored as unverified.
DeferPublication ==
    /\ at = "dating" /\ Alive
    /\ WindowOn /\ "unknown" \in Resolved /\ gap[cur] = "none" /\ ~AsIndex(cur)
    /\ CollectLinkedEvidence
    /\ gap' = [gap EXCEPT ![cur] = "pending"]
    /\ date' = [date EXCEPT ![cur] = "awaiting"]
    /\ at' = IF Corroborates THEN "picking" ELSE "corroborating"
    /\ Drop
    /\ UNCHANGED <<ctl, budget, found, unranked, batch, queue, attempted, finals, seen, basis,
                   admitted, row, usable>>

\* Everything else is admitted or filtered; a source the merge decided to skip
\* is not deferred either.
ResolvePublication ==
    /\ at = "dating" /\ Alive
    /\ CollectLinkedEvidence
    /\ shown' \in Resolved /\ at' = "publishing"
    /\ UNCHANGED <<ctl, budget, found, unranked, batch, queue, attempted, finals, seen, basis, gap, cur,
                   plan, page, outs, good, store>>

Candidates == ((queue \cup found) \ attempted) \ Pending

\* _corroboration_triage: unread candidates are ranked again for what they may date.
CorroborationTriage ==
    /\ at = "corroborating" /\ CanFollow
    /\ \E b \in SUBSET Candidates :
           /\ b # {} /\ Cardinality(b) <= BatchSize
           /\ AskRanking(b, "corroborated")
    /\ UNCHANGED <<ctl, found, unranked, queue, attempted, finals, seen, basis, gap, support, hand,
                   store>>

NoCorroboration ==
    /\ at = "corroborating" /\ at' = "picking"
    /\ UNCHANGED <<ctl, budget, lists, hand, store>>

\* Approved links are read with or without a pending target of theirs; earlier
\* authorizations stay.
ApplyCorroboration ==
    /\ at = "corroborated" /\ Alive /\ batch' = {} /\ at' = "picking"
    /\ \/ \E approved \in SUBSET batch : \E suppliers \in SUBSET approved :
              /\ queue' = queue \cup approved
              /\ basis' = [l \in Links |-> IF l \in suppliers THEN "publication"
                                           ELSE IF l \in approved THEN "search" ELSE basis[l]]
       \/ UNCHANGED <<queue, basis>>
    /\ UNCHANGED <<ctl, budget, found, unranked, attempted, finals, seen, gap, support, hand, store>>

\* Regression: a date that stayed unknown passes the window.
PublishUnlessBarred ==
    /\ at = "publishing" /\ Alive
    /\ date' = [date EXCEPT ![cur] = shown]
    /\ IF ~WindowOn \/ shown # "barred" THEN at' = "saving" /\ UNCHANGED hand ELSE Onward /\ Drop
    /\ UNCHANGED <<ctl, budget, lists, admitted, row, usable>>

\* _finish_publication for _admit_material.
Publish ==
    /\ at = "publishing" /\ Alive
    /\ date' = [date EXCEPT ![cur] = shown]
    /\ IF Allowed(shown) THEN at' = "saving" /\ UNCHANGED hand ELSE Onward /\ Drop
    /\ UNCHANGED <<ctl, budget, lists, admitted, row, usable>>

\* Regression: no check before the records are written.
AdmitUnchecked ==
    /\ at = "saving" /\ at' = "writing"
    /\ UNCHANGED <<ctl, budget, lists, hand, store>>

\* The last check before the records are written.
Admit ==
    /\ at = "saving" /\ Alive /\ at' = "writing"
    /\ UNCHANGED <<ctl, budget, lists, hand, store>>

\* The decision of the merge is to skip the source: only coverage is stored.
SkipSource ==
    /\ at = "saving" /\ Alive /\ Onward /\ Drop
    /\ UNCHANGED <<ctl, budget, lists, store>>

SaveMergedAnalysis ==
    /\ at = "writing" /\ Onward /\ Drop
    /\ admitted' = admitted \cup {cur}
    /\ UNCHANGED <<ctl, budget, lists, date, row, usable>>

\* complete_linked_publication
Linked(rows) ==
    CASE rows = {} -> "unknown"
      [] rows = {"inside"} -> "inside"
      [] OTHER -> "barred"

\* _settle_pending, one deferred material at a time.
Settle ==
    /\ at = "settling" /\ Alive /\ at' = "publishing"
    /\ \E l \in Pending :
           /\ cur' = l /\ shown' = Linked(support[l])
           /\ gap' = [gap EXCEPT ![l] = "settled"]
    /\ UNCHANGED <<ctl, budget, found, unranked, batch, queue, attempted, finals, seen, basis, support,
                   plan, page, outs, good, store>>

\* Regression: the run ends with dates that nothing settled.
EndOfWorkUnsettled ==
    /\ at = "settling" /\ Alive /\ at' = "closing" /\ Forget
    /\ UNCHANGED <<ctl, reads, calls, triages, audited, found, hand, store>>

EndOfWork ==
    /\ at = "settling" /\ Alive /\ Pending = {} /\ at' = "closing" /\ Forget
    /\ UNCHANGED <<ctl, reads, calls, triages, audited, found, hand, store>>

-----------------------------------------------------------------------------
SearchAndTriage == Query \/ EndSearch \/ BatchTriage \/ ApplyRanking \/ EndTriage \/ BuildReadQueue
Read == Pick \/ StopReading \/ SkipTransport \/ Load \/ Transcribe
        \/ AuthenticatedRetry \/ StayBlocked
        \/ ReadFailed \/ FilterByWindow \/ ReuseBody \/ Analyse
Extract == AskModel \/ EndExtraction \/ RecoverJson \/ FollowIndex \/ NoIndexToFollow
           \/ ApplyNavigation \/ NoContribution \/ Merge \/ EndArbitration \/ PersistArbitration
Deliver == DeferPublication \/ ResolvePublication \/ CorroborationTriage \/ NoCorroboration
           \/ ApplyCorroboration \/ Publish \/ Admit \/ SkipSource \/ SaveMergedAnalysis
           \/ Settle \/ EndOfWork
Finish == Unwind \/ Close \/ FinalStatusCheck \/ FinishSearchRun
Run == SearchAndTriage \/ Read \/ Extract \/ Deliver \/ Finish

Next == Run \/ Stop \/ Raise \/ Die

Spec == Init /\ [][Next]_vars
\* The run's thread does not stop: every page load, request and wait has a timeout.
FairSpec == Spec /\ WF_vars(Run)

-----------------------------------------------------------------------------
(* Properties                                                              *)

\* With a publication window, a source has structured records only if the date stored
\* for it is a known one inside the window, however the date was found and wherever
\* the run was stopped, killed or failed.
AdmittedOnlyInWindow == WindowOn => \A l \in admitted : date[l] = "inside"

\* A run that is reported as completed leaves no source waiting for its date.
CompletedRunIsSettled ==
    row = "completed" => \A l \in Links : date[l] # "awaiting"

\* A stop that comes before the browser is closed keeps the run from being completed.
StoppedRunIsNotCompleted ==
    row = "completed" => stopAt \in {None, "reporting"}

\* While the answer of a ranking is awaited, the run has a call left to extract from
\* what it will choose: triage, navigation and corroboration never spend the last one.
ExtractionCallReserved == batch # {} => calls < MaxCalls

\* Extraction, recovery and arbitration of one link share one ceiling of calls.
PerLinkCeiling ==
    /\ \A l \in Links : linkCalls[l] <= MaxPerLink
    /\ at \in {"asking", "arbitrating"} => linkCalls[cur] + outs <= MaxPerLink

\* A run that completes has an entry for every call it counted.
CompletedRunIsAudited == row = "completed" => audited = calls

\* No records after a stop, but for those whose last check was already passed.
StopEndsAdmission == [][admitted' # admitted => Alive \/ stopAt = "writing"]_vars

\* A run always comes to an end.
RunEnds == <>(at \in {"ended", "dead"})

=============================================================================
