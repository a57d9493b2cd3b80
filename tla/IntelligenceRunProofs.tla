------------------------ MODULE IntelligenceRunProofs ------------------------
(***************************************************************************)
(* What one collection run guarantees for any links, bodies, redirects,    *)
(* directories and limits.                                                 *)
(***************************************************************************)
EXTENDS IntelligenceRun, TLAPS

USE DEF ctl, budget, lists, hand, store

LEMMA Limits ==
    /\ MaxQueries \in Nat /\ MaxHits \in Nat /\ MaxReads \in Nat /\ MaxTriages \in Nat
    /\ MaxPerLink \in Nat /\ MaxCalls \in Nat /\ BatchSize \in Nat
    /\ Limit \in [Counters -> Nat] /\ None \notin Links
  BY RunAssumption

-----------------------------------------------------------------------------
(* Type correctness                                                        *)

\* RunTypeOK by kind of variable.
StepType ==
    /\ stopAt \in {None, "earlier", "writing", "reporting"}
    /\ at \in Steps /\ exec \in Statuses \ {"running"} /\ row \in Statuses
CountType ==
    /\ queries \in 0..MaxQueries /\ reads \in 0..MaxReads
    /\ calls \in 0..MaxCalls /\ triages \in 0..MaxTriages
    /\ audited \in Nat /\ outs \in Nat
UsedType == used \in [Counters -> Nat] /\ \A c \in Counters : used[c] <= Limit[c]
CallType == linkCalls \in [Links -> Nat]
FlagType == recovered \in BOOLEAN /\ good \in BOOLEAN /\ usable \in BOOLEAN
ListType ==
    /\ found \subseteq Links /\ unranked \subseteq Links /\ batch \subseteq Links
    /\ queue \subseteq Links /\ attempted \subseteq Links /\ finals \subseteq Links
    /\ admitted \subseteq Links /\ seen \subseteq Bodies
MapType ==
    /\ basis \in [Links -> {"none", "search", "index", "publication"}]
    /\ gap \in [Links -> {"none", "pending", "settled"}]
    /\ support \in [Links -> SUBSET {"inside", "barred"}]
    /\ date \in [Links -> Dates \cup {"none", "awaiting"}]
PageType ==
    /\ cur \in Links \cup {None} /\ plan \in Plans \cup {<<>>}
    /\ page \in {"none", "read", "failed", "dry"} /\ shown \in Dates

\* The steps at which a link is in hand, and those that are its read.
Hand == {"fetching", "blocked", "transcribing", "returned", "asking", "asked", "navigated",
         "judging", "arbitrating", "arbitrated", "dating", "publishing", "saving", "writing"}
Reading == {"fetching", "blocked", "transcribing", "returned"}

\* What the types rest on: a link is in hand exactly inside the loop's body, a load has
\* a transport, and room for its read slot and its transcription was seen.
HandInv ==
    /\ at \in Hand <=> cur \in Links
    /\ at = "fetching" => plan \in Plans
    /\ at \in Reading => reads < MaxReads
    /\ at = "transcribing" => used["vision"] < Limit["vision"]

TypeInv ==
    /\ StepType /\ CountType /\ UsedType /\ CallType
    /\ FlagType /\ ListType /\ MapType /\ PageType
    /\ HandInv

LEMMA TypeParts == TypeInv => RunTypeOK
  BY DEF TypeInv, RunTypeOK, StepType, CountType, UsedType, CallType, FlagType, ListType, MapType,
         PageType

LEMMA InitTypes == Init => TypeInv
<1> SUFFICES ASSUME Init PROVE TypeInv  OBVIOUS
<1>1. StepType /\ CountType /\ PageType
  BY Limits DEF Init, StepType, CountType, PageType, Steps, Checked, Statuses, Dates
<1>2. UsedType
  BY Limits DEF Init, UsedType, Counters
<1>3. CallType /\ ListType /\ MapType
  BY DEF Init, CallType, ListType, MapType
<1>4. FlagType
  BY DEF Init, FlagType
<1>5. HandInv
  BY Limits DEF Init, HandInv, Hand, Reading
<1> QED  BY <1>1, <1>2, <1>3, <1>4, <1>5 DEF TypeInv

LEMMA Transports ==
    ASSUME plan \in Plans
    PROVE  plan # <<>> /\ plan[1] \in {"http", "browser"} /\ Rest \in Plans \cup {<<>>}
  BY DEF Plans, Rest

\* A reservation keeps its counter within its limit.
LEMMA CountTypes ==
    ASSUME UsedType, NEW c \in Counters, Can(c), Count(c)
    PROVE  UsedType'
<1>1. /\ used \in [Counters -> Nat] /\ \A d \in Counters : used[d] <= Limit[d]
      /\ used[c] < Limit[c] /\ used' = [used EXCEPT ![c] = used[c] + 1]
  BY DEF UsedType, Can, Count
<1>2. used' \in [Counters -> Nat]
  BY <1>1
<1>3. ASSUME NEW d \in Counters PROVE used'[d] <= Limit[d]
  <2>1. used[d] \in Nat /\ Limit[d] \in Nat /\ used[c] \in Nat
    BY <1>1, Limits
  <2>2. CASE d = c
    BY <2>1, <2>2, <1>1
  <2>3. CASE d # c
    BY <2>3, <1>1
  <2> QED  BY <2>2, <2>3
<1> QED  BY <1>2, <1>3 DEF UsedType

LEMMA SendTypes ==
    ASSUME UsedType, Send
    PROVE  UsedType'
  BY CountTypes DEF Send, UsedType, Counters

LEMMA NextTypes == TypeInv /\ [Next]_vars => TypeInv'
<1> SUFFICES ASSUME TypeInv, [Next]_vars PROVE TypeInv'
  OBVIOUS
<1> USE Limits, Transports DEF HandInv, Hand, Reading, Steps, Checked, Statuses, Dates, Counters
<1>0. /\ StepType /\ CountType /\ UsedType /\ CallType
      /\ FlagType /\ ListType /\ MapType /\ PageType /\ HandInv
  BY DEF TypeInv
<1>1. CASE Query
  BY <1>1, <1>0 DEF TypeInv, StepType, CountType, UsedType, CallType, FlagType, ListType,
     MapType, PageType, Query, Alive
<1>2. CASE EndSearch
  BY <1>2, <1>0 DEF TypeInv, StepType, CountType, UsedType, CallType, FlagType, ListType,
     MapType, PageType, EndSearch, Alive
<1>3. CASE BatchTriage
  <2>1. UsedType'
    BY <1>3, <1>0, SendTypes DEF UsedType, PageType, BatchTriage, AskRanking
  <2>2. StepType' /\ CountType' /\ PageType' /\ HandInv'
    BY <1>3, <1>0 DEF StepType, BatchTriage, AskRanking, CountType, CanTriage, PageType,
       UsedType, Send, Count
  <2>3. CallType' /\ ListType' /\ MapType'
    BY <1>3, <1>0 DEF CallType, CountType, BatchTriage, AskRanking, ListType, PageType, MapType
  <2>4. FlagType'
    BY <1>3, <1>0 DEF FlagType, BatchTriage, AskRanking
  <2> QED  BY <2>1, <2>2, <2>3, <2>4 DEF TypeInv
<1>4. CASE ApplyRanking
  <2>1. StepType' /\ CountType' /\ PageType' /\ HandInv'
    BY <1>4, <1>0 DEF StepType, ApplyRanking, CountType, PageType, UsedType
  <2>2. UsedType' /\ CallType' /\ ListType' /\ MapType'
    BY <1>4, <1>0 DEF UsedType, ApplyRanking, CallType, CountType, ListType, PageType, MapType
  <2>3. FlagType'
    BY <1>4, <1>0 DEF FlagType, ApplyRanking
  <2> QED  BY <2>1, <2>2, <2>3 DEF TypeInv
<1>5. CASE EndTriage
  BY <1>5, <1>0 DEF TypeInv, StepType, CountType, UsedType, CallType, FlagType, ListType,
     MapType, PageType, EndTriage, Alive, CanTriage
<1>6. CASE BuildReadQueue
  BY <1>6, <1>0 DEF TypeInv, StepType, CountType, UsedType, CallType, FlagType, ListType,
     MapType, PageType, BuildReadQueue, Alive, RuleChoices
<1>7. CASE Pick
  <2>1. StepType' /\ CountType' /\ PageType' /\ HandInv'
    BY <1>7, <1>0 DEF StepType, Pick, CountType, PageType, Readable, ListType, UsedType
  <2>2. UsedType' /\ CallType' /\ ListType' /\ MapType'
    BY <1>7, <1>0 DEF UsedType, Pick, CallType, CountType, ListType, PageType, Readable, MapType
  <2>3. FlagType'
    BY <1>7, <1>0 DEF FlagType, Pick
  <2> QED  BY <2>1, <2>2, <2>3 DEF TypeInv
<1>8. CASE StopReading
  <2>1. StepType' /\ CountType' /\ PageType' /\ HandInv'
    BY <1>8, <1>0 DEF StepType, StopReading, CountType, ForgetReading, PageType, UsedType
  <2>2. UsedType' /\ CallType' /\ ListType' /\ MapType'
    BY <1>8, <1>0 DEF UsedType, StopReading, ForgetReading, CallType, CountType, ListType,
       PageType, MapType
  <2>3. FlagType'
    BY <1>8, <1>0 DEF FlagType, StopReading, ForgetReading
  <2> QED  BY <2>1, <2>2, <2>3 DEF TypeInv
<1>9. CASE SkipTransport
  <2>1. StepType' /\ CountType' /\ PageType' /\ HandInv'
    BY <1>9, <1>0 DEF StepType, SkipTransport, Continue, CountType, PageType, UsedType
  <2>2. UsedType' /\ CallType' /\ ListType' /\ MapType'
    BY <1>9, <1>0 DEF UsedType, SkipTransport, CallType, CountType, ListType, PageType, MapType
  <2>3. FlagType'
    BY <1>9, <1>0 DEF FlagType, SkipTransport
  <2> QED  BY <2>1, <2>2, <2>3 DEF TypeInv
<1>10. CASE Load
  <2>1. UsedType'
    BY <1>10, <1>0, CountTypes DEF UsedType, PageType, Load
  <2>2. StepType' /\ CountType' /\ PageType' /\ HandInv'
    BY <1>10, <1>0 DEF StepType, Load, PageRead, PageFailed, Challenged, ScanFound, Continue,
       CountType, PageType, ShowDate, UsedType, Count
  <2>3. CallType' /\ ListType' /\ MapType'
    BY <1>10, <1>0 DEF CallType, CountType, Load, ListType, PageType, MapType
  <2>4. FlagType'
    BY <1>10, <1>0 DEF FlagType, Load
  <2> QED  BY <2>1, <2>2, <2>3, <2>4 DEF TypeInv
<1>11. CASE Transcribe
  <2>1. UsedType'
    BY <1>11, <1>0 DEF UsedType, PageType, Transcribe, Can
  <2>2. StepType' /\ CountType' /\ PageType' /\ HandInv'
    BY <1>11, <1>0 DEF StepType, Transcribe, PageRead, PageFailed, Continue, CountType, PageType,
       ShowDate, UsedType
  <2>3. CallType' /\ ListType' /\ MapType'
    BY <1>11, <1>0 DEF CallType, CountType, Transcribe, ListType, PageType, MapType
  <2>4. FlagType'
    BY <1>11, <1>0 DEF FlagType, Transcribe
  <2> QED  BY <2>1, <2>2, <2>3, <2>4 DEF TypeInv
<1>12. CASE AuthenticatedRetry
  <2>1. UsedType'
    BY <1>12, <1>0, CountTypes DEF UsedType, PageType, AuthenticatedRetry, Can
  <2>2. StepType' /\ CountType' /\ PageType' /\ HandInv'
    BY <1>12, <1>0 DEF StepType, AuthenticatedRetry, Continue, CountType, PageType, ShowDate,
       UsedType, Count
  <2>3. CallType' /\ ListType' /\ MapType'
    BY <1>12, <1>0 DEF CallType, CountType, AuthenticatedRetry, ListType, PageType, MapType
  <2>4. FlagType'
    BY <1>12, <1>0 DEF FlagType, AuthenticatedRetry
  <2> QED  BY <2>1, <2>2, <2>3, <2>4 DEF TypeInv
<1>13. CASE StayBlocked
  BY <1>13, <1>0 DEF TypeInv, StepType, CountType, UsedType, CallType, FlagType, ListType,
     MapType, PageType, StayBlocked, Continue
<1>14. CASE ReadFailed
  <2>1. StepType' /\ CountType' /\ PageType' /\ HandInv'
    BY <1>14, <1>0 DEF StepType, ReadFailed, ReadDone, CountType, Drop, PageType, UsedType
  <2>2. UsedType' /\ CallType' /\ ListType' /\ MapType'
    BY <1>14, <1>0, RunAssumption DEF UsedType, ReadFailed, ReadDone, CallType, CountType,
       ListType, PageType, MapType
  <2>3. FlagType'
    BY <1>14, <1>0 DEF FlagType, ReadFailed, ReadDone, Drop
  <2> QED  BY <2>1, <2>2, <2>3 DEF TypeInv
<1>15. CASE FilterByWindow
  <2>1. StepType' /\ CountType' /\ PageType' /\ HandInv'
    BY <1>15, <1>0 DEF StepType, FilterByWindow, ReadDone, CountType, Drop, PageType, UsedType
  <2>2. UsedType' /\ CallType' /\ ListType' /\ MapType'
    BY <1>15, <1>0, RunAssumption DEF UsedType, FilterByWindow, ReadDone, CallType, CountType,
       ListType, PageType, MapType, KeepShownDate
  <2>3. FlagType'
    BY <1>15, <1>0 DEF FlagType, FilterByWindow, ReadDone, Drop
  <2> QED  BY <2>1, <2>2, <2>3 DEF TypeInv
<1>16. CASE ReuseBody
  <2>1. StepType' /\ CountType' /\ PageType' /\ HandInv'
    BY <1>16, <1>0 DEF StepType, ReuseBody, ReadDone, CountType, Drop, PageType, UsedType
  <2>2. UsedType' /\ CallType' /\ ListType' /\ MapType'
    BY <1>16, <1>0, RunAssumption DEF UsedType, ReuseBody, ReadDone, CallType, CountType,
       ListType, PageType, MapType, KeepShownDate
  <2>3. FlagType'
    BY <1>16, <1>0 DEF FlagType, ReuseBody, ReadDone, Drop
  <2> QED  BY <2>1, <2>2, <2>3 DEF TypeInv
<1>17. CASE Analyse
  <2>1. StepType' /\ CountType' /\ PageType' /\ HandInv'
    BY <1>17, <1>0 DEF StepType, Analyse, ReadDone, CountType, PageType, UsedType
  <2>2. UsedType' /\ CallType' /\ ListType' /\ MapType'
    BY <1>17, <1>0, RunAssumption DEF UsedType, Analyse, ReadDone, CallType, CountType, ListType,
       PageType, MapType
  <2>3. FlagType'
    BY <1>17, <1>0 DEF FlagType, Analyse, ReadDone
  <2> QED  BY <2>1, <2>2, <2>3 DEF TypeInv
<1>18. CASE AskModel
  <2>1. UsedType'
    BY <1>18, <1>0, SendTypes DEF UsedType, PageType, AskModel
  <2>2. StepType' /\ CountType' /\ PageType' /\ HandInv'
    BY <1>18, <1>0 DEF StepType, AskModel, CountType, PageType, UsedType, Send, Count
  <2>3. CallType' /\ ListType' /\ MapType'
    BY <1>18, <1>0 DEF CallType, CountType, AskModel, ListType, PageType, MapType
  <2>4. FlagType'
    BY <1>18, <1>0 DEF FlagType, AskModel
  <2> QED  BY <2>1, <2>2, <2>3, <2>4 DEF TypeInv
<1>19. CASE EndExtraction
  BY <1>19, <1>0 DEF TypeInv, StepType, CountType, UsedType, CallType, FlagType, ListType,
     MapType, PageType, EndExtraction, AfterExtraction, Answered, AsIndex
<1>20. CASE RecoverJson
  <2>1. UsedType'
    BY <1>20, <1>0, CountTypes DEF UsedType, PageType, RecoverJson
  <2>2. CallType'
    BY <1>20, <1>0 DEF CallType, PageType, CountType, RecoverJson, Answered
  <2>3. StepType' /\ CountType' /\ PageType' /\ HandInv'
    BY <1>20, <1>0 DEF StepType, RecoverJson, AfterExtraction, CountType, PageType, UsedType,
       Count
  <2>4. ListType' /\ MapType'
    BY <1>20, <1>0 DEF ListType, PageType, RecoverJson, MapType
  <2>5. FlagType'
    BY <1>20, <1>0 DEF FlagType, RecoverJson
  <2> QED  BY <2>1, <2>2, <2>3, <2>4, <2>5 DEF TypeInv
<1>21. CASE FollowIndex
  <2>1. UsedType'
    BY <1>21, <1>0, SendTypes DEF UsedType, PageType, FollowIndex, AskRanking
  <2>2. StepType' /\ CountType' /\ PageType' /\ HandInv'
    BY <1>21, <1>0 DEF StepType, FollowIndex, AskRanking, CountType, CanFollow, CanTriage,
       PageType, UsedType, Send, Count
  <2>3. CallType' /\ ListType' /\ MapType'
    BY <1>21, <1>0, RunAssumption DEF CallType, CountType, FollowIndex, AskRanking, ListType,
       PageType, Children, MapType
  <2>4. FlagType'
    BY <1>21, <1>0 DEF FlagType, FollowIndex, AskRanking
  <2> QED  BY <2>1, <2>2, <2>3, <2>4 DEF TypeInv
<1>22. CASE NoIndexToFollow
  <2>1. StepType' /\ CountType' /\ PageType' /\ HandInv'
    BY <1>22, <1>0 DEF StepType, NoIndexToFollow, CountType, PageType, UsedType
  <2>2. UsedType' /\ CallType' /\ ListType' /\ MapType'
    BY <1>22, <1>0 DEF UsedType, NoIndexToFollow, CallType, CountType, ListType, PageType,
       MapType
  <2>3. FlagType'
    BY <1>22, <1>0 DEF FlagType, NoIndexToFollow
  <2> QED  BY <2>1, <2>2, <2>3 DEF TypeInv
<1>23. CASE ApplyNavigation
  BY <1>23, <1>0 DEF TypeInv, StepType, CountType, UsedType, CallType, FlagType, ListType,
     MapType, PageType, ApplyNavigation, Alive
<1>24. CASE NoContribution
  BY <1>24, <1>0 DEF TypeInv, StepType, CountType, UsedType, CallType, FlagType, ListType,
     MapType, PageType, NoContribution, Alive, KeepShownDate, Drop
<1>25. CASE Merge
  BY <1>25, <1>0 DEF TypeInv, StepType, CountType, UsedType, CallType, FlagType, ListType,
     MapType, PageType, Merge, Alive
<1>26. CASE EndArbitration
  BY <1>26, <1>0 DEF TypeInv, StepType, CountType, UsedType, CallType, FlagType, ListType,
     MapType, PageType, EndArbitration, Answered
<1>27. CASE PersistArbitration
  BY <1>27, <1>0 DEF TypeInv, StepType, CountType, UsedType, CallType, FlagType, ListType,
     MapType, PageType, PersistArbitration, Alive
<1>28. CASE DeferPublication
  <2>1. MapType'
    BY <1>28, <1>0 DEF MapType, PageType, DeferPublication, CollectLinkedEvidence
  <2>2. StepType' /\ CountType' /\ PageType' /\ HandInv'
    BY <1>28, <1>0 DEF StepType, DeferPublication, CountType, Drop, PageType, UsedType
  <2>3. UsedType' /\ CallType' /\ ListType'
    BY <1>28, <1>0 DEF UsedType, DeferPublication, CallType, CountType, ListType, PageType
  <2>4. FlagType'
    BY <1>28, <1>0 DEF FlagType, DeferPublication, Drop
  <2> QED  BY <2>1, <2>2, <2>3, <2>4 DEF TypeInv
<1>29. CASE ResolvePublication
  BY <1>29, <1>0 DEF TypeInv, StepType, CountType, UsedType, CallType, FlagType, ListType,
     MapType, PageType, ResolvePublication, Alive, CollectLinkedEvidence, Resolved, Pending
<1>30. CASE CorroborationTriage
  <2>1. UsedType'
    BY <1>30, <1>0, SendTypes DEF UsedType, PageType, CorroborationTriage, AskRanking
  <2>2. StepType' /\ CountType' /\ PageType' /\ HandInv'
    BY <1>30, <1>0 DEF StepType, CorroborationTriage, AskRanking, CountType, CanFollow,
       CanTriage, PageType, UsedType, Send, Count
  <2>3. CallType' /\ ListType' /\ MapType'
    BY <1>30, <1>0 DEF CallType, CountType, CorroborationTriage, AskRanking, ListType, PageType,
       Candidates, MapType
  <2>4. FlagType'
    BY <1>30, <1>0 DEF FlagType, CorroborationTriage, AskRanking
  <2> QED  BY <2>1, <2>2, <2>3, <2>4 DEF TypeInv
<1>31. CASE NoCorroboration
  BY <1>31, <1>0 DEF TypeInv, StepType, CountType, UsedType, CallType, FlagType, ListType,
     MapType, PageType, NoCorroboration
<1>32. CASE ApplyCorroboration
  BY <1>32, <1>0 DEF TypeInv, StepType, CountType, UsedType, CallType, FlagType, ListType,
     MapType, PageType, ApplyCorroboration, Alive
<1>33. CASE Publish
  <2>1. StepType' /\ CountType' /\ PageType' /\ HandInv'
    BY <1>33, <1>0 DEF StepType, Publish, Onward, CountType, Drop, PageType, UsedType
  <2>2. UsedType' /\ CallType' /\ ListType' /\ MapType'
    BY <1>33, <1>0 DEF UsedType, Publish, CallType, CountType, ListType, PageType, MapType
  <2>3. FlagType'
    BY <1>33, <1>0 DEF FlagType, Publish, Drop
  <2> QED  BY <2>1, <2>2, <2>3 DEF TypeInv
<1>34. CASE Admit
  BY <1>34, <1>0 DEF TypeInv, StepType, CountType, UsedType, CallType, FlagType, ListType,
     MapType, PageType, Admit, Alive
<1>35. CASE SkipSource
  BY <1>35, <1>0 DEF TypeInv, StepType, CountType, UsedType, CallType, FlagType, ListType,
     MapType, PageType, SkipSource, Alive, Onward, Drop
<1>36. CASE SaveMergedAnalysis
  <2>1. StepType' /\ CountType' /\ PageType' /\ HandInv'
    BY <1>36, <1>0 DEF StepType, SaveMergedAnalysis, Onward, CountType, Drop, PageType, UsedType
  <2>2. UsedType' /\ CallType' /\ ListType' /\ MapType'
    BY <1>36, <1>0 DEF UsedType, SaveMergedAnalysis, CallType, CountType, ListType, PageType,
       MapType
  <2>3. FlagType'
    BY <1>36, <1>0 DEF FlagType, SaveMergedAnalysis, Drop
  <2> QED  BY <2>1, <2>2, <2>3 DEF TypeInv
<1>37. CASE Settle
  <2>1. StepType' /\ CountType' /\ PageType' /\ HandInv'
    BY <1>37, <1>0 DEF StepType, Settle, CountType, PageType, Pending, Linked, UsedType
  <2>2. UsedType' /\ CallType' /\ ListType' /\ MapType'
    BY <1>37, <1>0 DEF UsedType, Settle, CallType, CountType, ListType, PageType, MapType
  <2>3. FlagType'
    BY <1>37, <1>0 DEF FlagType, Settle
  <2> QED  BY <2>1, <2>2, <2>3 DEF TypeInv
<1>38. CASE EndOfWork
  <2>1. StepType' /\ CountType' /\ PageType' /\ HandInv'
    BY <1>38, <1>0 DEF StepType, EndOfWork, CountType, Forget, ForgetReading, PageType, UsedType
  <2>2. UsedType' /\ CallType' /\ ListType' /\ MapType'
    BY <1>38, <1>0 DEF UsedType, EndOfWork, Forget, ForgetReading, CallType, CountType, ListType,
       PageType, MapType
  <2>3. FlagType'
    BY <1>38, <1>0 DEF FlagType, EndOfWork, Forget, ForgetReading
  <2> QED  BY <2>1, <2>2, <2>3 DEF TypeInv
<1>39. CASE Unwind
  <2>1. StepType' /\ CountType' /\ PageType' /\ HandInv'
    BY <1>39, <1>0 DEF StepType, Unwind, Stopped, CountType, Drop, Forget, ForgetReading,
       PageType, UsedType
  <2>2. UsedType' /\ CallType' /\ ListType' /\ MapType'
    BY <1>39, <1>0 DEF UsedType, Unwind, Forget, ForgetReading, CallType, CountType, ListType,
       PageType, MapType
  <2>3. FlagType'
    BY <1>39, <1>0 DEF FlagType, Unwind, Drop, Forget, ForgetReading
  <2> QED  BY <2>1, <2>2, <2>3 DEF TypeInv
<1>40. CASE Close
  BY <1>40, <1>0 DEF TypeInv, StepType, CountType, UsedType, CallType, FlagType, ListType,
     MapType, PageType, Close
<1>41. CASE FinalStatusCheck
  BY <1>41, <1>0 DEF TypeInv, StepType, CountType, UsedType, CallType, FlagType, ListType,
     MapType, PageType, FinalStatusCheck, Alive, Stopped, Usable
<1>42. CASE FinishSearchRun
  BY <1>42, <1>0 DEF TypeInv, StepType, CountType, UsedType, CallType, FlagType, ListType,
     MapType, PageType, FinishSearchRun
<1>43. CASE Stop
  BY <1>43, <1>0 DEF TypeInv, StepType, CountType, UsedType, CallType, FlagType, ListType,
     MapType, PageType, Stop, Alive
<1>44. CASE Raise
  <2>1. StepType' /\ CountType' /\ PageType' /\ HandInv'
    BY <1>44, <1>0 DEF StepType, Raise, CountType, ForgetAll, Drop, Forget, ForgetReading,
       PageType, UsedType
  <2>2. UsedType' /\ CallType' /\ ListType' /\ MapType'
    BY <1>44, <1>0 DEF UsedType, Raise, ForgetAll, Forget, ForgetReading, CallType, CountType,
       ListType, PageType, MapType
  <2>3. FlagType'
    BY <1>44, <1>0 DEF FlagType, Raise, ForgetAll, Drop, Forget, ForgetReading
  <2> QED  BY <2>1, <2>2, <2>3 DEF TypeInv
<1>45. CASE Die
  <2>1. StepType' /\ CountType' /\ PageType' /\ HandInv'
    BY <1>45, <1>0 DEF StepType, Die, CountType, ForgetAll, Drop, Forget, ForgetReading,
       PageType, UsedType
  <2>2. UsedType' /\ CallType' /\ ListType' /\ MapType'
    BY <1>45, <1>0 DEF UsedType, Die, ForgetAll, Forget, ForgetReading, CallType, CountType,
       ListType, PageType, MapType
  <2>3. FlagType'
    BY <1>45, <1>0 DEF FlagType, Die, ForgetAll, Drop, Forget, ForgetReading
  <2> QED  BY <2>1, <2>2, <2>3 DEF TypeInv
<1>46. CASE UNCHANGED vars
  BY <1>46, <1>0 DEF TypeInv, StepType, CountType, UsedType, CallType, FlagType, ListType,
     MapType, PageType, vars
<1> QED
  BY <1>1, <1>2, <1>3, <1>4, <1>5, <1>6, <1>7, <1>8, <1>9, <1>10, <1>11, <1>12, <1>13, <1>14,
     <1>15, <1>16, <1>17, <1>18, <1>19, <1>20, <1>21, <1>22, <1>23, <1>24, <1>25, <1>26, <1>27,
     <1>28, <1>29, <1>30, <1>31, <1>32, <1>33, <1>34, <1>35, <1>36, <1>37, <1>38, <1>39, <1>40,
     <1>41, <1>42, <1>43, <1>44, <1>45, <1>46 DEF Next, Run, SearchAndTriage, Read, Extract,
     Deliver, Finish

\* Every variable keeps its domain and no counter of the run passes its limit, whatever
\* the pages, the models and the surroundings do.
THEOREM RunTypes == Spec => []RunTypeOK
<1>1. Spec => []TypeInv
  BY InitTypes, NextTypes, PTL DEF Spec
<1> QED  BY <1>1, TypeParts, PTL

-----------------------------------------------------------------------------
(* Admission by the publication window                                     *)

Searching == {"searching", "triaging", "ranked", "queueing"}
Ranking == {"ranked", "navigated", "corroborated"}

\* A link that was taken from the queue: it is read at most once, so no later read or
\* verdict can replace the date it was admitted with.
Picked(l) == l \in admitted \/ l = cur \/ gap[l] # "none"

\* The loop that still reads: every link picked so far is in attempted.
InLoop == \/ at \in {"picking", "corroborating", "corroborated"}
          \/ at \in Hand /\ gap[cur] # "settled"

PickedOnce ==
    /\ at \in Searching => \A l \in Links : ~Picked(l)
    /\ \A l \in Links : Picked(l) => l \notin queue \cup batch \cup unranked
    /\ InLoop => \A l \in Links : Picked(l) => l \in attempted
    /\ \A l \in Links : l = cur \/ gap[l] = "pending" => l \notin admitted
    /\ at \in Hand =>
         gap[cur] = "none" \/ (gap[cur] = "settled" /\ at \in {"publishing", "saving", "writing"})
    /\ at \notin Searching => unranked = {}
    /\ at \notin Ranking => batch = {}

\* The date is settled before the last check, and the check does not change it.
WindowInv ==
    /\ AdmittedOnlyInWindow
    /\ at \in {"saving", "writing"} => (WindowOn => date[cur] = "inside")

LEMMA NextPicked == TypeInv /\ PickedOnce /\ [Next]_vars => PickedOnce'
<1> SUFFICES ASSUME TypeInv, PickedOnce, [Next]_vars PROVE PickedOnce'
  OBVIOUS
<1>0. /\ HandInv /\ cur \in Links \cup {None}
      /\ gap \in [Links -> {"none", "pending", "settled"}]
      /\ queue \subseteq Links /\ batch \subseteq Links /\ admitted \subseteq Links
  BY DEF TypeInv, StepType, CountType, UsedType, CallType, ListType, MapType, PageType
<1> USE <1>0, Limits DEF HandInv, Hand, Searching, Ranking
<1>1. CASE Query
  BY <1>1 DEF PickedOnce, Picked, InLoop, Query
<1>2. CASE EndSearch
  BY <1>2 DEF PickedOnce, Picked, InLoop, EndSearch
<1>3. CASE BatchTriage
  BY <1>3 DEF PickedOnce, Picked, InLoop, BatchTriage, AskRanking
<1>4. CASE ApplyRanking
  BY <1>4 DEF PickedOnce, Picked, InLoop, ApplyRanking
<1>5. CASE EndTriage
  BY <1>5 DEF PickedOnce, Picked, InLoop, EndTriage
<1>6. CASE BuildReadQueue
  BY <1>6 DEF PickedOnce, Picked, InLoop, BuildReadQueue
<1>7. CASE Pick
  <2>1. PICK l \in Readable : cur' = l /\ queue' = queue \ {l} /\ attempted' = attempted \cup {l}
    BY <1>7 DEF Pick
  <2>2. /\ at = "picking" /\ at' = "fetching"
        /\ UNCHANGED <<batch, unranked, gap, admitted>>
    BY <1>7 DEF Pick
  <2>3. l \in queue /\ l \in Links /\ ~Picked(l)
    BY <2>1 DEF Readable, PickedOnce
  <2>4. \A x \in Links : Picked(x)' => Picked(x) \/ x = l
    BY <2>1, <2>2 DEF Picked
  <2>5. batch = {} /\ unranked = {} /\ gap[l] = "none" /\ l \notin admitted
    BY <2>2, <2>3 DEF PickedOnce, Picked
  <2>6. \A x \in Links : Picked(x)' => x \notin (queue \cup batch \cup unranked)' /\ x \in attempted'
    BY <2>1, <2>2, <2>3, <2>4, <2>5 DEF PickedOnce, InLoop
  <2>7. \A x \in Links : (x = cur \/ gap[x] = "pending")' => x \notin admitted'
    BY <2>1, <2>2, <2>5 DEF PickedOnce
  <2>8. at' = "fetching" /\ (gap[cur] = "none")' /\ (unranked = {} /\ batch = {})'
    BY <2>1, <2>2, <2>5
  <2> QED  BY <2>6, <2>7, <2>8 DEF PickedOnce
<1>8. CASE StopReading
  BY <1>8 DEF PickedOnce, Picked, InLoop, StopReading, ForgetReading
<1>9. CASE SkipTransport
  BY <1>9 DEF PickedOnce, Picked, InLoop, SkipTransport, Continue
<1>10. CASE Load
  BY <1>10 DEF PickedOnce, Picked, InLoop, Load, PageRead, PageFailed, Challenged, ScanFound,
     Continue
<1>11. CASE Transcribe
  BY <1>11 DEF PickedOnce, Picked, InLoop, Transcribe, PageRead, PageFailed, Continue
<1>12. CASE AuthenticatedRetry
  BY <1>12 DEF PickedOnce, Picked, InLoop, AuthenticatedRetry, Continue
<1>13. CASE StayBlocked
  BY <1>13 DEF PickedOnce, Picked, InLoop, StayBlocked, Continue
<1>14. CASE ReadFailed
  BY <1>14 DEF PickedOnce, Picked, InLoop, ReadFailed, ReadDone, Drop
<1>15. CASE FilterByWindow
  BY <1>15 DEF PickedOnce, Picked, InLoop, FilterByWindow, ReadDone, Drop
<1>16. CASE ReuseBody
  BY <1>16 DEF PickedOnce, Picked, InLoop, ReuseBody, ReadDone, Drop
<1>17. CASE Analyse
  BY <1>17 DEF PickedOnce, Picked, InLoop, Analyse, ReadDone
<1>18. CASE AskModel
  BY <1>18 DEF PickedOnce, Picked, InLoop, AskModel
<1>19. CASE EndExtraction
  BY <1>19 DEF PickedOnce, Picked, InLoop, EndExtraction, AfterExtraction
<1>20. CASE RecoverJson
  BY <1>20 DEF PickedOnce, Picked, InLoop, RecoverJson, AfterExtraction
<1>21. CASE FollowIndex
  BY <1>21 DEF PickedOnce, Picked, InLoop, FollowIndex, AskRanking, Children
<1>22. CASE NoIndexToFollow
  BY <1>22 DEF PickedOnce, Picked, InLoop, NoIndexToFollow
<1>23. CASE ApplyNavigation
  BY <1>23 DEF PickedOnce, Picked, InLoop, ApplyNavigation
<1>24. CASE NoContribution
  BY <1>24 DEF PickedOnce, Picked, InLoop, NoContribution, Drop
<1>25. CASE Merge
  BY <1>25 DEF PickedOnce, Picked, InLoop, Merge
<1>26. CASE EndArbitration
  BY <1>26 DEF PickedOnce, Picked, InLoop, EndArbitration
<1>27. CASE PersistArbitration
  BY <1>27 DEF PickedOnce, Picked, InLoop, PersistArbitration
<1>28. CASE DeferPublication
  BY <1>28 DEF PickedOnce, Picked, InLoop, DeferPublication, Drop
<1>29. CASE ResolvePublication
  BY <1>29 DEF PickedOnce, Picked, InLoop, ResolvePublication
<1>30. CASE CorroborationTriage
  BY <1>30 DEF PickedOnce, Picked, InLoop, CorroborationTriage, AskRanking, Candidates
<1>31. CASE NoCorroboration
  BY <1>31 DEF PickedOnce, Picked, InLoop, NoCorroboration
<1>32. CASE ApplyCorroboration
  BY <1>32 DEF PickedOnce, Picked, InLoop, ApplyCorroboration
<1>33. CASE Publish
  BY <1>33 DEF PickedOnce, Picked, InLoop, Publish, Onward, Drop
<1>34. CASE Admit
  BY <1>34 DEF PickedOnce, Picked, InLoop, Admit
<1>35. CASE SkipSource
  BY <1>35 DEF PickedOnce, Picked, InLoop, SkipSource, Onward, Drop
<1>36. CASE SaveMergedAnalysis
  BY <1>36 DEF PickedOnce, Picked, InLoop, SaveMergedAnalysis, Onward, Drop
<1>37. CASE Settle
  BY <1>37 DEF PickedOnce, Picked, InLoop, Settle, Pending
<1>38. CASE EndOfWork
  BY <1>38 DEF PickedOnce, Picked, InLoop, EndOfWork, Forget, ForgetReading
<1>39. CASE Unwind
  BY <1>39 DEF PickedOnce, Picked, InLoop, Unwind, Drop, Forget, ForgetReading
<1>40. CASE Close
  BY <1>40 DEF PickedOnce, Picked, InLoop, Close
<1>41. CASE FinalStatusCheck
  BY <1>41 DEF PickedOnce, Picked, InLoop, FinalStatusCheck
<1>42. CASE FinishSearchRun
  BY <1>42 DEF PickedOnce, Picked, InLoop, FinishSearchRun
<1>43. CASE Stop
  BY <1>43 DEF PickedOnce, Picked, InLoop, Stop
<1>44. CASE Raise
  BY <1>44 DEF PickedOnce, Picked, InLoop, Raise, ForgetAll, Drop, Forget, ForgetReading
<1>45. CASE Die
  BY <1>45 DEF PickedOnce, Picked, InLoop, Die, ForgetAll, Drop, Forget, ForgetReading
<1>46. CASE UNCHANGED vars
  BY <1>46 DEF PickedOnce, Picked, InLoop, vars
<1> QED
  BY <1>1, <1>2, <1>3, <1>4, <1>5, <1>6, <1>7, <1>8, <1>9, <1>10, <1>11, <1>12, <1>13, <1>14,
     <1>15, <1>16, <1>17, <1>18, <1>19, <1>20, <1>21, <1>22, <1>23, <1>24, <1>25, <1>26, <1>27,
     <1>28, <1>29, <1>30, <1>31, <1>32, <1>33, <1>34, <1>35, <1>36, <1>37, <1>38, <1>39, <1>40,
     <1>41, <1>42, <1>43, <1>44, <1>45, <1>46 DEF Next, Run, SearchAndTriage, Read, Extract,
     Deliver, Finish

LEMMA NextWindow == TypeInv /\ PickedOnce /\ WindowInv /\ [Next]_vars => WindowInv'
<1> SUFFICES ASSUME TypeInv, PickedOnce, WindowInv, [Next]_vars PROVE WindowInv'
  OBVIOUS
<1>0. /\ HandInv /\ cur \in Links \cup {None} /\ PickedOnce
      /\ date \in [Links -> Dates \cup {"none", "awaiting"}] /\ admitted \subseteq Links
  BY DEF TypeInv, StepType, CountType, UsedType, CallType, ListType, MapType, PageType
<1> USE <1>0, Limits DEF HandInv, Hand
<1>1. CASE Query
  BY <1>1 DEF WindowInv, AdmittedOnlyInWindow, Query
<1>2. CASE EndSearch
  BY <1>2 DEF WindowInv, AdmittedOnlyInWindow, EndSearch
<1>3. CASE BatchTriage
  BY <1>3 DEF WindowInv, AdmittedOnlyInWindow, BatchTriage, AskRanking
<1>4. CASE ApplyRanking
  BY <1>4 DEF WindowInv, AdmittedOnlyInWindow, ApplyRanking
<1>5. CASE EndTriage
  BY <1>5 DEF WindowInv, AdmittedOnlyInWindow, EndTriage
<1>6. CASE BuildReadQueue
  BY <1>6 DEF WindowInv, AdmittedOnlyInWindow, BuildReadQueue
<1>7. CASE Pick
  BY <1>7 DEF WindowInv, AdmittedOnlyInWindow, Pick
<1>8. CASE StopReading
  BY <1>8 DEF WindowInv, AdmittedOnlyInWindow, StopReading
<1>9. CASE SkipTransport
  BY <1>9 DEF WindowInv, AdmittedOnlyInWindow, SkipTransport, Continue
<1>10. CASE Load
  BY <1>10 DEF WindowInv, AdmittedOnlyInWindow, Load, PageRead, PageFailed, Challenged,
     ScanFound, Continue
<1>11. CASE Transcribe
  BY <1>11 DEF WindowInv, AdmittedOnlyInWindow, Transcribe, PageRead, PageFailed, Continue
<1>12. CASE AuthenticatedRetry
  BY <1>12 DEF WindowInv, AdmittedOnlyInWindow, AuthenticatedRetry, Continue
<1>13. CASE StayBlocked
  BY <1>13 DEF WindowInv, AdmittedOnlyInWindow, StayBlocked, Continue
<1>14. CASE ReadFailed
  BY <1>14 DEF WindowInv, AdmittedOnlyInWindow, ReadFailed, ReadDone, Drop, PickedOnce
<1>15. CASE FilterByWindow
  BY <1>15 DEF WindowInv, AdmittedOnlyInWindow, FilterByWindow, ReadDone, KeepShownDate, Drop,
     PickedOnce
<1>16. CASE ReuseBody
  BY <1>16 DEF WindowInv, AdmittedOnlyInWindow, ReuseBody, ReadDone, KeepShownDate, Drop,
     PickedOnce
<1>17. CASE Analyse
  BY <1>17 DEF WindowInv, AdmittedOnlyInWindow, Analyse, ReadDone
<1>18. CASE AskModel
  BY <1>18 DEF WindowInv, AdmittedOnlyInWindow, AskModel
<1>19. CASE EndExtraction
  BY <1>19 DEF WindowInv, AdmittedOnlyInWindow, EndExtraction, AfterExtraction
<1>20. CASE RecoverJson
  BY <1>20 DEF WindowInv, AdmittedOnlyInWindow, RecoverJson, AfterExtraction
<1>21. CASE FollowIndex
  BY <1>21 DEF WindowInv, AdmittedOnlyInWindow, FollowIndex, AskRanking
<1>22. CASE NoIndexToFollow
  BY <1>22 DEF WindowInv, AdmittedOnlyInWindow, NoIndexToFollow
<1>23. CASE ApplyNavigation
  BY <1>23 DEF WindowInv, AdmittedOnlyInWindow, ApplyNavigation
<1>24. CASE NoContribution
  BY <1>24 DEF WindowInv, AdmittedOnlyInWindow, NoContribution, KeepShownDate, Drop, PickedOnce
<1>25. CASE Merge
  BY <1>25 DEF WindowInv, AdmittedOnlyInWindow, Merge
<1>26. CASE EndArbitration
  BY <1>26 DEF WindowInv, AdmittedOnlyInWindow, EndArbitration
<1>27. CASE PersistArbitration
  BY <1>27 DEF WindowInv, AdmittedOnlyInWindow, PersistArbitration
<1>28. CASE DeferPublication
  BY <1>28 DEF WindowInv, AdmittedOnlyInWindow, DeferPublication, Drop, PickedOnce
<1>29. CASE ResolvePublication
  BY <1>29 DEF WindowInv, AdmittedOnlyInWindow, ResolvePublication
<1>30. CASE CorroborationTriage
  BY <1>30 DEF WindowInv, AdmittedOnlyInWindow, CorroborationTriage, AskRanking
<1>31. CASE NoCorroboration
  BY <1>31 DEF WindowInv, AdmittedOnlyInWindow, NoCorroboration
<1>32. CASE ApplyCorroboration
  BY <1>32 DEF WindowInv, AdmittedOnlyInWindow, ApplyCorroboration
<1>33. CASE Publish
  BY <1>33 DEF WindowInv, AdmittedOnlyInWindow, Publish, Onward, Drop, PickedOnce, Allowed
<1>34. CASE Admit
  BY <1>34 DEF WindowInv, AdmittedOnlyInWindow, Admit
<1>35. CASE SkipSource
  BY <1>35 DEF WindowInv, AdmittedOnlyInWindow, SkipSource, Onward, Drop
<1>36. CASE SaveMergedAnalysis
  BY <1>36 DEF WindowInv, AdmittedOnlyInWindow, SaveMergedAnalysis, Onward, Drop
<1>37. CASE Settle
  BY <1>37 DEF WindowInv, AdmittedOnlyInWindow, Settle
<1>38. CASE EndOfWork
  BY <1>38 DEF WindowInv, AdmittedOnlyInWindow, EndOfWork
<1>39. CASE Unwind
  BY <1>39 DEF WindowInv, AdmittedOnlyInWindow, Unwind, Drop
<1>40. CASE Close
  BY <1>40 DEF WindowInv, AdmittedOnlyInWindow, Close
<1>41. CASE FinalStatusCheck
  BY <1>41 DEF WindowInv, AdmittedOnlyInWindow, FinalStatusCheck
<1>42. CASE FinishSearchRun
  BY <1>42 DEF WindowInv, AdmittedOnlyInWindow, FinishSearchRun
<1>43. CASE Stop
  BY <1>43 DEF WindowInv, AdmittedOnlyInWindow, Stop
<1>44. CASE Raise
  BY <1>44 DEF WindowInv, AdmittedOnlyInWindow, Raise, ForgetAll, Drop
<1>45. CASE Die
  BY <1>45 DEF WindowInv, AdmittedOnlyInWindow, Die, ForgetAll, Drop
<1>46. CASE UNCHANGED vars
  BY <1>46 DEF WindowInv, AdmittedOnlyInWindow, vars
<1> QED
  BY <1>1, <1>2, <1>3, <1>4, <1>5, <1>6, <1>7, <1>8, <1>9, <1>10, <1>11, <1>12, <1>13, <1>14,
     <1>15, <1>16, <1>17, <1>18, <1>19, <1>20, <1>21, <1>22, <1>23, <1>24, <1>25, <1>26, <1>27,
     <1>28, <1>29, <1>30, <1>31, <1>32, <1>33, <1>34, <1>35, <1>36, <1>37, <1>38, <1>39, <1>40,
     <1>41, <1>42, <1>43, <1>44, <1>45, <1>46 DEF Next, Run, SearchAndTriage, Read, Extract,
     Deliver, Finish

-----------------------------------------------------------------------------
(* A stop                                                                  *)

\* Where a stop finds the run decides what may still happen: a write whose check was
\* passed is finished, a wrap-up that was not checked ends as stopped.
StopInv ==
    /\ at = "writing" => stopAt \in {None, "writing"}
    /\ at = "reporting" /\ exec = "completed" => stopAt \in {None, "reporting"}
    /\ row = "completed" => at = "ended" /\ stopAt \in {None, "reporting"}

LEMMA NextStop == TypeInv /\ StopInv /\ [Next]_vars => StopInv'
<1> SUFFICES ASSUME TypeInv, StopInv, [Next]_vars PROVE StopInv'
  OBVIOUS
<1>0. at \in Steps
  BY DEF TypeInv, StepType, CountType, UsedType, CallType, ListType, MapType, PageType
<1> USE <1>0, Limits DEF Steps, Checked
<1>1. CASE Query
  BY <1>1 DEF StopInv, Query
<1>2. CASE EndSearch
  BY <1>2 DEF StopInv, EndSearch
<1>3. CASE BatchTriage
  BY <1>3 DEF StopInv, BatchTriage, AskRanking
<1>4. CASE ApplyRanking
  BY <1>4 DEF StopInv, ApplyRanking
<1>5. CASE EndTriage
  BY <1>5 DEF StopInv, EndTriage
<1>6. CASE BuildReadQueue
  BY <1>6 DEF StopInv, BuildReadQueue
<1>7. CASE Pick
  BY <1>7 DEF StopInv, Pick
<1>8. CASE StopReading
  BY <1>8 DEF StopInv, StopReading
<1>9. CASE SkipTransport
  BY <1>9 DEF StopInv, SkipTransport, Continue
<1>10. CASE Load
  BY <1>10 DEF StopInv, Load, PageRead, PageFailed, Challenged, ScanFound, Continue
<1>11. CASE Transcribe
  BY <1>11 DEF StopInv, Transcribe, PageRead, PageFailed, Continue
<1>12. CASE AuthenticatedRetry
  BY <1>12 DEF StopInv, AuthenticatedRetry, Continue
<1>13. CASE StayBlocked
  BY <1>13 DEF StopInv, StayBlocked, Continue
<1>14. CASE ReadFailed
  BY <1>14 DEF StopInv, ReadFailed, ReadDone
<1>15. CASE FilterByWindow
  BY <1>15 DEF StopInv, FilterByWindow, ReadDone
<1>16. CASE ReuseBody
  BY <1>16 DEF StopInv, ReuseBody, ReadDone
<1>17. CASE Analyse
  BY <1>17 DEF StopInv, Analyse, ReadDone
<1>18. CASE AskModel
  BY <1>18 DEF StopInv, AskModel
<1>19. CASE EndExtraction
  BY <1>19 DEF StopInv, EndExtraction, AfterExtraction
<1>20. CASE RecoverJson
  BY <1>20 DEF StopInv, RecoverJson, AfterExtraction
<1>21. CASE FollowIndex
  BY <1>21 DEF StopInv, FollowIndex, AskRanking
<1>22. CASE NoIndexToFollow
  BY <1>22 DEF StopInv, NoIndexToFollow
<1>23. CASE ApplyNavigation
  BY <1>23 DEF StopInv, ApplyNavigation
<1>24. CASE NoContribution
  BY <1>24 DEF StopInv, NoContribution
<1>25. CASE Merge
  BY <1>25 DEF StopInv, Merge
<1>26. CASE EndArbitration
  BY <1>26 DEF StopInv, EndArbitration
<1>27. CASE PersistArbitration
  BY <1>27 DEF StopInv, PersistArbitration
<1>28. CASE DeferPublication
  BY <1>28 DEF StopInv, DeferPublication
<1>29. CASE ResolvePublication
  BY <1>29 DEF StopInv, ResolvePublication
<1>30. CASE CorroborationTriage
  BY <1>30 DEF StopInv, CorroborationTriage, AskRanking
<1>31. CASE NoCorroboration
  BY <1>31 DEF StopInv, NoCorroboration
<1>32. CASE ApplyCorroboration
  BY <1>32 DEF StopInv, ApplyCorroboration
<1>33. CASE Publish
  BY <1>33 DEF StopInv, Publish, Onward
<1>34. CASE Admit
  BY <1>34 DEF StopInv, Admit, Alive
<1>35. CASE SkipSource
  BY <1>35 DEF StopInv, SkipSource, Onward
<1>36. CASE SaveMergedAnalysis
  BY <1>36 DEF StopInv, SaveMergedAnalysis, Onward
<1>37. CASE Settle
  BY <1>37 DEF StopInv, Settle
<1>38. CASE EndOfWork
  BY <1>38 DEF StopInv, EndOfWork
<1>39. CASE Unwind
  BY <1>39 DEF StopInv, Unwind, Stopped
<1>40. CASE Close
  BY <1>40 DEF StopInv, Close
<1>41. CASE FinalStatusCheck
  BY <1>41 DEF StopInv, FinalStatusCheck, Alive, Stopped
<1>42. CASE FinishSearchRun
  BY <1>42 DEF StopInv, FinishSearchRun
<1>43. CASE Stop
  BY <1>43 DEF StopInv, Stop, Alive
<1>44. CASE Raise
  BY <1>44 DEF StopInv, Raise
<1>45. CASE Die
  BY <1>45 DEF StopInv, Die
<1>46. CASE UNCHANGED vars
  BY <1>46 DEF StopInv, vars
<1> QED
  BY <1>1, <1>2, <1>3, <1>4, <1>5, <1>6, <1>7, <1>8, <1>9, <1>10, <1>11, <1>12, <1>13, <1>14,
     <1>15, <1>16, <1>17, <1>18, <1>19, <1>20, <1>21, <1>22, <1>23, <1>24, <1>25, <1>26, <1>27,
     <1>28, <1>29, <1>30, <1>31, <1>32, <1>33, <1>34, <1>35, <1>36, <1>37, <1>38, <1>39, <1>40,
     <1>41, <1>42, <1>43, <1>44, <1>45, <1>46 DEF Next, Run, SearchAndTriage, Read, Extract,
     Deliver, Finish

-----------------------------------------------------------------------------
(* Dates that wait                                                         *)

Wrapup == {"closing", "closed", "reporting"}
Over == Wrapup \cup {"ended", "dead"}

\* A date waits only for a link that is pending, or that is being settled right now;
\* once the work is over, only in a run that did not complete.
SettledInv ==
    /\ at \notin Over =>
          \A l \in Links : date[l] = "awaiting" => gap[l] = "pending" \/ (l = cur /\ at = "publishing")
    /\ at \in Wrapup /\ exec = "completed" => \A l \in Links : date[l] # "awaiting"
    /\ row = "completed" => at = "ended" /\ \A l \in Links : date[l] # "awaiting"

LEMMA NextSettled == TypeInv /\ SettledInv /\ [Next]_vars => SettledInv'
<1> SUFFICES ASSUME TypeInv, SettledInv, [Next]_vars PROVE SettledInv'
  OBVIOUS
<1>0. /\ HandInv /\ at \in Steps /\ cur \in Links \cup {None}
      /\ shown \in Dates /\ date \in [Links -> Dates \cup {"none", "awaiting"}]
      /\ gap \in [Links -> {"none", "pending", "settled"}]
  BY DEF TypeInv, StepType, CountType, UsedType, CallType, ListType, MapType, PageType
<1> USE <1>0, Limits DEF HandInv, Hand, Wrapup, Over, Dates, Steps, Checked
<1>1. CASE Query
  BY <1>1 DEF SettledInv, Query
<1>2. CASE EndSearch
  BY <1>2 DEF SettledInv, EndSearch
<1>3. CASE BatchTriage
  BY <1>3 DEF SettledInv, BatchTriage, AskRanking
<1>4. CASE ApplyRanking
  BY <1>4 DEF SettledInv, ApplyRanking
<1>5. CASE EndTriage
  BY <1>5 DEF SettledInv, EndTriage
<1>6. CASE BuildReadQueue
  BY <1>6 DEF SettledInv, BuildReadQueue
<1>7. CASE Pick
  BY <1>7 DEF SettledInv, Pick
<1>8. CASE StopReading
  BY <1>8 DEF SettledInv, StopReading
<1>9. CASE SkipTransport
  BY <1>9 DEF SettledInv, SkipTransport, Continue
<1>10. CASE Load
  BY <1>10 DEF SettledInv, Load, PageRead, PageFailed, Challenged, ScanFound, Continue
<1>11. CASE Transcribe
  BY <1>11 DEF SettledInv, Transcribe, PageRead, PageFailed, Continue
<1>12. CASE AuthenticatedRetry
  BY <1>12 DEF SettledInv, AuthenticatedRetry, Continue
<1>13. CASE StayBlocked
  BY <1>13 DEF SettledInv, StayBlocked, Continue
<1>14. CASE ReadFailed
  BY <1>14 DEF SettledInv, ReadFailed, ReadDone, Drop
<1>15. CASE FilterByWindow
  BY <1>15 DEF SettledInv, FilterByWindow, ReadDone, KeepShownDate, Drop
<1>16. CASE ReuseBody
  BY <1>16 DEF SettledInv, ReuseBody, ReadDone, KeepShownDate, Drop
<1>17. CASE Analyse
  BY <1>17 DEF SettledInv, Analyse, ReadDone
<1>18. CASE AskModel
  BY <1>18 DEF SettledInv, AskModel
<1>19. CASE EndExtraction
  BY <1>19 DEF SettledInv, EndExtraction, AfterExtraction
<1>20. CASE RecoverJson
  BY <1>20 DEF SettledInv, RecoverJson, AfterExtraction
<1>21. CASE FollowIndex
  BY <1>21 DEF SettledInv, FollowIndex, AskRanking
<1>22. CASE NoIndexToFollow
  BY <1>22 DEF SettledInv, NoIndexToFollow
<1>23. CASE ApplyNavigation
  BY <1>23 DEF SettledInv, ApplyNavigation
<1>24. CASE NoContribution
  BY <1>24 DEF SettledInv, NoContribution, KeepShownDate, Drop
<1>25. CASE Merge
  BY <1>25 DEF SettledInv, Merge
<1>26. CASE EndArbitration
  BY <1>26 DEF SettledInv, EndArbitration
<1>27. CASE PersistArbitration
  BY <1>27 DEF SettledInv, PersistArbitration
<1>28. CASE DeferPublication
  BY <1>28 DEF SettledInv, DeferPublication, Drop
<1>29. CASE ResolvePublication
  BY <1>29 DEF SettledInv, ResolvePublication
<1>30. CASE CorroborationTriage
  BY <1>30 DEF SettledInv, CorroborationTriage, AskRanking
<1>31. CASE NoCorroboration
  BY <1>31 DEF SettledInv, NoCorroboration
<1>32. CASE ApplyCorroboration
  BY <1>32 DEF SettledInv, ApplyCorroboration
<1>33. CASE Publish
  BY <1>33 DEF SettledInv, Publish, Onward, Drop
<1>34. CASE Admit
  BY <1>34 DEF SettledInv, Admit
<1>35. CASE SkipSource
  BY <1>35 DEF SettledInv, SkipSource, Onward, Drop
<1>36. CASE SaveMergedAnalysis
  BY <1>36 DEF SettledInv, SaveMergedAnalysis, Onward, Drop
<1>37. CASE Settle
  BY <1>37 DEF SettledInv, Settle, Pending
<1>38. CASE EndOfWork
  BY <1>38 DEF SettledInv, EndOfWork, Forget, Pending
<1>39. CASE Unwind
  BY <1>39 DEF SettledInv, Unwind, Drop, Forget, Stopped
<1>40. CASE Close
  BY <1>40 DEF SettledInv, Close
<1>41. CASE FinalStatusCheck
  BY <1>41 DEF SettledInv, FinalStatusCheck, Stopped
<1>42. CASE FinishSearchRun
  BY <1>42 DEF SettledInv, FinishSearchRun
<1>43. CASE Stop
  BY <1>43 DEF SettledInv, Stop
<1>44. CASE Raise
  BY <1>44 DEF SettledInv, Raise, ForgetAll, Drop, Forget
<1>45. CASE Die
  BY <1>45 DEF SettledInv, Die, ForgetAll, Drop, Forget
<1>46. CASE UNCHANGED vars
  BY <1>46 DEF SettledInv, vars
<1> QED
  BY <1>1, <1>2, <1>3, <1>4, <1>5, <1>6, <1>7, <1>8, <1>9, <1>10, <1>11, <1>12, <1>13, <1>14,
     <1>15, <1>16, <1>17, <1>18, <1>19, <1>20, <1>21, <1>22, <1>23, <1>24, <1>25, <1>26, <1>27,
     <1>28, <1>29, <1>30, <1>31, <1>32, <1>33, <1>34, <1>35, <1>36, <1>37, <1>38, <1>39, <1>40,
     <1>41, <1>42, <1>43, <1>44, <1>45, <1>46 DEF Next, Run, SearchAndTriage, Read, Extract,
     Deliver, Finish

-----------------------------------------------------------------------------
(* Calls                                                                   *)

\* Answers in hand belong to a model call under way; they are counted against the run,
\* and not yet against the link or in the audit.
Calling == {"asking", "arbitrating", "arbitrated"}
CallsInv ==
    /\ at \notin Calling => outs = 0
    /\ PerLinkCeiling
    /\ at \notin Over => audited + outs = calls
    /\ at \in Wrapup /\ exec = "completed" => audited = calls
    /\ row = "completed" => at = "ended" /\ audited = calls

\* A ranking is asked for with two calls left.
ReserveInv ==
    /\ at \notin Ranking => batch = {}
    /\ ExtractionCallReserved

LEMMA NextCalls == TypeInv /\ CallsInv /\ [Next]_vars => CallsInv'
<1> SUFFICES ASSUME TypeInv, CallsInv, [Next]_vars PROVE CallsInv'
  OBVIOUS
<1>0. /\ HandInv /\ at \in Steps /\ cur \in Links \cup {None}
      /\ linkCalls \in [Links -> Nat] /\ outs \in Nat /\ audited \in Nat /\ calls \in Nat
  BY DEF TypeInv, StepType, CountType, UsedType, CallType, ListType, MapType, PageType
<1> USE <1>0, Limits DEF HandInv, Hand, Wrapup, Over, Calling, Steps, Checked
<1>1. CASE Query
  BY <1>1 DEF CallsInv, PerLinkCeiling, Query
<1>2. CASE EndSearch
  BY <1>2 DEF CallsInv, PerLinkCeiling, EndSearch
<1>3. CASE BatchTriage
  BY <1>3 DEF CallsInv, PerLinkCeiling, BatchTriage, AskRanking
<1>4. CASE ApplyRanking
  BY <1>4 DEF CallsInv, PerLinkCeiling, ApplyRanking
<1>5. CASE EndTriage
  BY <1>5 DEF CallsInv, PerLinkCeiling, EndTriage
<1>6. CASE BuildReadQueue
  BY <1>6 DEF CallsInv, PerLinkCeiling, BuildReadQueue
<1>7. CASE Pick
  BY <1>7 DEF CallsInv, PerLinkCeiling, Pick
<1>8. CASE StopReading
  BY <1>8 DEF CallsInv, PerLinkCeiling, StopReading, ForgetReading
<1>9. CASE SkipTransport
  BY <1>9 DEF CallsInv, PerLinkCeiling, SkipTransport, Continue
<1>10. CASE Load
  BY <1>10 DEF CallsInv, PerLinkCeiling, Load, PageRead, PageFailed, Challenged, ScanFound,
     Continue
<1>11. CASE Transcribe
  BY <1>11 DEF CallsInv, PerLinkCeiling, Transcribe, PageRead, PageFailed, Continue
<1>12. CASE AuthenticatedRetry
  BY <1>12 DEF CallsInv, PerLinkCeiling, AuthenticatedRetry, Continue
<1>13. CASE StayBlocked
  BY <1>13 DEF CallsInv, PerLinkCeiling, StayBlocked, Continue
<1>14. CASE ReadFailed
  BY <1>14 DEF CallsInv, PerLinkCeiling, ReadFailed, ReadDone, Drop
<1>15. CASE FilterByWindow
  BY <1>15 DEF CallsInv, PerLinkCeiling, FilterByWindow, ReadDone, Drop
<1>16. CASE ReuseBody
  BY <1>16 DEF CallsInv, PerLinkCeiling, ReuseBody, ReadDone, Drop
<1>17. CASE Analyse
  BY <1>17 DEF CallsInv, PerLinkCeiling, Analyse, ReadDone
<1>18. CASE AskModel
  BY <1>18 DEF CallsInv, PerLinkCeiling, AskModel, SourceRoom
<1>19. CASE EndExtraction
  BY <1>19 DEF CallsInv, PerLinkCeiling, EndExtraction, Answered, AfterExtraction
<1>20. CASE RecoverJson
  BY <1>20 DEF CallsInv, PerLinkCeiling, RecoverJson, Answered, AfterExtraction, SourceRoom
<1>21. CASE FollowIndex
  BY <1>21 DEF CallsInv, PerLinkCeiling, FollowIndex, AskRanking
<1>22. CASE NoIndexToFollow
  BY <1>22 DEF CallsInv, PerLinkCeiling, NoIndexToFollow
<1>23. CASE ApplyNavigation
  BY <1>23 DEF CallsInv, PerLinkCeiling, ApplyNavigation
<1>24. CASE NoContribution
  BY <1>24 DEF CallsInv, PerLinkCeiling, NoContribution, Drop
<1>25. CASE Merge
  BY <1>25 DEF CallsInv, PerLinkCeiling, Merge
<1>26. CASE EndArbitration
  BY <1>26 DEF CallsInv, PerLinkCeiling, EndArbitration, Answered
<1>27. CASE PersistArbitration
  BY <1>27 DEF CallsInv, PerLinkCeiling, PersistArbitration
<1>28. CASE DeferPublication
  BY <1>28 DEF CallsInv, PerLinkCeiling, DeferPublication, Drop
<1>29. CASE ResolvePublication
  BY <1>29 DEF CallsInv, PerLinkCeiling, ResolvePublication
<1>30. CASE CorroborationTriage
  BY <1>30 DEF CallsInv, PerLinkCeiling, CorroborationTriage, AskRanking
<1>31. CASE NoCorroboration
  BY <1>31 DEF CallsInv, PerLinkCeiling, NoCorroboration
<1>32. CASE ApplyCorroboration
  BY <1>32 DEF CallsInv, PerLinkCeiling, ApplyCorroboration
<1>33. CASE Publish
  BY <1>33 DEF CallsInv, PerLinkCeiling, Publish, Onward, Drop
<1>34. CASE Admit
  BY <1>34 DEF CallsInv, PerLinkCeiling, Admit
<1>35. CASE SkipSource
  BY <1>35 DEF CallsInv, PerLinkCeiling, SkipSource, Onward, Drop
<1>36. CASE SaveMergedAnalysis
  BY <1>36 DEF CallsInv, PerLinkCeiling, SaveMergedAnalysis, Onward, Drop
<1>37. CASE Settle
  BY <1>37 DEF CallsInv, PerLinkCeiling, Settle
<1>38. CASE EndOfWork
  BY <1>38 DEF CallsInv, PerLinkCeiling, EndOfWork, Forget, ForgetReading
<1>39. CASE Unwind
  BY <1>39 DEF CallsInv, PerLinkCeiling, Unwind, Drop, Forget, ForgetReading, Stopped
<1>40. CASE Close
  BY <1>40 DEF CallsInv, PerLinkCeiling, Close
<1>41. CASE FinalStatusCheck
  BY <1>41 DEF CallsInv, PerLinkCeiling, FinalStatusCheck, Stopped
<1>42. CASE FinishSearchRun
  BY <1>42 DEF CallsInv, PerLinkCeiling, FinishSearchRun
<1>43. CASE Stop
  BY <1>43 DEF CallsInv, PerLinkCeiling, Stop
<1>44. CASE Raise
  BY <1>44 DEF CallsInv, PerLinkCeiling, Raise, ForgetAll, Drop, Forget, ForgetReading
<1>45. CASE Die
  BY <1>45 DEF CallsInv, PerLinkCeiling, Die, ForgetAll, Drop, Forget, ForgetReading
<1>46. CASE UNCHANGED vars
  BY <1>46 DEF CallsInv, PerLinkCeiling, vars
<1> QED
  BY <1>1, <1>2, <1>3, <1>4, <1>5, <1>6, <1>7, <1>8, <1>9, <1>10, <1>11, <1>12, <1>13, <1>14,
     <1>15, <1>16, <1>17, <1>18, <1>19, <1>20, <1>21, <1>22, <1>23, <1>24, <1>25, <1>26, <1>27,
     <1>28, <1>29, <1>30, <1>31, <1>32, <1>33, <1>34, <1>35, <1>36, <1>37, <1>38, <1>39, <1>40,
     <1>41, <1>42, <1>43, <1>44, <1>45, <1>46 DEF Next, Run, SearchAndTriage, Read, Extract,
     Deliver, Finish

LEMMA NextReserve == TypeInv /\ ReserveInv /\ [Next]_vars => ReserveInv'
<1> SUFFICES ASSUME TypeInv, ReserveInv, [Next]_vars PROVE ReserveInv'
  OBVIOUS
<1>0. at \in Steps /\ calls \in Nat
  BY DEF TypeInv, StepType, CountType, UsedType, CallType, ListType, MapType, PageType
<1> USE <1>0, Limits DEF Ranking, Steps, Checked
<1>1. CASE Query
  BY <1>1 DEF ReserveInv, ExtractionCallReserved, Query
<1>2. CASE EndSearch
  BY <1>2 DEF ReserveInv, ExtractionCallReserved, EndSearch
<1>3. CASE BatchTriage
  BY <1>3 DEF ReserveInv, ExtractionCallReserved, BatchTriage, AskRanking, CanTriage
<1>4. CASE ApplyRanking
  BY <1>4 DEF ReserveInv, ExtractionCallReserved, ApplyRanking
<1>5. CASE EndTriage
  BY <1>5 DEF ReserveInv, ExtractionCallReserved, EndTriage
<1>6. CASE BuildReadQueue
  BY <1>6 DEF ReserveInv, ExtractionCallReserved, BuildReadQueue
<1>7. CASE Pick
  BY <1>7 DEF ReserveInv, ExtractionCallReserved, Pick
<1>8. CASE StopReading
  BY <1>8 DEF ReserveInv, ExtractionCallReserved, StopReading, ForgetReading
<1>9. CASE SkipTransport
  BY <1>9 DEF ReserveInv, ExtractionCallReserved, SkipTransport, Continue
<1>10. CASE Load
  BY <1>10 DEF ReserveInv, ExtractionCallReserved, Load, PageRead, PageFailed, Challenged,
     ScanFound, Continue
<1>11. CASE Transcribe
  BY <1>11 DEF ReserveInv, ExtractionCallReserved, Transcribe, PageRead, PageFailed, Continue
<1>12. CASE AuthenticatedRetry
  BY <1>12 DEF ReserveInv, ExtractionCallReserved, AuthenticatedRetry, Continue
<1>13. CASE StayBlocked
  BY <1>13 DEF ReserveInv, ExtractionCallReserved, StayBlocked, Continue
<1>14. CASE ReadFailed
  BY <1>14 DEF ReserveInv, ExtractionCallReserved, ReadFailed, ReadDone
<1>15. CASE FilterByWindow
  BY <1>15 DEF ReserveInv, ExtractionCallReserved, FilterByWindow, ReadDone
<1>16. CASE ReuseBody
  BY <1>16 DEF ReserveInv, ExtractionCallReserved, ReuseBody, ReadDone
<1>17. CASE Analyse
  BY <1>17 DEF ReserveInv, ExtractionCallReserved, Analyse, ReadDone
<1>18. CASE AskModel
  BY <1>18 DEF ReserveInv, ExtractionCallReserved, AskModel
<1>19. CASE EndExtraction
  BY <1>19 DEF ReserveInv, ExtractionCallReserved, EndExtraction, AfterExtraction
<1>20. CASE RecoverJson
  BY <1>20 DEF ReserveInv, ExtractionCallReserved, RecoverJson, AfterExtraction
<1>21. CASE FollowIndex
  BY <1>21 DEF ReserveInv, ExtractionCallReserved, FollowIndex, AskRanking, CanFollow, CanTriage
<1>22. CASE NoIndexToFollow
  BY <1>22 DEF ReserveInv, ExtractionCallReserved, NoIndexToFollow
<1>23. CASE ApplyNavigation
  BY <1>23 DEF ReserveInv, ExtractionCallReserved, ApplyNavigation
<1>24. CASE NoContribution
  BY <1>24 DEF ReserveInv, ExtractionCallReserved, NoContribution
<1>25. CASE Merge
  BY <1>25 DEF ReserveInv, ExtractionCallReserved, Merge
<1>26. CASE EndArbitration
  BY <1>26 DEF ReserveInv, ExtractionCallReserved, EndArbitration
<1>27. CASE PersistArbitration
  BY <1>27 DEF ReserveInv, ExtractionCallReserved, PersistArbitration
<1>28. CASE DeferPublication
  BY <1>28 DEF ReserveInv, ExtractionCallReserved, DeferPublication
<1>29. CASE ResolvePublication
  BY <1>29 DEF ReserveInv, ExtractionCallReserved, ResolvePublication
<1>30. CASE CorroborationTriage
  BY <1>30 DEF ReserveInv, ExtractionCallReserved, CorroborationTriage, AskRanking, CanFollow,
     CanTriage
<1>31. CASE NoCorroboration
  BY <1>31 DEF ReserveInv, ExtractionCallReserved, NoCorroboration
<1>32. CASE ApplyCorroboration
  BY <1>32 DEF ReserveInv, ExtractionCallReserved, ApplyCorroboration
<1>33. CASE Publish
  BY <1>33 DEF ReserveInv, ExtractionCallReserved, Publish, Onward
<1>34. CASE Admit
  BY <1>34 DEF ReserveInv, ExtractionCallReserved, Admit
<1>35. CASE SkipSource
  BY <1>35 DEF ReserveInv, ExtractionCallReserved, SkipSource, Onward
<1>36. CASE SaveMergedAnalysis
  BY <1>36 DEF ReserveInv, ExtractionCallReserved, SaveMergedAnalysis, Onward
<1>37. CASE Settle
  BY <1>37 DEF ReserveInv, ExtractionCallReserved, Settle
<1>38. CASE EndOfWork
  BY <1>38 DEF ReserveInv, ExtractionCallReserved, EndOfWork, Forget, ForgetReading
<1>39. CASE Unwind
  BY <1>39 DEF ReserveInv, ExtractionCallReserved, Unwind, Forget, ForgetReading
<1>40. CASE Close
  BY <1>40 DEF ReserveInv, ExtractionCallReserved, Close
<1>41. CASE FinalStatusCheck
  BY <1>41 DEF ReserveInv, ExtractionCallReserved, FinalStatusCheck
<1>42. CASE FinishSearchRun
  BY <1>42 DEF ReserveInv, ExtractionCallReserved, FinishSearchRun
<1>43. CASE Stop
  BY <1>43 DEF ReserveInv, ExtractionCallReserved, Stop
<1>44. CASE Raise
  BY <1>44 DEF ReserveInv, ExtractionCallReserved, Raise, ForgetAll, Forget, ForgetReading
<1>45. CASE Die
  BY <1>45 DEF ReserveInv, ExtractionCallReserved, Die, ForgetAll, Forget, ForgetReading
<1>46. CASE UNCHANGED vars
  BY <1>46 DEF ReserveInv, ExtractionCallReserved, vars
<1> QED
  BY <1>1, <1>2, <1>3, <1>4, <1>5, <1>6, <1>7, <1>8, <1>9, <1>10, <1>11, <1>12, <1>13, <1>14,
     <1>15, <1>16, <1>17, <1>18, <1>19, <1>20, <1>21, <1>22, <1>23, <1>24, <1>25, <1>26, <1>27,
     <1>28, <1>29, <1>30, <1>31, <1>32, <1>33, <1>34, <1>35, <1>36, <1>37, <1>38, <1>39, <1>40,
     <1>41, <1>42, <1>43, <1>44, <1>45, <1>46 DEF Next, Run, SearchAndTriage, Read, Extract,
     Deliver, Finish

-----------------------------------------------------------------------------
(* Theorems                                                                *)

RunInv == /\ TypeInv /\ PickedOnce /\ WindowInv /\ StopInv
          /\ SettledInv /\ CallsInv /\ ReserveInv

LEMMA InitRun == Init => RunInv
<1> SUFFICES ASSUME Init PROVE RunInv  OBVIOUS
<1>1. TypeInv
  BY InitTypes
<1>2. PickedOnce /\ WindowInv
  BY Limits DEF Init, PickedOnce, Picked, InLoop, Searching, Ranking, Hand, WindowInv,
     AdmittedOnlyInWindow
<1>3. StopInv /\ SettledInv
  BY DEF Init, StopInv, SettledInv, Over, Wrapup
<1>4. CallsInv /\ ReserveInv
  BY Limits DEF Init, CallsInv, PerLinkCeiling, Calling, Over, Wrapup, ReserveInv, Ranking,
     ExtractionCallReserved
<1> QED  BY <1>1, <1>2, <1>3, <1>4 DEF RunInv

LEMMA RunInvariant == Spec => []RunInv
<1>1. RunInv /\ [Next]_vars => RunInv'
  BY NextTypes, NextPicked, NextWindow, NextStop, NextSettled, NextCalls, NextReserve DEF RunInv
<1> QED  BY <1>1, InitRun, PTL DEF Spec

\* Only the step that stores a merged analysis admits a link.
LEMMA Admitting == Next => SaveMergedAnalysis \/ admitted' = admitted
<1> SUFFICES ASSUME Next PROVE SaveMergedAnalysis \/ admitted' = admitted  OBVIOUS
<1>1. CASE SearchAndTriage
  BY <1>1 DEF SearchAndTriage, Query, EndSearch, BatchTriage, ApplyRanking, EndTriage,
     BuildReadQueue
<1>2. CASE Read
  BY <1>2 DEF Read, Pick, StopReading, SkipTransport, Load, Transcribe, AuthenticatedRetry,
     StayBlocked, ReadFailed, ReadDone, FilterByWindow, ReuseBody, Analyse
<1>3. CASE Extract
  BY <1>3 DEF Extract, AskModel, EndExtraction, RecoverJson, FollowIndex, NoIndexToFollow,
     ApplyNavigation, NoContribution, Merge, EndArbitration, PersistArbitration
<1>4. CASE Deliver
  BY <1>4 DEF Deliver, DeferPublication, ResolvePublication, CorroborationTriage,
     NoCorroboration, ApplyCorroboration, Publish, Admit, SkipSource, Settle, EndOfWork
<1>5. CASE Finish
  BY <1>5 DEF Finish, Unwind, Close, FinalStatusCheck, FinishSearchRun
<1>6. CASE Stop \/ Raise \/ Die
  BY <1>6 DEF Stop, Raise, Die
<1> QED  BY <1>1, <1>2, <1>3, <1>4, <1>5, <1>6 DEF Next, Run

\* Records are only ever made from sources dated inside the window: on no path through
\* reading, deferral, corroboration and settling does a later date replace the admitted one.
THEOREM AdmissionIsInWindow == Spec => []AdmittedOnlyInWindow
<1>1. RunInv => AdmittedOnlyInWindow
  BY DEF RunInv, WindowInv
<1> QED  BY <1>1, RunInvariant, PTL

\* A run that is reported as completed has settled every date it deferred.
THEOREM CompletedMeansSettled == Spec => []CompletedRunIsSettled
<1>1. RunInv => CompletedRunIsSettled
  BY DEF RunInv, SettledInv, CompletedRunIsSettled
<1> QED  BY <1>1, RunInvariant, PTL

\* A stop before the last check of the wrap-up keeps the run from being completed.
THEOREM StopIsReported == Spec => []StoppedRunIsNotCompleted
<1>1. RunInv => StoppedRunIsNotCompleted
  BY DEF RunInv, StopInv, StoppedRunIsNotCompleted
<1> QED  BY <1>1, RunInvariant, PTL

\* Extraction, recovery and arbitration together never pass the ceiling of a link.
THEOREM LinkCeilingHolds == Spec => []PerLinkCeiling
<1>1. RunInv => PerLinkCeiling
  BY DEF RunInv, CallsInv
<1> QED  BY <1>1, RunInvariant, PTL

\* Ranking, navigation and corroboration never spend the last call.
THEOREM LastCallIsForExtraction == Spec => []ExtractionCallReserved
<1>1. RunInv => ExtractionCallReserved
  BY DEF RunInv, ReserveInv
<1> QED  BY <1>1, RunInvariant, PTL

\* Every call of a completed run is on record.
THEOREM CompletedMeansAudited == Spec => []CompletedRunIsAudited
<1>1. RunInv => CompletedRunIsAudited
  BY DEF RunInv, CallsInv, CompletedRunIsAudited
<1> QED  BY <1>1, RunInvariant, PTL

\* Once a run is stopped it admits nothing but what had passed its last check.
THEOREM NothingAdmittedAfterStop == Spec => StopEndsAdmission
<1>1. RunInv /\ [Next]_vars => [admitted' # admitted => Alive \/ stopAt = "writing"]_vars
  BY Admitting DEF RunInv, StopInv, SaveMergedAnalysis, Alive, vars
<1> QED  BY <1>1, RunInvariant, PTL DEF Spec, StopEndsAdmission

=============================================================================
