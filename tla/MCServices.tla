----------------------------- MODULE MCServices -----------------------------
(***************************************************************************)
(* Small instances of four components that share no state, checked side by *)
(* side: a behaviour picks one of them and takes its steps only, the others *)
(* rest in their initial states.                                           *)
(*   door     FrontDoor: one owner, who becomes a tenant on the way, two of *)
(*            her messages in one delivery, and a Telegram update of hers   *)
(*   limits   RateLimits by itself, with windows wide enough to slide       *)
(*   sites    Sites: an owner with two sites, one of them contested         *)
(*   reading  IntentReading: every answer a model can give                  *)
(***************************************************************************)
EXTENDS FrontDoor, Sites, IntentReading

CONSTANTS
    o1, m1, m2,
    Limit, Window, Ticks  \* of RateLimits by itself: both limits, both windows, the clock's bound

ASSUME WideAssumption == {Limit, Window} \subseteq Nat \ {0} /\ Ticks \in Nat

MCSender == [i \in Messages \cup Updates |-> o1]
MCBatches == {<<m1, m2>>}

VARIABLES picked, lclock, lbuckets, lwindows, lcleanup, ltenantLog, lownerLog

Limits == INSTANCE RateLimits WITH
    MaxMessages <- Limit, WindowHours <- Window,
    MaxRequests <- Limit, WindowSeconds <- Window, MaxClock <- Ticks,
    clock <- lclock, buckets <- lbuckets, windows <- lwindows, lastCleanup <- lcleanup,
    tenantLog <- ltenantLog, ownerLog <- lownerLog

limitVars == <<lclock, lbuckets, lwindows, lcleanup, ltenantLog, lownerLog>>
allVars == <<picked, vars, limitVars, siteVars, readingVars>>

MCInit ==
    /\ picked \in {"door", "limits", "sites", "reading"}
    /\ Init /\ Limits!LimitsInit /\ SitesInit /\ ReadingInit
    /\ picked # "reading" => hasFallback

Door(A) == picked = "door" /\ A /\ UNCHANGED <<picked, limitVars, siteVars, readingVars>>

MCNext ==
    \/ Door(Next)
    \/ /\ picked = "limits" /\ Limits!LimitsNext
       /\ UNCHANGED <<picked, vars, siteVars, readingVars>>
    \/ /\ picked = "sites" /\ SitesNext
       /\ UNCHANGED <<picked, vars, limitVars, readingVars>>
    \/ /\ picked = "reading" /\ ReadingNext
       /\ UNCHANGED <<picked, vars, limitVars, siteVars>>

\* The fairness of FrontDoor, for the behaviours that pick it.
MCFairness ==
    /\ \A r \in Requests : WF_allVars(Door(Step(r)))
    /\ \A b \in Batches : WF_allVars(Door(b \notin answered /\ \E r \in Requests : Deliver(r, b)))

MCSpec == MCInit /\ [][MCNext]_allVars /\ MCFairness

\* FrontDoor's EveryBatchAnswered: every delivery is answered in the end.
DoorAnswersEveryBatch == picked = "door" => EveryBatchAnswered

\* RateLimits' bounds, on the wider windows (see there).
SlidingWindowBound == Limits!SlidingBound
FixedWindowBurst == Limits!BurstBound
BucketCounts == Limits!BucketCountsWindow
=============================================================================
